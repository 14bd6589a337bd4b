---------------------------- MODULE OutboxLedger ----------------------------
(***************************************************************************)
(* What the outbox promises for each invite email: it is sent, or tried    *)
(* MaxAttempts times and then left for an operator; tries are counted one  *)
(* by one and never forgotten, and a settled email stays settled.  No      *)
(* workers, leases, timeouts or crashes.                                   *)
(***************************************************************************)
EXTENDS Naturals

CONSTANTS Rows, MaxAttempts

VARIABLES queued, sent, tries

Init == queued = {} /\ sent = {} /\ tries = [r \in Rows |-> 0]

Open(r) == r \in queued \ sent /\ tries[r] < MaxAttempts

Enqueue(r) == queued' = queued \cup {r} /\ UNCHANGED <<sent, tries>>

Send(r) == Open(r) /\ sent' = sent \cup {r} /\ UNCHANGED <<queued, tries>>

Fail(r) == Open(r) /\ tries' = [tries EXCEPT ![r] = @ + 1] /\ UNCHANGED <<queued, sent>>

Next == \E r \in Rows : Enqueue(r) \/ Send(r) \/ Fail(r)

Spec == Init /\ [][Next]_<<queued, sent, tries>>
=============================================================================
