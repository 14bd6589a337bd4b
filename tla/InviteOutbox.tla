---------------------------- MODULE InviteOutbox ----------------------------
(***************************************************************************)
(* The invite-email outbox and the workers that drain it                   *)
(* (services/invite_outbox.py, core/outbox_worker.py).  A worker claims a  *)
(* batch of due rows by pushing their next_attempt_at a lease into the     *)
(* future, then makes two calls to Supabase for each row with no           *)
(* transaction open, and records the outcome in a transaction of its own,  *)
(* and at last what the batch did in job_runs (services/job_runs.py).      *)
(*                                                                         *)
(* Time is discrete: wait[r] counts down to next_attempt_at and left[w] to *)
(* the timeout of the call or statement worker w is in, and time does not  *)
(* pass a timeout.  A call that times out is abandoned, not cancelled: its *)
(* thread runs on, and the request may still take effect at Supabase.      *)
(***************************************************************************)
EXTENDS Naturals, FiniteSets

CONSTANTS
  Rows,         \* outbox rows, each for an email of its own
  Workers,      \* processes that poll the outbox
  Limit,        \* rows per batch
  LeaseTime,    \* _LEASE_SEC
  CallTime,     \* SUPABASE_TIMEOUT_SEC, for each of the two calls
  MarkTime,     \* DB_STATEMENT_TIMEOUT_MS: bounds the claim and the outcome transactions
  BackoffBase,  \* the 5 of _backoff_secs
  BackoffCap,   \* _BACKOFF_CAP_SEC
  MaxAttempts,  \* _MAX_ATTEMPTS
  Never,        \* 100 years: a wait that time does not shorten
  Anonymous,    \* rows whose invite call is answered without a user id
  Crashes       \* bound: how many batches are cut short, or not recorded

ASSUME OutboxAssumption ==
  /\ Limit \in Nat \ {0} /\ MaxAttempts \in Nat \ {0} /\ Crashes \in Nat
  /\ LeaseTime \in Nat /\ CallTime \in Nat /\ MarkTime \in Nat
  /\ BackoffBase \in Nat /\ BackoffCap \in Nat
  /\ Never \in Nat /\ LeaseTime < Never /\ BackoffCap < Never
  /\ Anonymous \subseteq Rows /\ IsFiniteSet(Rows)
  /\ \A n \in 1 .. MaxAttempts : BackoffBase * 2 ^ n \in Nat \* arithmetic, for the provers

VARIABLES
  queued,     \* rows inserted by a committed request
  succeeded,  \* rows with succeeded_at
  attempts,   \* the attempts column
  wait,       \* next_attempt_at - now(), or 0 once it is past
  pc,         \* where each worker is
  batch,      \* the rows it has claimed and not started, as its claim read them
  cur,        \* the one it is sending, if any
  tally,      \* how many rows the batch had, and how many it has sent
  left,       \* time until its call or statement times out
  account,    \* the auth user with the row's email
  tagged,     \* rows whose ids are in the app_metadata of that user
  late,       \* abandoned calls that may still take effect
  runs,       \* job_runs: the sums of items_succeeded and of items_failed
  cuts        \* batches cut short or not recorded so far

table == <<queued, succeeded, attempts, wait>>
worker == <<pc, batch, cur, tally, left>>
supabase == <<account, tagged, late>>
vars == <<table, worker, supabase, runs, cuts>>

(* A row as a worker holds it: the id, and the attempts column of the claim. *)
NoRows == [claimed |-> 0, sent |-> 0]
Copy == [id: Rows, attempts: Nat]
CopyOf(r) == [id |-> r, attempts |-> attempts[r]]
Held(w) == {c.id : c \in batch[w] \cup cur[w]}

Steps == {"poll", "claim", "next", "invite", "update", "success", "failure", "record"}
Calls == {"invite", "update"}
Accounts == {"none", "invited", "confirmed"}
Least(x, y) == IF x <= y THEN x ELSE y

----------------------------------------------------------------------------
(* The request path: the row is committed with its invite. *)
Enqueue(r) ==
  /\ r \notin queued
  /\ queued' = queued \cup {r}
  /\ UNCHANGED <<succeeded, attempts, wait, worker, supabase, runs, cuts>>

(* _claim_due: due rows that no other claim holds; none in a row is an idle poll. *)
Due_IgnoresLease == queued \ succeeded
Due == {r \in queued \ succeeded : wait[r] = 0}

Claim(w) ==
  /\ pc[w] = "poll" /\ Due # {}
  /\ \E S \in SUBSET Due :
       /\ Cardinality(S) = Least(Limit, Cardinality(Due))
       /\ batch' = [batch EXCEPT ![w] = {CopyOf(r) : r \in S}]
       /\ wait' = [r \in Rows |-> IF r \in S THEN LeaseTime ELSE wait[r]]
       /\ tally' = [tally EXCEPT ![w] = [claimed |-> Cardinality(S), sent |-> 0]]
  /\ pc' = [pc EXCEPT ![w] = "claim"]
  /\ left' = [left EXCEPT ![w] = MarkTime]
  /\ UNCHANGED <<queued, succeeded, attempts, cur, supabase, runs, cuts>>

Goto(w, step, time) ==
  /\ pc' = [pc EXCEPT ![w] = step]
  /\ left' = [left EXCEPT ![w] = time]

Claimed(w) ==
  /\ pc[w] = "claim"
  /\ Goto(w, "next", 0)
  /\ UNCHANGED <<table, batch, cur, tally, supabase, runs, cuts>>

(* The loop of process_due_batch: the next row, or the end of the batch. *)
StartRow(w) ==
  /\ pc[w] = "next"
  /\ \E c \in batch[w] :
       /\ cur' = [cur EXCEPT ![w] = {c}]
       /\ batch' = [batch EXCEPT ![w] = @ \ {c}]
  /\ Goto(w, "invite", CallTime)
  /\ UNCHANGED <<table, tally, supabase, runs, cuts>>

EndBatch(w) ==
  /\ pc[w] = "next" /\ batch[w] = {}
  /\ Goto(w, "record", MarkTime)
  /\ UNCHANGED <<table, batch, cur, tally, supabase, runs, cuts>>

----------------------------------------------------------------------------
(* _send_one.  An invite creates the auth user or mails it again; Supabase *)
(* refuses one for a user who has confirmed the address.                   *)
Effect(kind, r) ==
  IF kind = "invite"
  THEN /\ account' = [account EXCEPT ![r] = IF @ = "none" THEN "invited" ELSE @]
       /\ UNCHANGED tagged
  ELSE tagged' = tagged \cup {r} /\ UNCHANGED account

Accepts(kind, r) == kind = "invite" => account[r] # "confirmed"

AfterAnswer_NoUpdate(w, r) == Goto(w, "success", MarkTime)
AfterAnswer(w, r) ==
  IF pc[w] = "invite" /\ r \notin Anonymous
  THEN Goto(w, "update", CallTime) ELSE Goto(w, "success", MarkTime)

Answered(w) ==
  /\ pc[w] \in Calls
  /\ \E c \in cur[w] :
       /\ Accepts(pc[w], c.id)
       /\ Effect(pc[w], c.id)
       /\ AfterAnswer(w, c.id)
  /\ UNCHANGED <<table, batch, cur, tally, late, runs, cuts>>

(* A refusal, a transport error or a timeout, all caught: the call may     *)
(* have been lost, or may land now or later.                               *)
CallFails(w) ==
  /\ pc[w] \in Calls
  /\ late' = late \cup {<<pc[w], c.id>> : c \in cur[w]}
  /\ Goto(w, "failure", MarkTime)
  /\ UNCHANGED <<table, batch, cur, tally, account, tagged, runs, cuts>>

(* An abandoned call takes effect, or never does. *)
Land(c) ==
  /\ c \in late
  /\ late' = late \ {c}
  /\ Accepts(c[1], c[2]) /\ Effect(c[1], c[2])
  /\ UNCHANGED <<table, worker, runs, cuts>>

Lost(c) ==
  /\ c \in late
  /\ late' = late \ {c}
  /\ UNCHANGED <<table, worker, account, tagged, runs, cuts>>

(* The invitee follows the link. *)
Confirm(r) ==
  /\ account[r] = "invited"
  /\ account' = [account EXCEPT ![r] = "confirmed"]
  /\ UNCHANGED <<table, worker, tagged, late, runs, cuts>>

----------------------------------------------------------------------------
(* The outcome, in a transaction of its own. *)

Done(w) == cur' = [cur EXCEPT ![w] = {}] /\ Goto(w, "next", 0)

MarkSuccess(w) ==
  /\ pc[w] = "success"
  /\ succeeded' = succeeded \cup {c.id : c \in cur[w]}
  /\ tally' = [tally EXCEPT ![w].sent = @ + 1]
  /\ Done(w)
  /\ UNCHANGED <<queued, attempts, wait, batch, supabase, runs, cuts>>

Backoff(n) == Least(BackoffCap, BackoffBase * 2 ^ n)
NextTry_Unbounded(n) == Backoff(n)
NextTry_Early(n) == IF n + 1 >= MaxAttempts THEN Never ELSE Backoff(n)
NextTry(n) == IF n >= MaxAttempts THEN Never ELSE Backoff(n)

(* attempts + 1, where attempts is what the claim read. *)
MarkFailure(w) ==
  /\ pc[w] = "failure"
  /\ \E c \in cur[w] :
       /\ attempts' = [attempts EXCEPT ![c.id] = c.attempts + 1]
       /\ wait' = [wait EXCEPT ![c.id] = NextTry(c.attempts + 1)]
  /\ Done(w)
  /\ UNCHANGED <<queued, succeeded, batch, tally, supabase, runs, cuts>>

(* _record_run: the job_runs row of the batch; a failure to write it is     *)
(* logged and forgotten.                                                   *)
Recorded_Claimed(w) ==
  [sent |-> runs.sent + tally[w].claimed, failed |-> runs.failed]
Recorded(w) ==
  [sent |-> runs.sent + tally[w].sent,
   failed |-> runs.failed + (tally[w].claimed - tally[w].sent)]

RecordRun(w) ==
  /\ pc[w] = "record"
  /\ \/ runs' = Recorded(w) /\ UNCHANGED cuts
     \/ cuts < Crashes /\ cuts' = cuts + 1 /\ UNCHANGED runs
  /\ tally' = [tally EXCEPT ![w] = NoRows]
  /\ Goto(w, "poll", 0)
  /\ UNCHANGED <<table, batch, cur, supabase>>

InFlight(w) == IF pc[w] \in Calls THEN {<<pc[w], c.id>> : c \in cur[w]} ELSE {}

(* Any other exception, or the end of the process: the rest of the batch   *)
(* is dropped, its rows stay leased, and a call in flight is abandoned.    *)
CutShort(w) ==
  /\ pc[w] # "poll" /\ cuts < Crashes
  /\ cuts' = cuts + 1
  /\ late' = late \cup InFlight(w)
  /\ batch' = [batch EXCEPT ![w] = {}]
  /\ cur' = [cur EXCEPT ![w] = {}]
  /\ Goto(w, "poll", 0)
  /\ tally' = [tally EXCEPT ![w] = NoRows]
  /\ UNCHANGED <<table, account, tagged, runs>>

----------------------------------------------------------------------------
(* A unit of time: no call or statement outlives its timeout. *)
Tick ==
  /\ \A w \in Workers : pc[w] # "poll" => left[w] > 0
  /\ left' = [w \in Workers |-> IF left[w] > 0 THEN left[w] - 1 ELSE 0]
  /\ wait' = [r \in Rows |-> IF wait[r] \in 1 .. Never - 1 THEN wait[r] - 1 ELSE wait[r]]
  /\ wait' # wait \/ left' # left
  /\ UNCHANGED <<queued, succeeded, attempts, pc, batch, cur, tally, supabase, runs, cuts>>

Init ==
  /\ queued = {} /\ succeeded = {}
  /\ attempts = [r \in Rows |-> 0]
  /\ wait = [r \in Rows |-> 0]
  /\ pc = [w \in Workers |-> "poll"]
  /\ batch = [w \in Workers |-> {}]
  /\ cur = [w \in Workers |-> {}]
  /\ tally = [w \in Workers |-> NoRows]
  /\ left = [w \in Workers |-> 0]
  /\ account = [r \in Rows |-> "none"]
  /\ tagged = {} /\ late = {}
  /\ runs = [sent |-> 0, failed |-> 0] /\ cuts = 0

Finishes(w) == MarkSuccess(w) \/ MarkFailure(w)
Step(w) == Claimed(w) \/ StartRow(w) \/ EndBatch(w) \/ Answered(w) \/ CallFails(w) \/ Finishes(w) \/ RecordRun(w)

Next ==
  \/ \E r \in Rows : Enqueue(r) \/ Confirm(r)
  \/ \E w \in Workers : Claim(w) \/ Step(w) \/ CutShort(w)
  \/ \E c \in Calls \X Rows : Land(c) \/ Lost(c)
  \/ Tick

Spec == Init /\ [][Next]_vars

(* Clocks run, a worker that has begun a step ends it (every step has a    *)
(* timeout), and its poll loop comes round again.                          *)
LiveSpec == Spec /\ WF_vars(Tick) /\ \A w \in Workers : WF_vars(Step(w)) /\ WF_vars(Claim(w))

----------------------------------------------------------------------------
(* Properties *)

(* Every variable has its type; a worker that is polling holds no row, and *)
(* one is being sent exactly while a call or its outcome is under way.     *)
TypeOK ==
  /\ queued \subseteq Rows /\ succeeded \subseteq queued
  /\ attempts \in [Rows -> 0 .. MaxAttempts]
  /\ wait \in [Rows -> Nat]
  /\ pc \in [Workers -> Steps]
  /\ batch \in [Workers -> SUBSET Copy]
  /\ cur \in [Workers -> SUBSET Copy]
  /\ tally \in [Workers -> [claimed : 0 .. Limit, sent : 0 .. Limit]]
  /\ runs \in [sent : Nat, failed : Nat]
  /\ left \in [Workers -> Nat]
  /\ account \in [Rows -> Accounts]
  /\ tagged \subseteq Rows /\ late \subseteq Calls \X Rows /\ cuts \in 0 .. Crashes
  /\ \A w \in Workers :
       /\ pc[w] = "poll" => batch[w] = {} /\ cur[w] = {}
       /\ Cardinality(cur[w]) = IF pc[w] \in {"poll", "claim", "next", "record"} THEN 0 ELSE 1

(* "the lease prevents two workers double-claiming": no row is in the hands *)
(* of two workers.                                                         *)
ClaimsDisjoint == \A v, w \in Workers : v # w => Held(v) \cap Held(w) = {}

(* A row is marked sent only when its email went out and, if the answer    *)
(* named the user, the invite's id is in that user's app_metadata, without *)
(* which the invite cannot be accepted; whatever failed, landed late or    *)
(* was cut short on the way.                                               *)
SentMeansTagged ==
  \A r \in succeeded : account[r] # "none" /\ (r \in Anonymous \/ r \in tagged)

(* job_runs is what an operator sees of the worker: it never shows more     *)
(* emails sent or failed than there were, and, if every batch so far was   *)
(* finished and recorded, exactly those.                                   *)
Failures == Cardinality({x \in Rows \X (1 .. MaxAttempts) : x[2] <= attempts[x[1]]})
RunsAddUp ==
  /\ runs.sent <= Cardinality(succeeded) /\ runs.failed <= Failures
  /\ cuts = 0 /\ (\A w \in Workers : pc[w] = "poll") =>
       runs = [sent |-> Cardinality(succeeded), failed |-> Failures]

(* Every email staged is sent, or given up after all its attempts.  At     *)
(* most Crashes batches end by an exception of another kind or a restart:  *)
(* a row whose call raised one each time would count no attempt.           *)
Settles == \A r \in Rows :
  r \in queued ~> r \in succeeded \/ attempts[r] >= MaxAttempts

(* The workers implement the ledger of deliveries. *)
Ledger == INSTANCE OutboxLedger WITH sent <- succeeded, tries <- attempts
ImplementsLedger == Ledger!Spec

=============================================================================
