-------------------------------- MODULE Signup --------------------------------
(***************************************************************************)
(* Sign-up for one email address: the throttle in Valkey that counts the   *)
(* requests for the address (core/email_throttle.py), the setting that     *)
(* opens and closes signups (services/platform_settings.py), and the call  *)
(* to Supabase (services/signup.py).                                       *)
(*                                                                         *)
(* INCR and TTL are one transaction of Valkey, the EXPIRE that arms the    *)
(* window is a call of its own: the process may end in between, Valkey may *)
(* fail, and a command that fails for its caller may have been done.  Time *)
(* is in ticks, and does not pass the client's timeouts, which are short:  *)
(* EXPIRE follows its INCR within ArmTime, or is given up.                 *)
(***************************************************************************)
EXTENDS Integers

CONSTANTS
  Sessions,
  Most,     \* signup_email_max_per_window
  Window,   \* signup_email_window_sec
  ArmTime,  \* bound on the time from INCR to EXPIRE: socket_timeout, twice
  Many      \* bound: requests are counted up to it

Ages == 0..(Window - 1)

VARIABLES
  count,    \* the counter of the address; 0 when the key is not there
  ttl,      \* time until the key expires; Endless when it does not
  open,     \* signups_enabled
  account,  \* the address in auth.users: "none", "late" (a call may create it yet), "there"
  recent,   \* history: per age, how many counted requests passed the throttle
  pc, kind, \* per session: its next step, and what it is
  read,     \* what it read: the counter, or the setting
  waited    \* how long ago it made its INCR, if its EXPIRE is due

Endless == -1
throttle == <<count, ttl, recent>>
session == <<pc, kind, read, waited>>
vars == <<throttle, open, account, session>>

Kinds == {"signup", "resend", "open", "close"}
Points == {"idle", "arm", "gate", "lookup", "call", "save", "refused"}

Goto(s, l) == pc' = [pc EXCEPT ![s] = l]
End(s) ==
  /\ Goto(s, "idle")
  /\ kind' = [kind EXCEPT ![s] = "signup"]
  /\ read' = [read EXCEPT ![s] = 0]
  /\ waited' = [waited EXCEPT ![s] = 0]
CutShort(s) == pc[s] # "idle" /\ End(s) /\ UNCHANGED <<throttle, open, account>>

----------------------------------------------------------------------------
(* is_email_throttled *)

Over_One(n) == n > Most + 1
Over(n) == n > Most
Passed == [recent EXCEPT ![0] = IF @ < Many THEN @ + 1 ELSE @]

(* The route answers 429, or goes on to the setting. *)
Decide(s, n) ==
  /\ read' = [read EXCEPT ![s] = 0]
  /\ waited' = [waited EXCEPT ![s] = 0]
  /\ IF Over(n)
     THEN Goto(s, "refused") /\ UNCHANGED recent
     ELSE Goto(s, "gate") /\ recent' = Passed

(* The counter is at 1, or its key has no time to live: EXPIRE follows. *)
Unarmed_FirstOnly(n) == n = 1
Unarmed(n) == n = 1 \/ ttl = Endless
Incremented == IF count < Many THEN count + 1 ELSE Many
Incr == count' = Incremented /\ ttl' = IF count = 0 THEN Endless ELSE ttl
Count(s, k) ==
  /\ pc[s] = "idle"
  /\ Incr
  /\ IF Unarmed(Incremented)
     THEN /\ Goto(s, "arm")
          /\ read' = [read EXCEPT ![s] = Incremented]
          /\ UNCHANGED <<recent, waited>>
     ELSE Decide(s, Incremented)
  /\ kind' = [kind EXCEPT ![s] = k]
  /\ UNCHANGED <<open, account>>

(* EXPIRE does nothing to a key that is gone. *)
Expire == ttl' = (IF count = 0 THEN ttl ELSE Window) /\ UNCHANGED count
Arm(s) ==
  /\ pc[s] = "arm"
  /\ Expire
  /\ Decide(s, read[s])
  /\ UNCHANGED <<open, account, kind>>

Refuse(s) == pc[s] = "refused" /\ End(s) /\ UNCHANGED <<throttle, open, account>>

(* Valkey is down, or its answer late, for either command: the request is  *)
(* not throttled, and the command was done or not.                         *)
FailOpen(s, k) ==
  /\ \/ pc[s] = "idle" /\ kind' = [kind EXCEPT ![s] = k] /\ (Incr \/ UNCHANGED <<count, ttl>>)
     \/ pc[s] = "arm" /\ UNCHANGED kind /\ (Expire \/ UNCHANGED <<count, ttl>>)
  /\ Goto(s, "gate")
  /\ read' = [read EXCEPT ![s] = 0]
  /\ waited' = [waited EXCEPT ![s] = 0]
  /\ UNCHANGED <<recent, open, account>>

----------------------------------------------------------------------------
(* create_signup_user and resend_signup_confirmation *)

Gate(s) ==
  /\ pc[s] = "gate"
  /\ IF open
     THEN /\ Goto(s, IF kind[s] = "signup" THEN "lookup" ELSE "call")
          /\ UNCHANGED <<kind, read, waited>>
     ELSE End(s)
  /\ UNCHANGED <<throttle, open, account>>

Lookup(s) ==
  /\ pc[s] = "lookup"
  /\ IF account = "there" THEN End(s) ELSE Goto(s, "call") /\ UNCHANGED <<kind, read, waited>>
  /\ UNCHANGED <<throttle, open, account>>

(* The call is done; refused; or given up on, when sign_up may be done yet. *)
Call(s) ==
  /\ pc[s] = "call"
  /\ \/ account' = IF kind[s] = "signup" THEN "there" ELSE account
     \/ UNCHANGED account
     \/ kind[s] = "signup" /\ account = "none" /\ account' = "late"
  /\ End(s)
  /\ UNCHANGED <<throttle, open>>

Lands ==
  /\ account = "late" /\ account' = "there"
  /\ UNCHANGED <<throttle, open, session>>

----------------------------------------------------------------------------
(* PUT /api/platform/settings: the row is read, and the column written only *)
(* if the value differs from the one read.                                  *)

ReadSettings(s, k) ==
  /\ pc[s] = "idle"
  /\ Goto(s, "save")
  /\ kind' = [kind EXCEPT ![s] = k]
  /\ read' = [read EXCEPT ![s] = IF open THEN 1 ELSE 0]
  /\ UNCHANGED <<throttle, open, account, waited>>

SaveSettings(s) ==
  /\ pc[s] = "save"
  /\ open' = IF (kind[s] = "open") # (read[s] = 1) THEN kind[s] = "open" ELSE open
  /\ End(s)
  /\ UNCHANGED <<throttle, account>>

(* The key expires; passes grow old; no request waits longer than it may.  *)
Arming == {s \in Sessions : pc[s] = "arm"}
Elapse ==
  /\ \A s \in Arming : waited[s] < ArmTime
  /\ waited' = [s \in Sessions |-> IF s \in Arming THEN waited[s] + 1 ELSE waited[s]]
  /\ ttl' = IF ttl > 1 THEN ttl - 1 ELSE IF ttl = 1 THEN 0 ELSE ttl
  /\ count' = IF ttl = 1 THEN 0 ELSE count
  /\ recent' = [a \in Ages |-> IF a = 0 THEN 0 ELSE recent[a - 1]]
  /\ UNCHANGED <<open, account, pc, kind, read>>

Init ==
  /\ count = 0 /\ ttl = 0
  /\ open = FALSE /\ account = "none"
  /\ recent = [a \in Ages |-> 0]
  /\ pc = [s \in Sessions |-> "idle"]
  /\ kind = [s \in Sessions |-> "signup"]
  /\ read = [s \in Sessions |-> 0]
  /\ waited = [s \in Sessions |-> 0]

Begin(s) ==
  \/ \E k \in {"signup", "resend"} : Count(s, k) \/ (pc[s] = "idle" /\ FailOpen(s, k))
  \/ \E k \in {"open", "close"} : ReadSettings(s, k)
Step(s) ==
  \/ Arm(s) \/ (pc[s] = "arm" /\ FailOpen(s, kind[s]))
  \/ Refuse(s) \/ Gate(s) \/ Lookup(s) \/ Call(s) \/ SaveSettings(s) \/ CutShort(s)

Next == (\E s \in Sessions : Begin(s) \/ Step(s)) \/ Lands \/ Elapse

Spec == Init /\ [][Next]_vars

----------------------------------------------------------------------------
(* Properties *)

TypeOK ==
  /\ count \in 0..Many /\ ttl \in Endless..Window
  /\ open \in BOOLEAN /\ account \in {"none", "late", "there"}
  /\ recent \in [Ages -> 0..Many]
  /\ pc \in [Sessions -> Points]
  /\ kind \in [Sessions -> Kinds]
  /\ read \in [Sessions -> 0..Many]
  /\ waited \in [Sessions -> 0..ArmTime]

(* "First hit in this window (or a key with no TTL): (re)arm the window":  *)
(* whoever is answered 429 is so by a counter that will expire, although   *)
(* the process that made the counter may have ended before it set the time *)
(* to live.  (That later hits "never extend the TTL" is true but for       *)
(* requests that overlap: each of them that saw no TTL arms it anew.)      *)
RefusalsEnd ==
  [][\A s \in Sessions :
       pc[s] # "refused" /\ pc'[s] = "refused" => ttl' # Endless]_vars

(* What passed within the last Window, one by one. *)
Passes == {x \in Ages \X (1..Many) : x[2] <= recent[x[1]]}
=============================================================================
