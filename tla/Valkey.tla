-------------------------------- MODULE Valkey --------------------------------
(***************************************************************************)
(* What the API keeps in Valkey, side by side: the permission lists of     *)
(* /me and the counters of the signup throttle.  They share the instance,  *)
(* its clock and the processes of the API, whose requests are for one or   *)
(* for the other.                                                          *)
(***************************************************************************)
EXTENDS Integers, FiniteSets

CONSTANTS
  Sessions,
  Scopes, Perms, Granted, TTL, ReadTime, Long, \* of PermCache
  Most, Window, ArmTime, Many                  \* of Signup

ASSUME ValkeyAssumption ==
  /\ TTL \in Nat \ {0} /\ ReadTime \in Nat /\ Long \in Nat /\ TTL + 2 * ReadTime <= Long
  /\ Granted \subseteq Perms
  /\ Most \in Nat \ {0} /\ Many \in Nat /\ 2 * Most < Many
  /\ Window \in Nat /\ ArmTime \in Nat /\ ArmTime < Window

VARIABLES
  held, ago, entry, left, mePc, scope, shown, spent,              \* PermCache
  count, ttl, open, account, recent, signupPc, kind, read, waited   \* Signup

meVars == <<held, ago, entry, left, mePc, scope, shown, spent>>
signupVars == <<count, ttl, open, account, recent, signupPc, kind, read, waited>>
vars == <<meVars, signupVars>>

Me == INSTANCE PermCache WITH pc <- mePc
Up == INSTANCE Signup WITH pc <- signupPc

Init == Me!Init /\ Up!Init

Next ==
  \/ \E s \in Sessions :
       \/ signupPc[s] = "idle" /\ (Me!Begin(s) \/ Me!Step(s)) /\ UNCHANGED signupVars
       \/ mePc[s] = "idle" /\ (Up!Begin(s) \/ Up!Step(s)) /\ UNCHANGED meVars
  \/ Me!Edit /\ UNCHANGED signupVars
  \/ Up!Lands /\ UNCHANGED meVars
  \/ Me!Elapse /\ Up!Elapse

Spec == Init /\ [][Next]_vars

----------------------------------------------------------------------------
(* Properties *)

TypeOK == Me!TypeOK /\ Up!TypeOK

(* PermCache.MeShowsRecent, stale lists that core/perm_cache.py lets a     *)
(* response show, with requests for signups in between.                    *)
MeShowsRecent == Me!MeShowsRecent

(* Signup.RefusalsEnd, no 429 of core/email_throttle.py is for good, with  *)
(* requests to /me in between.                                             *)
RefusalsEnd == Up!RefusalsEnd

(* A fixed window of core/email_throttle.py, armed late or twice by        *)
(* requests that overlap, still lets no more than twice its number of      *)
(* requests pass in any time of its length, as long as Valkey answers:     *)
(* those of a window and those of the one before.                          *)
TwiceInAWindow == Cardinality(Up!Passes) <= 2 * Most
=============================================================================
