------------------------------ MODULE PermCache ------------------------------
(***************************************************************************)
(* GET /api/me (routes/me.py) and the Valkey cache it shows a user's       *)
(* permissions from (core/perm_cache.py, core/permissions.py), one entry   *)
(* per scope: the platform, or a workspace.  A grant or a revoke drops the *)
(* entry before it commits; an edit of a role drops nothing.  Every        *)
(* operation on Valkey may fail, and is then skipped.                      *)
(*                                                                         *)
(* The module follows one user.  Time is in ticks; a request takes at most *)
(* ReadTime from its lookup to its response.                               *)
(***************************************************************************)
EXTENDS Naturals

CONSTANTS
  Scopes,   \* the platform and the user's workspaces
  Perms,    \* permission keys
  Granted,  \* what the user holds in every scope at the start
  Sessions, \* requests of the user, and of those who change what the user holds
  TTL,      \* perm_cache_ttl_sec
  ReadTime, \* how long a request to /me takes, at most
  Long      \* bound: ages are told apart up to it

Horizon == TTL + 2 * ReadTime
Lists == SUBSET Perms

VARIABLES
  held,   \* per scope: what the committed grants and roles carry
  ago,    \* per scope and list: how long ago that was last what the user held
  entry,  \* per scope: the cached list
  left,   \* per scope: time until the entry expires; 0 if there is none
  pc,     \* per session: its next step
  scope,  \* the scopes it has still to read, or the one it changes
  shown,  \* the lists it has so far
  spent   \* time since its lookup

cached == <<entry, left>>
session == <<pc, scope, shown, spent>>
vars == <<held, ago, cached, session>>

Points == {"idle", "query", "store", "respond", "drop", "commit"}
Readers == {s \in Sessions : pc[s] \in {"query", "store", "respond"}}
Blank == [c \in Scopes |-> {}]

----------------------------------------------------------------------------
(* /me *)

(* get_platform, get_workspaces: hits, or none at all when Valkey fails. *)
Hits == {c \in Scopes : left[c] > 0}
Lookup(s) ==
  /\ pc[s] = "idle"
  /\ \E H \in {Hits, {}} :
       /\ pc' = [pc EXCEPT ![s] = IF H = Scopes THEN "respond" ELSE "query"]
       /\ scope' = [scope EXCEPT ![s] = Scopes \ H]
       /\ shown' = [shown EXCEPT ![s] = [c \in Scopes |-> IF c \in H THEN entry[c] ELSE {}]]
  /\ UNCHANGED <<held, ago, cached, spent>>

(* One query for all that was missed. *)
Query(s) ==
  /\ pc[s] = "query"
  /\ shown' = [shown EXCEPT ![s] = [c \in Scopes |-> IF c \in scope[s] THEN held[c] ELSE @[c]]]
  /\ pc' = [pc EXCEPT ![s] = "store"]
  /\ UNCHANGED <<held, ago, cached, scope, spent>>

(* The pipeline of SETs is no transaction: any of them may be done. *)
Lifetime_Renewed(c) == left[c] + TTL
Lifetime(c) == TTL
Store(s) ==
  /\ pc[s] = "store"
  /\ \E W \in SUBSET scope[s] :
       /\ entry' = [c \in Scopes |-> IF c \in W THEN shown[s][c] ELSE entry[c]]
       /\ left' = [c \in Scopes |-> IF c \in W THEN Lifetime(c) ELSE left[c]]
  /\ pc' = [pc EXCEPT ![s] = "respond"]
  /\ UNCHANGED <<held, ago, scope, shown, spent>>

Finish(s) ==
  /\ pc' = [pc EXCEPT ![s] = "idle"]
  /\ scope' = [scope EXCEPT ![s] = {}]
  /\ shown' = [shown EXCEPT ![s] = Blank]
  /\ spent' = [spent EXCEPT ![s] = 0]

Respond(s) == pc[s] = "respond" /\ Finish(s) /\ UNCHANGED <<held, ago, cached>>

----------------------------------------------------------------------------
(* What changes the lists *)

Becomes(c, l) ==
  /\ held' = [held EXCEPT ![c] = l]
  /\ ago' = [ago EXCEPT ![c][l] = 0]

(* Grants, revokes and removals: the statement, perm_cache.invalidate, and *)
(* the commit of the route; or an error, and a rollback.                   *)
Change(s, c) ==
  /\ pc[s] = "idle"
  /\ pc' = [pc EXCEPT ![s] = "drop"]
  /\ scope' = [scope EXCEPT ![s] = {c}]
  /\ UNCHANGED <<held, ago, cached, shown, spent>>

Invalidate(s) ==
  /\ pc[s] = "drop"
  /\ \/ /\ left' = [c \in Scopes |-> IF c \in scope[s] THEN 0 ELSE left[c]]
        /\ entry' = [c \in Scopes |-> IF c \in scope[s] THEN {} ELSE entry[c]]
     \/ UNCHANGED cached
  /\ pc' = [pc EXCEPT ![s] = "commit"]
  /\ UNCHANGED <<held, ago, scope, shown, spent>>

Commit(s) ==
  /\ pc[s] = "commit"
  /\ \E c \in scope[s], l \in Lists : Becomes(c, l)
  /\ Finish(s)
  /\ UNCHANGED cached

Rollback(s) ==
  /\ pc[s] \in {"drop", "commit"}
  /\ Finish(s)
  /\ UNCHANGED <<held, ago, cached>>

(* The permissions of a role the user has are edited. *)
EditRole(c) ==
  /\ \E l \in Lists \ {held[c]} : Becomes(c, l)
  /\ UNCHANGED <<cached, session>>

Older(n) == IF n < Long THEN n + 1 ELSE Long
Elapse ==
  /\ \A s \in Readers : spent[s] < ReadTime
  /\ spent' = [s \in Sessions |-> IF s \in Readers THEN spent[s] + 1 ELSE spent[s]]
  /\ ago' = [c \in Scopes |-> [l \in Lists |-> IF l = held[c] THEN 0 ELSE Older(ago[c][l])]]
  /\ left' = [c \in Scopes |-> IF left[c] > 0 THEN left[c] - 1 ELSE 0]
  /\ entry' = [c \in Scopes |-> IF left[c] > 1 THEN entry[c] ELSE {}]
  /\ UNCHANGED <<held, pc, scope, shown>>

Init ==
  /\ held = [c \in Scopes |-> Granted]
  /\ ago = [c \in Scopes |-> [l \in Lists |-> IF l = Granted THEN 0 ELSE Long]]
  /\ entry = Blank
  /\ left = [c \in Scopes |-> 0]
  /\ pc = [s \in Sessions |-> "idle"]
  /\ scope = [s \in Sessions |-> {}]
  /\ shown = [s \in Sessions |-> Blank]
  /\ spent = [s \in Sessions |-> 0]

Begin(s) == Lookup(s) \/ \E c \in Scopes : Change(s, c)
Step(s) ==
  Query(s) \/ Store(s) \/ Respond(s) \/ Invalidate(s) \/ Commit(s) \/ Rollback(s)
Edit == \E c \in Scopes : EditRole(c)

Next == (\E s \in Sessions : Begin(s) \/ Step(s)) \/ Edit \/ Elapse

Spec == Init /\ [][Next]_vars

----------------------------------------------------------------------------
(* Properties *)

TypeOK ==
  /\ held \in [Scopes -> Lists]
  /\ ago \in [Scopes -> [Lists -> 0..Long]]
  /\ entry \in [Scopes -> Lists]
  /\ left \in [Scopes -> 0..TTL]
  /\ pc \in [Sessions -> Points]
  /\ scope \in [Sessions -> SUBSET Scopes]
  /\ shown \in [Sessions -> [Scopes -> Lists]]
  /\ spent \in [Sessions -> 0..ReadTime]

(* "a stale entry can at most make /me display a slightly out-of-date      *)
(* permission list for up to PERM_CACHE_TTL_SEC seconds": what a response  *)
(* shows was held less than the TTL and two requests ago (the one that     *)
(* filled the entry read before it stored, past an invalidation perhaps).  *)
MeShowsRecent ==
  [][\A s \in Sessions : pc[s] = "respond" /\ pc'[s] = "idle" =>
       \A c \in Scopes : ago[c][shown[s][c]] < Horizon]_vars
=============================================================================
