-------------------------- MODULE WorkspaceGrants --------------------------
(***************************************************************************)
(* The role grants and the memberships of one workspace, and the           *)
(* transactions that change them at the same time.  Every service function *)
(* pins each statement to one workspace id, so one workspace is enough.    *)
(*                                                                         *)
(* A session is one request (or one booting process) and its database      *)
(* transaction at READ COMMITTED: each statement reads what is committed   *)
(* when it runs, and waits for rows that another transaction has inserted, *)
(* locked or deleted and not yet committed.  The steps of a session are    *)
(* the statements of the service function it runs.                         *)
(***************************************************************************)
EXTENDS Naturals, FiniteSets

CONSTANTS
  Users,      \* auth.users ids
  Founder,    \* tenants.created_by: the owner since onboarding
  CoOwners,   \* members who have been granted the owner role since
  Sessions,   \* concurrent database transactions
  Ids,        \* tells a grant from an earlier grant of the same role to the same user
  FirstId,    \* the id of the first owner grants
  Roles,      \* the workspace's roles, system and custom
  EnumRoles,  \* the system roles, one per tenant_role enum value
  OwnerRole,  \* the role with key 'owner'
  RolePerms,  \* role_permissions
  ScanOrder,  \* the order in which every DELETE meets the rows of one user
  UserOrder,  \* the order in which the boot's INSERT meets the memberships
  Manage,     \* the permission workspace.members.manage
  NoRole,     \* member[u] when u has no tenant_memberships row
  Deletable,  \* users whose auth account may be deleted
  Targets,    \* bound: the users requests are about
  Ops         \* bound: the operations the sessions run

AllOps == {"grant", "revoke", "remove", "accept", "boot"}

ASSUME RoleAssumption ==
  /\ OwnerRole \in EnumRoles /\ EnumRoles \subseteq Roles /\ NoRole \notin Roles
  /\ Founder \in Users /\ Deletable \subseteq Users \ {Founder}
  /\ CoOwners \subseteq Users \ {Founder}
  /\ Ops \subseteq AllOps /\ Targets \subseteq Users
  /\ Ids \subseteq Nat /\ FirstId \in Ids

(* Tables are finite and no two rows are in one place. *)
ASSUME OrderAssumption ==
  /\ IsFiniteSet(Roles) /\ IsFiniteSet(Users)
  /\ ScanOrder \in [Roles -> Nat] /\ UserOrder \in [Users -> Nat]
  /\ \A x, y \in Roles : ScanOrder[x] = ScanOrder[y] => x = y
  /\ \A x, y \in Users : UserOrder[x] = UserOrder[y] => x = y

VARIABLES
  member,     \* committed tenant_memberships: the enum role of each user
  grants,     \* committed user_roles
  gone,       \* users deleted from auth.users
  lostOwner,  \* history: some deleted user held an owner grant
  pc,         \* the next statement of each session
  req,        \* the request each session serves
  want,       \* (user, role) pairs its INSERT has still to place
  todo,       \* rows its DELETE has still to visit
  cur,        \* the row it has locked and whose trigger runs next
  ins,        \* rows it inserted and has not committed
  del         \* rows it deleted and has not committed

db == <<member, grants, gone, lostOwner>>
vars == <<member, grants, gone, lostOwner, pc, req, want, todo, cur, ins, del>>

Row == [id: Ids, user: Users, role: Roles]
Pair == [user: Users, role: Roles]
NoReq == [op |-> "none"]
Request ==
  {NoReq}
    \cup [op: {"grant"}, actor: Users, target: Users, role: Roles]
    \cup [op: {"revoke"}, actor: Users, row: Row]
    \cup [op: {"remove"}, actor: Users, target: Users]
    \cup [op: {"accept"}, target: Users, role: EnumRoles]
    \cup [op: {"boot"}, wires: BOOLEAN]
Steps == {"idle", "wipe", "wire", "member", "perms", "gate", "floor", "check", "place", "fetch",
          "fk", "preselect", "join", "delete", "rows", "trigger", "leave", "leaving", "commit"}

----------------------------------------------------------------------------
(* What a statement sees and what it waits for *)

PermsOf(u) == UNION {RolePerms[g.role] : g \in {h \in grants : h.user = u}}
HasPerm(u, p) == p \in PermsOf(u)
OwnerRows == {g \in grants : g.role = OwnerRole}
IsOwner(u) == \E g \in OwnerRows : g.user = u

SameKey(r, k) == r.user = k.user /\ r.role = k.role

(* The row a DELETE comes to next, and the pair an INSERT comes to next.   *)
NextRow_TwoPlans(s) == {r \in todo[s] : \A q \in todo[s] :
  IF req[s].actor = Founder THEN ScanOrder[r.role] <= ScanOrder[q.role]
                            ELSE ScanOrder[r.role] >= ScanOrder[q.role]}
NextRow(s) == {r \in todo[s] : \A q \in todo[s] : ScanOrder[r.role] <= ScanOrder[q.role]}
NextPair(s) == {k \in want[s] : \A j \in want[s] : UserOrder[k.user] <= UserOrder[j.user]}

(* Rows of user_roles a session holds a tuple lock on. *)
Locked(s) == del[s] \cup cur[s]
Others(s) == Sessions \ {s}

(* The unique index: t is adding or removing the key k. *)
KeyTaken_NoIndex(t, k) == FALSE
KeyTaken(t, k) == \E r \in ins[t] \cup del[t] : SameKey(r, k)

(* A boot that has deleted the permissions of the system roles, and one    *)
(* that has inserted them again.                                           *)
Boots(t) == req[t].op = "boot" /\ req[t].wires
Rewiring(t) == Boots(t) /\ pc[t] \in {"wire", "place", "fk", "commit"}
Rewired(t) == Boots(t) /\ pc[t] \in {"place", "fk", "commit"}

(* FOR UPDATE on the owner role row, taken by the floor trigger; and        *)
(* FOR KEY SHARE on it, taken by the foreign keys of an inserted owner row  *)
(* and of the permissions a boot gives the owner role again.               *)
HoldsRoleLock(t) == \E r \in del[t] : r.role = OwnerRole
InsertsOwner(t) == \E r \in ins[t] : r.role = OwnerRole
HoldsKeyShare(t) == Rewired(t) \/ (pc[t] \in {"join", "commit"} /\ InsertsOwner(t))
RoleLocked_Never(t) == FALSE
RoleLocked(t) == HoldsRoleLock(t) \/ HoldsKeyShare(t)

(* tenant_memberships rows being inserted and deleted. *)
Joining(t) == req[t].op = "accept" /\ pc[t] = "commit"
Leaving(t) == pc[t] = "leaving"

(* The DELETE has come to an owner row, and its trigger to the role row.   *)
AtFloor(s) == pc[s] = "trigger" /\ \E r \in cur[s] : r.role = OwnerRole

(* The next statement of s runs when t has ended.                          *)
WaitsFor(s, t) ==
  \/ pc[s] = "wipe" /\ Rewiring(t)
  \/ pc[s] = "wire" /\ HoldsRoleLock(t)
  \/ pc[s] = "place" /\ \E k \in NextPair(s) : KeyTaken(t, k)
  \/ pc[s] = "fk" /\ InsertsOwner(s) /\ ~HoldsKeyShare(s) /\ HoldsRoleLock(t)
  \/ pc[s] = "join" /\ (Joining(t) \/ Leaving(t)) /\ req[t].target = req[s].target
  \/ pc[s] = "rows" /\ NextRow(s) \cap Locked(t) # {}
  \/ AtFloor(s) /\ RoleLocked(t)
  \/ pc[s] = "leave" /\ Leaving(t) /\ req[t].target = req[s].target
Free(s) == \A t \in Others(s) : ~WaitsFor(s, t)

(* Row ids are never used twice: an insert takes the least id under which   *)
(* no table and no session knows the row.                                  *)
RowsKnown == grants
  \cup UNION {ins[s] \cup del[s] \cup cur[s] \cup todo[s] : s \in Sessions}
  \cup {req[s].row : s \in {t \in Sessions : req[t].op = "revoke"}}
NewRow(i, k) == [id |-> i, user |-> k.user, role |-> k.role]

----------------------------------------------------------------------------
(* The end of a transaction *)

Finish_KeepsDeletes(s) ==
  /\ pc' = [pc EXCEPT ![s] = "idle"]
  /\ req' = [req EXCEPT ![s] = NoReq]
  /\ want' = [want EXCEPT ![s] = {}]
  /\ todo' = [todo EXCEPT ![s] = {}]
  /\ cur' = [cur EXCEPT ![s] = {}]
  /\ ins' = [ins EXCEPT ![s] = {}]
  /\ UNCHANGED del

Finish(s) ==
  /\ pc' = [pc EXCEPT ![s] = "idle"]
  /\ req' = [req EXCEPT ![s] = NoReq]
  /\ want' = [want EXCEPT ![s] = {}]
  /\ todo' = [todo EXCEPT ![s] = {}]
  /\ cur' = [cur EXCEPT ![s] = {}]
  /\ ins' = [ins EXCEPT ![s] = {}]
  /\ del' = [del EXCEPT ![s] = {}]

(* Every error path, and a crash at any statement, rolls back. *)
Rollback(s) == Finish(s) /\ UNCHANGED db

Goto(s, l) == pc' = [pc EXCEPT ![s] = l]

(* A statement that only reads: go on to l if ok, else raise. *)
Check(s, ok, l) ==
  IF ok THEN Goto(s, l) /\ UNCHANGED <<db, req, want, todo, cur, ins, del>> ELSE Rollback(s)

MembersAfter(s) ==
  IF Joining(s) THEN [member EXCEPT ![req[s].target] = req[s].role]
  ELSE IF Leaving(s) THEN [member EXCEPT ![req[s].target] = NoRole]
  ELSE member

Commit(s) ==
  /\ pc[s] \in {"commit", "leaving"}
  /\ grants' = (grants \ del[s]) \cup ins[s]
  /\ member' = MembersAfter(s)
  /\ Finish(s)
  /\ UNCHANGED <<gone, lostOwner>>

Crash(s) == pc[s] # "idle" /\ Rollback(s)

----------------------------------------------------------------------------
(* Requests.  The route's require_permission is the first statement.       *)

Start(s, r, l, w) ==
  /\ pc[s] = "idle"
  /\ r.op \in Ops
  /\ req' = [req EXCEPT ![s] = r]
  /\ want' = [want EXCEPT ![s] = w]
  /\ Goto(s, l)
  /\ UNCHANGED <<db, todo, cur, ins, del>>

BeginGrant(s) == \E a \in Users, u \in Targets, x \in Roles :
  /\ HasPerm(a, Manage)
  /\ Start(s, [op |-> "grant", actor |-> a, target |-> u, role |-> x], "member",
           {[user |-> u, role |-> x]})

BeginRevoke(s) == \E a \in Users, g \in grants :
  /\ HasPerm(a, Manage) /\ g.user \in Targets
  /\ Start(s, [op |-> "revoke", actor |-> a, row |-> g], "perms", {})

BeginRemove(s) == \E a \in Users, u \in Targets :
  /\ HasPerm(a, Manage)
  /\ Start(s, [op |-> "remove", actor |-> a, target |-> u], "member", {})

(* The invitee's own request; an invite never carries the owner role. *)
BeginAccept(s) == \E u \in Targets \ gone, x \in EnumRoles \ {OwnerRole} :
  Start(s, [op |-> "accept", target |-> u, role |-> x], "preselect",
        {[user |-> u, role |-> x]})

(* The boot reconciler.  Two may overlap: with the pooler's NullPool the    *)
(* commit that follows pg_try_advisory_lock closes the connection that     *)
(* holds it, and `python -m rbac` takes none.  One whose DELETE had to     *)
(* wait for another's finds the new permissions there already, inserts     *)
(* none and locks no role: it wires nothing.                               *)
BeginBoot(s) == \E w \in BOOLEAN : Start(s, [op |-> "boot", wires |-> w], "wipe", {})

----------------------------------------------------------------------------
(* The boot reconciler, before it inserts grants *)

(* The projection's SELECT: every membership there is when it runs. *)
Memberships == {[user |-> u, role |-> member[u]] : u \in {v \in Users : member[v] # NoRole}}
Project(s) ==
  /\ want' = [want EXCEPT ![s] = Memberships]
  /\ Goto(s, "place")
  /\ UNCHANGED <<db, req, todo, cur, ins, del>>

(* wire_workspace_role_perms: DELETE the system roles' permissions, once   *)
(* no other boot is replacing them; then INSERT them, each with FOR KEY    *)
(* SHARE on its role row until the transaction ends.  The permissions      *)
(* themselves are those of before (RoleDefinitions).  reconcile_rbac, a    *)
(* transaction of its own, locks as a boot that ends before it projects.   *)
Wipe(s) ==
  /\ pc[s] = "wipe" /\ Free(s)
  /\ IF req[s].wires THEN Check(s, TRUE, "wire") ELSE Project(s)

Wire(s) == pc[s] = "wire" /\ Free(s) /\ Project(s)

----------------------------------------------------------------------------
(* The pre-checks of grant, revoke and remove, one statement each *)

TargetRole(s) == IF req[s].op = "revoke" THEN req[s].row.role ELSE req[s].role

(* _require_workspace_membership, and the lookup in remove_workspace_member *)
IsMember(u) == member[u] # NoRole
CheckMember(s) ==
  /\ pc[s] = "member"
  /\ Check(s, IsMember(req[s].target),
           IF req[s].op = "remove" THEN "gate" ELSE "perms")

(* The grant lookup of a revoke, then _find_missing_workspace_perm.        *)
CheckPerms(s) ==
  /\ pc[s] = "perms"
  /\ Check(s, /\ req[s].op = "revoke" => req[s].row \in grants
              /\ RolePerms[TargetRole(s)] \subseteq PermsOf(req[s].actor),
           IF TargetRole(s) = OwnerRole THEN "gate"
           ELSE IF req[s].op = "revoke" THEN "delete" ELSE "check")

(* _actor_is_owner for grant and revoke; for remove, that the target is no owner. *)
CheckGate(s) ==
  /\ pc[s] = "gate"
  /\ \/ req[s].op = "grant"  /\ Check(s, IsOwner(req[s].actor), "check")
     \/ req[s].op = "revoke" /\ Check(s, IsOwner(req[s].actor), "floor")
     \/ req[s].op = "remove" /\ Check(s, ~IsOwner(req[s].target), "delete")

(* _count_owner_grants: the friendly half of the owner floor. *)
CheckFloor(s) ==
  /\ pc[s] = "floor"
  /\ Check(s, Cardinality(OwnerRows) > 1, "delete")

----------------------------------------------------------------------------
(* Inserting grants *)

(* The BEFORE INSERT trigger repeats the permission check. *)
InsertTrigger(s) ==
  /\ pc[s] = "check"
  /\ Check(s, RolePerms[req[s].role] \subseteq PermsOf(req[s].actor), "place")

(* One row of the INSERT meets the unique index, after any transaction     *)
(* that is adding or removing the same key has ended.  On a conflict the   *)
(* grant API falls back to a SELECT, the reconciler skips the row and      *)
(* grant_role, which has no ON CONFLICT, raises.                           *)
PlaceRow(s, k) ==
  /\ ~ \E g \in grants : SameKey(g, k)
  /\ \E i \in Ids :
       /\ NewRow(i, k) \notin RowsKnown
       /\ \A j \in Ids : j < i => NewRow(j, k) \in RowsKnown
       /\ ins' = [ins EXCEPT ![s] = @ \cup {NewRow(i, k)}]
  /\ want' = [want EXCEPT ![s] = @ \ {k}]
  /\ UNCHANGED <<db, pc, req, todo, cur, del>>

SkipKey(s, k) ==
  /\ want' = [want EXCEPT ![s] = @ \ {k}]
  /\ UNCHANGED <<db, pc, req, todo, cur, ins, del>>

Conflict(s, k) ==
  /\ \E g \in grants : SameKey(g, k)
  /\ \/ req[s].op = "grant"  /\ Check(s, TRUE, "fetch")
     \/ req[s].op = "accept" /\ Rollback(s)
     \/ req[s].op = "boot"   /\ SkipKey(s, k)

Place(s) ==
  /\ pc[s] = "place" /\ Free(s)
  /\ \E k \in NextPair(s) : PlaceRow(s, k) \/ Conflict(s, k)

(* The INSERT is done: on to its foreign keys. *)
PlaceDone(s) == pc[s] = "place" /\ want[s] = {} /\ Check(s, TRUE, "fk")

(* The row the conflict reported may have been deleted since: .one() raises. *)
Fetch(s) ==
  /\ pc[s] = "fetch"
  /\ Check(s, \E g \in grants, k \in want[s] : SameKey(g, k), "commit")

(* End of the INSERT: the foreign keys take FOR KEY SHARE on the role and  *)
(* on the auth user, who must still exist.                                 *)
ForeignKeys(s) ==
  /\ pc[s] = "fk" /\ Free(s)
  /\ Check(s, \A r \in ins[s] : r.user \notin gone,
           IF req[s].op = "accept" THEN "join" ELSE "commit")

(* grant_role: nothing to insert if the row is already there. *)
PreSelect(s) ==
  /\ pc[s] = "preselect"
  /\ Check(s, TRUE, IF \E g \in grants, k \in want[s] : SameKey(g, k)
                    THEN "join" ELSE "place")

(* _accept_tenant: the membership it added to the session is inserted by   *)
(* the flush that comes after grant_role.                                  *)
Join(s) ==
  /\ pc[s] = "join" /\ Free(s)
  /\ Check(s, member[req[s].target] = NoRole /\ req[s].target \notin gone, "commit")

----------------------------------------------------------------------------
(* Deleting grants *)

(* The snapshot of the DELETE: by id for a revoke, by user for a removal. *)
DeleteStatement(s) ==
  /\ pc[s] = "delete"
  /\ todo' = [todo EXCEPT ![s] =
       IF req[s].op = "revoke" THEN grants \cap {req[s].row}
       ELSE {g \in grants : g.user = req[s].target}]
  /\ Goto(s, "rows")
  /\ UNCHANGED <<db, req, want, cur, ins, del>>

(* Lock the next row once nobody else holds it; a row deleted meanwhile is skipped. *)
LockRow(s) ==
  /\ pc[s] = "rows" /\ Free(s)
  /\ \E r \in NextRow(s) :
       /\ todo' = [todo EXCEPT ![s] = @ \ {r}]
       /\ IF r \in grants
          THEN Goto(s, "trigger") /\ cur' = [cur EXCEPT ![s] = {r}]
          ELSE UNCHANGED <<pc, cur>>
  /\ UNCHANGED <<db, req, want, ins, del>>

(* enforce_workspace_owner_floor, with the lock on the owner role row held *)
(* until the transaction ends.                                             *)
OtherOwnerLeft(s, r) == OwnerRows \ (del[s] \cup {r}) # {}

DeleteRow(s, r) ==
  /\ del' = [del EXCEPT ![s] = @ \cup {r}]
  /\ cur' = [cur EXCEPT ![s] = {}]
  /\ Goto(s, "rows")
  /\ UNCHANGED <<db, req, want, todo, ins>>

DeleteTrigger(s) ==
  /\ pc[s] = "trigger" /\ Free(s)
  /\ \E r \in cur[s] :
       IF r.role = OwnerRole /\ ~OtherOwnerLeft(s, r) THEN Rollback(s) ELSE DeleteRow(s, r)

DeleteDone(s) ==
  /\ pc[s] = "rows" /\ todo[s] = {}
  /\ Check(s, TRUE, IF req[s].op = "remove" THEN "leave" ELSE "commit")

(* remove_workspace_member: the membership row goes last, if it is still there. *)
Leave(s) ==
  /\ pc[s] = "leave" /\ Free(s)
  /\ Check(s, TRUE, IF member[req[s].target] = NoRole THEN "commit" ELSE "leaving")

----------------------------------------------------------------------------
(* Deleting an auth user cascades to memberships and grants; the floor     *)
(* trigger lets a cascade through.  It waits for locks on the user's rows. *)
DeleteUser(u) ==
  /\ u \in Deletable \ gone
  /\ \A t \in Sessions :
       /\ \A r \in Locked(t) : r.user # u
       /\ pc[t] \in {"join", "commit"} => \A r \in ins[t] : r.user # u
       /\ Joining(t) \/ Leaving(t) => req[t].target # u
  /\ gone' = gone \cup {u}
  /\ lostOwner' = (lostOwner \/ IsOwner(u))
  /\ member' = [member EXCEPT ![u] = NoRole]
  /\ grants' = {g \in grants : g.user # u}
  /\ UNCHANGED <<pc, req, want, todo, cur, ins, del>>

----------------------------------------------------------------------------
(* A workspace as create_tenant_with_owner leaves it, or later, when its    *)
(* owner has made some invited members owners too.                         *)
Init ==
  /\ member \in [Users -> EnumRoles \cup {NoRole}]
  /\ member[Founder] = OwnerRole
  /\ \A u \in Users \ {Founder} :
       IF u \in CoOwners THEN member[u] \in EnumRoles \ {OwnerRole} ELSE member[u] = NoRole
  /\ grants = {NewRow(FirstId, [user |-> u, role |-> OwnerRole]) : u \in {Founder} \cup CoOwners}
  /\ gone = {}
  /\ lostOwner = FALSE
  /\ pc = [s \in Sessions |-> "idle"]
  /\ req = [s \in Sessions |-> NoReq]
  /\ want = [s \in Sessions |-> {}]
  /\ todo = [s \in Sessions |-> {}]
  /\ cur = [s \in Sessions |-> {}]
  /\ ins = [s \in Sessions |-> {}]
  /\ del = [s \in Sessions |-> {}]

Begin(s) ==
  BeginGrant(s) \/ BeginRevoke(s) \/ BeginRemove(s) \/ BeginAccept(s) \/ BeginBoot(s)

(* The next statement of a transaction that has begun. *)
Step(s) ==
  \/ Wipe(s) \/ Wire(s)
  \/ CheckMember(s) \/ CheckPerms(s) \/ CheckGate(s) \/ CheckFloor(s)
  \/ InsertTrigger(s) \/ Place(s) \/ PlaceDone(s) \/ Fetch(s) \/ ForeignKeys(s)
  \/ PreSelect(s) \/ Join(s)
  \/ DeleteStatement(s) \/ LockRow(s) \/ DeleteTrigger(s) \/ DeleteDone(s) \/ Leave(s)
  \/ Commit(s)

Next ==
  \/ \E s \in Sessions : Begin(s) \/ Step(s) \/ Crash(s)
  \/ \E u \in Users : DeleteUser(u)

Spec == Init /\ [][Next]_vars

(* Sessions each of which waits for another of them. *)
Stuck(C) == C # {} /\ \A s \in C : \E t \in C \ {s} : WaitsFor(s, t)

(* Postgres's deadlock detector: a session that has stood in a circle of   *)
(* waits for deadlock_timeout is aborted.  Otherwise as Crash.             *)
Victim(s) ==
  /\ \E C \in SUBSET Sessions :
       s \in C /\ Stuck(C) /\ \A D \in SUBSET C : Stuck(D) => D = C
  /\ Rollback(s)

(* Postgres queues the waiters of a lock, so a statement that can run again *)
(* and again does run, and it breaks a circle that stands; nothing makes a *)
(* client start or a process crash.                                        *)
LiveSpec == Spec /\ \A s \in Sessions : SF_vars(Step(s)) /\ WF_vars(Victim(s))

----------------------------------------------------------------------------
(* Properties *)

(* Every variable has its type, and a session between requests holds no    *)
(* row, lock or pending write of an earlier one, on whatever path it ended. *)
TypeOK ==
  /\ member \in [Users -> EnumRoles \cup {NoRole}]
  /\ grants \subseteq Row
  /\ gone \subseteq Users
  /\ lostOwner \in BOOLEAN
  /\ pc \in [Sessions -> Steps]
  /\ req \in [Sessions -> Request]
  /\ want \in [Sessions -> SUBSET Pair]
  /\ todo \in [Sessions -> SUBSET Row]
  /\ cur \in [Sessions -> SUBSET Row]
  /\ ins \in [Sessions -> SUBSET Row]
  /\ del \in [Sessions -> SUBSET Row]
  /\ \A s \in Sessions : pc[s] = "idle" =>
       /\ want[s] = {} /\ todo[s] = {} /\ cur[s] = {}
       /\ ins[s] = {} /\ del[s] = {} /\ req[s] = NoReq

(* The owner floor (migration 0010): no interleaving of grants, revokes,   *)
(* removals, accepts and boots leaves the workspace without an owner grant, *)
(* unless an account that held one was deleted.                            *)
OwnerFloor == ~lostOwner => OwnerRows # {}

(* UNIQUE (auth_user_id, role_id, workspace_id): racing grants, accepts and *)
(* boots never leave two rows for one user and role, so a revoke by id     *)
(* takes the role away.                                                    *)
UniqueGrants == \A g, h \in grants : SameKey(g, h) => g = h

(* What makes the floor and the uniqueness inductive.                      *)
(* A transaction has pending deletes or pending inserts only at the        *)
(* statements that make them, never both, and deletes rows of one user;    *)
DeleteSteps == {"rows", "trigger", "leave", "leaving", "commit"}
InsertSteps == {"place", "fetch", "fk", "join", "commit"}
PendingShape == \A s \in Sessions :
  /\ pc[s] \notin DeleteSteps => del[s] \cup cur[s] \cup todo[s] = {}
  /\ pc[s] \notin InsertSteps => ins[s] = {}
  /\ ins[s] = {} \/ del[s] \cup cur[s] \cup todo[s] = {}
  /\ \A r, q \in del[s] \cup cur[s] \cup todo[s] : r.user = q.user
(* one transaction at a time has deleted an owner grant, and it spares one; *)
OneRemover == \A s, t \in Sessions : HoldsRoleLock(s) /\ HoldsRoleLock(t) => s = t
OwnerSpared == \A s \in Sessions :
  HoldsRoleLock(s) /\ ~lostOwner => OwnerRows \ del[s] # {}
(* and a pending row has a key no committed and no other pending row has.  *)
PendingKeys == \A s \in Sessions :
  /\ \A r \in ins[s], g \in grants : ~SameKey(r, g)
  /\ \A r \in ins[s], k \in want[s] : pc[s] = "place" => ~SameKey(r, k)
  /\ \A r, q \in ins[s] : SameKey(r, q) => r = q
  /\ \A t \in Others(s) : \A r \in ins[s], q \in ins[t] : ~SameKey(r, q)

FloorInv == PendingShape /\ OneRemover /\ OwnerSpared /\ OwnerFloor
KeysInv == UniqueGrants /\ PendingKeys

(* Transactions wait for each other in a circle only if one of them is a   *)
(* boot that has rewired the roles and now projects (reconcile.py:230 to   *)
(* 264), and another a DELETE at the trigger of an owner row (0010): the   *)
(* boot waits for a row the DELETE took away, the trigger for the role row *)
(* the boot holds.  Requests alone never deadlock.                         *)
NoCircularWait == \A C \in SUBSET Sessions :
  Stuck(C) => (\E s \in C : Rewired(s) /\ pc[s] = "place") /\ (\E s \in C : AtFloor(s))

(* Every transaction that begins ends: each wait of a service or a boot is *)
(* for one that ends too, or in a circle that Postgres breaks.             *)
TransactionsEnd == \A s \in Sessions : pc[s] # "idle" ~> pc[s] = "idle"

(* The transactions implement the atomic registry of owners. *)
Registry == INSTANCE OwnerRegistry
  WITH owners <- {g.user : g \in OwnerRows}, lost <- lostOwner
ImplementsRegistry == Registry!Spec
=============================================================================
