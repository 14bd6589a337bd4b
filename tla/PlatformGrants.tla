---------------------------- MODULE PlatformGrants ----------------------------
(***************************************************************************)
(* The platform's staff and their roles: platform_users carries a role as  *)
(* an enum, user_roles the grants that permissions are resolved from, and  *)
(* auth.users, at Supabase, the accounts both refer to.  Requests grant    *)
(* and revoke roles (services/platform_role_grants.py), provision staff    *)
(* (platform_user_provision.py) and accept invites to it                   *)
(* (invite_acceptance.py; the invites themselves are module Invites), the  *)
(* boot and `python -m rbac` project the enum onto the grants              *)
(* (reconcile.py), and a script replaces the super admin                   *)
(* (scripts/bootstrap.py).                                                 *)
(*                                                                         *)
(* A session is one of them and its READ COMMITTED transactions.  A grant  *)
(* of the platform has no workspace, and NULLs are distinct to the unique  *)
(* key of user_roles: only the super_admin role has an index that admits   *)
(* one row.                                                                *)
(***************************************************************************)
EXTENDS Naturals, FiniteSets

CONSTANTS
  Users,      \* people, by the id of the account they have or will have
  Root,       \* the super admin the platform starts with
  Admins,     \* staff it starts with
  Sessions,   \* concurrent requests, boots and scripts
  Ids,        \* ids of grants
  Super, Admin, \* the system roles, named as the enum
  Custom,     \* custom platform roles
  RolePerms,  \* role_permissions
  Manage,     \* the permission platform.users.manage
  Rare,       \* a permission whose loss is watched
  Nobody,     \* platform_users has no row
  FirstGrants,\* the grants it starts with
  Grantees, Offered, \* bound: whom requests grant roles to, and which
  Newcomers,  \* bound: who is provisioned, invited, or made super admin by the script
  Ops         \* bound: what the sessions do

Roles == {Super, Admin} \cup Custom
Row == [id : Ids, user : Users, role : Roles]
Pair == [user : Users, role : Roles]

ASSUME PlatformAssumption ==
  /\ Root \in Users /\ Admins \subseteq Users \ {Root}
  /\ Super # Admin /\ Nobody \notin Roles /\ {Super, Admin} \cap Custom = {}
  /\ FirstGrants \subseteq Row /\ Ids \subseteq Nat
  /\ \A g, h \in FirstGrants : g.role = Super /\ h.role = Super => g = h
  /\ \A g \in FirstGrants : g.user \in Admins \cup {Root}
  /\ Grantees \subseteq Users /\ Newcomers \subseteq Users /\ Offered \subseteq Roles

VARIABLES
  staff,    \* platform_users: the enum role of each user
  account,  \* auth.users: "none", "late" (a call may still create it), "live", "gone"
  grants,   \* committed user_roles of the platform
  pc, req,  \* per session: its next statement, and what it was asked
  want,     \* the pairs its INSERT has still to place
  ins, del  \* rows it inserted and deleted, uncommitted

tables == <<staff, account, grants>>
vars == <<tables, pc, req, want, ins, del>>

NoReq == [op |-> "none"]
Request ==
  {NoReq}
    \cup [op : {"grant"}, actor : Users, user : Users, role : Roles]
    \cup [op : {"revoke"}, actor : Users, row : Row]
    \cup [op : {"provision"}, actor : Users, user : Users, role : {Admin}]
    \cup [op : {"accept"}, user : Users, role : {Admin}]
    \cup [op : {"boot"}]
    \cup [op : {"bootstrap"}, user : Users, role : {Super}, old : SUBSET Users]
Steps == {"idle", "load", "count", "missing", "existing", "trigger", "place", "commit",
          "find", "delete", "call", "preselect", "enroll", "purge", "enlist"}

----------------------------------------------------------------------------
(* What a statement reads *)

Others(s) == Sessions \ {s}
RowsOf(k) == {g \in grants : g.user = k.user /\ g.role = k.role}
Asked(s) == [user |-> req[s].user, role |-> req[s].role]
SuperRows == {g \in grants : g.role = Super}

(* has_platform_perm, and the walk of _find_missing_perm and of the 0013 trigger. *)
PermsOf(u) == UNION {RolePerms[g.role] : g \in {h \in grants : h.user = u}}
HasPerm(u, p) == p \in PermsOf(u)
Covers_ManageOnly(u, r) == Manage \in PermsOf(u)
Covers(u, r) == RolePerms[r] \subseteq PermsOf(u)

(* The index user_roles_one_super_admin: an insert waits for whoever is    *)
(* adding or removing the row, and is refused when one is there.           *)
IndexFree(s, k) == k.role = Super => \A t \in Others(s) : \A r \in ins[t] \cup del[t] : r.role # Super
Refused_NoIndex(s, k) == FALSE
Refused(s, k) ==
  k.role = Super /\ \E r \in (grants \ del[s]) \cup ins[s] : r.role = Super

RowsKnown == grants
  \cup UNION {ins[s] \cup del[s] : s \in Sessions}
  \cup {req[s].row : s \in {t \in Sessions : req[t].op = "revoke"}}
NewRow_Enum(i, k) == [id |-> i, user |-> k.user, role |-> staff[k.user]]
NewRow(i, k) == [id |-> i, user |-> k.user, role |-> k.role]

(* Who adds a row to platform_users with the grant, and that row while it  *)
(* is not committed: its key makes another insert of it wait, its foreign  *)
(* key a deletion of the account.                                          *)
Enrolls(s) == req[s].op \in {"provision", "accept"}
Enrolling(s) == IF pc[s] = "commit" /\ Enrolls(s) THEN {req[s].user} ELSE {}

----------------------------------------------------------------------------
(* Transactions *)

Goto(s, l) == pc' = [pc EXCEPT ![s] = l]

Begin(s, r, l, w) ==
  /\ pc[s] = "idle" /\ r.op \in Ops
  /\ req' = [req EXCEPT ![s] = r]
  /\ want' = [want EXCEPT ![s] = w]
  /\ Goto(s, l)
  /\ UNCHANGED <<tables, ins, del>>

End(s) ==
  /\ pc' = [pc EXCEPT ![s] = "idle"]
  /\ req' = [req EXCEPT ![s] = NoReq]
  /\ want' = [want EXCEPT ![s] = {}]
  /\ ins' = [ins EXCEPT ![s] = {}]
  /\ del' = [del EXCEPT ![s] = {}]

(* Every typed error, 500 and cut request rolls back what is not committed. *)
Abort(s) == End(s) /\ UNCHANGED tables
CutShort(s) == pc[s] # "idle" /\ Abort(s)

(* A statement that only reads. *)
Check(s, ok, l) ==
  IF ok THEN Goto(s, l) /\ UNCHANGED <<tables, req, want, ins, del>> ELSE Abort(s)

Enrolled(s) == IF Enrolls(s) THEN [staff EXCEPT ![req[s].user] = Admin] ELSE staff

Commit(s) ==
  /\ pc[s] = "commit"
  /\ grants' = (grants \ del[s]) \cup ins[s]
  /\ staff' = Enrolled(s)
  /\ UNCHANGED account
  /\ End(s)

----------------------------------------------------------------------------
(* Requests, the boot and the scripts *)

BeginGrant(s) == \E a \in Users, u \in Grantees, r \in Offered :
  /\ HasPerm(a, Manage)
  /\ Begin(s, [op |-> "grant", actor |-> a, user |-> u, role |-> r], "load",
           {[user |-> u, role |-> r]})

BeginRevoke(s) == \E a \in Users, g \in grants :
  /\ HasPerm(a, Manage)
  /\ Begin(s, [op |-> "revoke", actor |-> a, row |-> g], "find", {})

(* require_super_admin reads the enum, not the grants. *)
BeginProvision(s) == \E a \in Users, u \in Newcomers :
  /\ staff[a] = Super
  /\ Begin(s, [op |-> "provision", actor |-> a, user |-> u, role |-> Admin], "call",
           {[user |-> u, role |-> Admin]})

(* An invite that is not revoked, accepted or expired, for the email of    *)
(* the token: nobody is asked what he holds, and no granted_by is written. *)
BeginAccept(s) == \E u \in Newcomers :
  /\ account[u] = "live"
  /\ Begin(s, [op |-> "accept", user |-> u, role |-> Admin], "preselect",
           {[user |-> u, role |-> Admin]})

(* The INSERT of the projection reads the pairs without a grant.  A boot   *)
(* skips it when another holds the advisory lock, but `python -m rbac`     *)
(* takes no lock: two projections may overlap.                             *)
Missing == {k \in Pair : staff[k.user] = k.role /\ RowsOf(k) = {}}
BeginBoot(s) == Begin(s, [op |-> "boot"], "place", Missing)

(* Without --force the script stops at an existing super admin. *)
Supers == {u \in Users : staff[u] = Super}
BeginBootstrap(s) == \E u \in Newcomers, force \in BOOLEAN :
  /\ Supers # {} => force
  /\ Begin(s, [op |-> "bootstrap", user |-> u, role |-> Super, old |-> Supers],
           IF Supers = {} THEN "call" ELSE "purge", {[user |-> u, role |-> Super]})

----------------------------------------------------------------------------
(* Grant and revoke *)

Load(s) ==
  /\ pc[s] = "load"
  /\ Check(s, staff[req[s].user] # Nobody,
           IF req[s].role = Super THEN "count" ELSE "missing")

Count(s) == pc[s] = "count" /\ Check(s, SuperRows = {}, "missing")

FindMissing(s) ==
  pc[s] = "missing" /\ Check(s, Covers(req[s].actor, req[s].role), "existing")

(* granted_by: without one the trigger lets the row pass. *)
Granter(s) == IF req[s].op \in {"grant", "provision"} THEN {req[s].actor} ELSE {}

(* .one_or_none() and .scalar_one_or_none(): two rows raise. *)
Existing_NoGrant(s) ==
  /\ pc[s] \in {"existing", "preselect"}
  /\ Check(s, TRUE, IF Enrolls(s) THEN "enroll" ELSE "commit")
Existing(s) ==
  /\ pc[s] \in {"existing", "preselect"}
  /\ Check(s, Cardinality(RowsOf(Asked(s))) <= 1,
           IF RowsOf(Asked(s)) # {}
           THEN IF Enrolls(s) THEN "enroll" ELSE "commit"
           ELSE IF Granter(s) = {} THEN "place" ELSE "trigger")

Trigger(s) ==
  pc[s] = "trigger" /\ Check(s, Covers(req[s].actor, req[s].role), "place")

(* One row of the INSERT: the index, then the foreign keys to the account  *)
(* of the user and to that of granted_by.                                  *)
AccountsLive_GranterOnly(s, k) == \A u \in Granter(s) : account[u] = "live"
AccountsLive(s, k) == \A u \in {k.user} \cup Granter(s) : account[u] = "live"
Place(s) ==
  /\ pc[s] = "place"
  /\ \E k \in want[s] :
       /\ IndexFree(s, k)
       /\ \/ (Refused(s, k) \/ ~AccountsLive(s, k)) /\ Abort(s)
          \/ /\ ~Refused(s, k) /\ AccountsLive(s, k)
             /\ \E i \in Ids :
                  /\ NewRow(i, k) \notin RowsKnown
                  /\ \A j \in Ids : j < i => NewRow(j, k) \in RowsKnown
                  /\ ins' = [ins EXCEPT ![s] = @ \cup {NewRow(i, k)}]
             /\ want' = [want EXCEPT ![s] = @ \ {k}]
             /\ UNCHANGED <<tables, pc, req, del>>

Placed(s) ==
  /\ pc[s] = "place" /\ want[s] = {}
  /\ Check(s, TRUE, IF Enrolls(s) THEN "enroll" ELSE "commit")

(* The lookup of the grant, then the walk over its role. *)
Find(s) ==
  /\ pc[s] = "find"
  /\ Check(s, req[s].row \in grants /\ Covers(req[s].actor, req[s].row.role), "delete")

(* DELETE by id: a row deleted meanwhile is no error. *)
Delete(s) ==
  /\ pc[s] = "delete"
  /\ \A t \in Others(s) : req[s].row \notin del[t]
  /\ del' = [del EXCEPT ![s] = {req[s].row} \cap grants]
  /\ Goto(s, "commit")
  /\ UNCHANGED <<tables, req, want, ins>>

----------------------------------------------------------------------------
(* Accounts *)

(* auth.admin.create_user: done, refused because the email is taken, or    *)
(* given up on, when it may still be done later.                           *)
Created(s) ==
  /\ pc[s] = "call" /\ account[req[s].user] \in {"none", "late"}
  /\ account' = [account EXCEPT ![req[s].user] = "live"]
  /\ Goto(s, IF req[s].op = "provision" THEN "preselect" ELSE "enlist")
  /\ UNCHANGED <<staff, grants, req, want, ins, del>>

Taken(s) == pc[s] = "call" /\ account[req[s].user] \in {"live", "gone"} /\ Abort(s)

GaveUp(s) ==
  /\ pc[s] = "call" /\ account[req[s].user] = "none"
  /\ account' = [account EXCEPT ![req[s].user] = "late"]
  /\ UNCHANGED <<staff, grants>>
  /\ End(s)

Lands(u) ==
  /\ account[u] = "late"
  /\ account' = [account EXCEPT ![u] = "live"]
  /\ UNCHANGED <<staff, grants, pc, req, want, ins, del>>

(* The account that comes with the email of an invite. *)
Invited(u) ==
  /\ u \in Newcomers /\ "accept" \in Ops /\ account[u] = "none"
  /\ account' = [account EXCEPT ![u] = "live"]
  /\ UNCHANGED <<staff, grants, pc, req, want, ins, del>>

(* The flush of create_platform_user and of _accept_platform: the row of   *)
(* platform_users.                                                         *)
Enroll(s) ==
  /\ pc[s] = "enroll"
  /\ \A t \in Others(s) : req[s].user \notin Enrolling(t)
  /\ Check(s, staff[req[s].user] = Nobody /\ account[req[s].user] = "live", "commit")

(* bootstrap --force, one transaction: the super admins' rows, the accounts *)
(* it read, with all that refers to them, and every super_admin grant.      *)
PurgedRows(s) == {g \in grants : g.user \in req[s].old \/ g.role = Super}
Purge(s) ==
  /\ pc[s] = "purge"
  /\ \A t \in Others(s) :
       /\ del[t] \cap PurgedRows(s) = {}
       /\ \A r \in ins[t] : ({r.user} \cup Granter(t)) \cap req[s].old = {}
       /\ Enrolling(t) \cap req[s].old = {}
  /\ staff' = [u \in Users |->
       IF staff[u] = Super \/ u \in req[s].old THEN Nobody ELSE staff[u]]
  /\ account' = [u \in Users |-> IF u \in req[s].old THEN "gone" ELSE account[u]]
  /\ grants' = grants \ PurgedRows(s)
  /\ Goto(s, "call")
  /\ UNCHANGED <<req, want, ins, del>>

(* Its platform_users row is committed before the grant. *)
Enlist(s) ==
  /\ pc[s] = "enlist"
  /\ \A t \in Others(s) : req[s].user \notin Enrolling(t)
  /\ \/ (account[req[s].user] # "live" \/ staff[req[s].user] # Nobody) /\ Abort(s)
     \/ /\ account[req[s].user] = "live" /\ staff[req[s].user] = Nobody
        /\ staff' = [staff EXCEPT ![req[s].user] = Super]
        /\ Goto(s, "preselect")
        /\ UNCHANGED <<account, grants, req, want, ins, del>>

----------------------------------------------------------------------------
Init ==
  /\ staff = [u \in Users |->
       IF u = Root THEN Super ELSE IF u \in Admins THEN Admin ELSE Nobody]
  /\ account = [u \in Users |-> IF u \in Admins \cup {Root} THEN "live" ELSE "none"]
  /\ grants = FirstGrants
  /\ pc = [s \in Sessions |-> "idle"]
  /\ req = [s \in Sessions |-> NoReq]
  /\ want = [s \in Sessions |-> {}]
  /\ ins = [s \in Sessions |-> {}]
  /\ del = [s \in Sessions |-> {}]

Next ==
  \/ \E s \in Sessions :
       \/ BeginGrant(s) \/ BeginRevoke(s) \/ BeginProvision(s) \/ BeginAccept(s)
       \/ BeginBoot(s) \/ BeginBootstrap(s)
       \/ Load(s) \/ Count(s) \/ FindMissing(s) \/ Existing(s) \/ Trigger(s)
       \/ Place(s) \/ Placed(s) \/ Find(s) \/ Delete(s) \/ Commit(s) \/ CutShort(s)
       \/ Created(s) \/ Taken(s) \/ GaveUp(s) \/ Enroll(s) \/ Purge(s) \/ Enlist(s)
  \/ \E u \in Users : Lands(u) \/ Invited(u)

Spec == Init /\ [][Next]_vars

----------------------------------------------------------------------------
(* Properties *)

TypeOK ==
  /\ staff \in [Users -> {Super, Admin, Nobody}]
  /\ account \in [Users -> {"none", "late", "live", "gone"}]
  /\ grants \subseteq Row
  /\ pc \in [Sessions -> Steps]
  /\ req \in [Sessions -> Request]
  /\ want \in [Sessions -> SUBSET Pair]
  /\ ins \in [Sessions -> SUBSET Row]
  /\ del \in [Sessions -> SUBSET Row]

(* "only one active super_admin grant may exist": however grants, boots,   *)
(* scripts and revokes overlap, the index leaves at most one row, also     *)
(* when the count each of them read was zero.                              *)
OneSuperAdmin == \A g, h \in SuperRows : g = h

(* The foreign keys against a bootstrap that deletes accounts while rows   *)
(* for them are being inserted: whoever is staff, or holds a grant, has an *)
(* account.                                                                *)
RowsHaveAccounts ==
  /\ \A u \in Users : staff[u] # Nobody => account[u] = "live"
  /\ \A g \in grants : account[g.user] = "live"

(* create_platform_user: "insert the platform_users row and grant the      *)
(* platform admin system role in the SAME transaction"; the same in        *)
(* _accept_platform: whoever becomes an admin holds the role from that     *)
(* moment, in spite of all else that runs, an accept for the very account  *)
(* being provisioned included.  Only an accept that had found a grant, and *)
(* so wrote none, may see that one revoked before it commits.              *)
ProvisionIsWhole ==
  [][\A u \in Users : staff[u] # Admin /\ staff'[u] = Admin =>
       \/ \E g \in grants' : g.user = u /\ g.role = Admin
       \/ \E s \in Sessions : req[s].op = "accept" /\ req[s].user = u
                                /\ pc[s] = "commit" /\ ins[s] = {}]_vars

(* Section 6.1, the privilege-escalation guard over many steps: once no    *)
(* grant, committed or on its way past the trigger, carries a permission,  *)
(* nobody can grant or provision it back, whatever he was once checked to  *)
(* hold.  Only a row without granted_by, which the trigger lets pass,      *)
(* brings it back: of the projection of the enum, of the script, or of an  *)
(* accepted invite, the one request that does, and only if the admin role  *)
(* carries the permission.                                                 *)
Carries(r) == Rare \in RolePerms[r.role]
OnItsWay(s) == IF Granter(s) # {} /\ pc[s] = "place" THEN want[s] \cup ins[s] ELSE ins[s]
Lost == \A r \in grants \cup UNION {OnItsWay(s) : s \in Sessions} : ~Carries(r)
NoEscalation ==
  [][Lost /\ ~Lost' => \E s \in Sessions :
       /\ req[s].op \in {"boot", "bootstrap"}
            \/ (req[s].op = "accept" /\ Rare \in RolePerms[Admin])
       /\ ins'[s] # ins[s]]_vars
=============================================================================
