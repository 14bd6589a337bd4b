--------------------------- MODULE RoleDefinitions ---------------------------
(***************************************************************************)
(* Roles and the permissions they carry: custom roles created, patched and *)
(* deleted by requests (services/platform_roles.py and workspace_roles.py, *)
(* the same code for the two scopes), system roles rewired from the        *)
(* catalogue by boots and by `python -m rbac`, which takes no lock         *)
(* (rbac/reconcile.py; an onboarding rewires those of its own new tenant). *)
(*                                                                         *)
(* Each is one READ COMMITTED transaction that replaces the rows of        *)
(* role_permissions by a DELETE and an INSERT.  The DELETE meets the rows  *)
(* committed when it began, the INSERT the primary key and the foreign key *)
(* to the role; a row another transaction is writing makes them wait.      *)
(***************************************************************************)

CONSTANTS
  Actors,        \* users who hold roles.manage
  Perms,         \* permission keys of the scope, none deprecated
  Custom,        \* ids of custom roles, used once
  System,        \* system roles
  KeyOf,         \* the key each custom role asks for
  Held,          \* what each actor holds, here and at every check
  Catalogue,     \* SYSTEM_ROLE_PERMISSIONS
  NamesPatches,  \* whether patches of permissions also set a name or description
  Sessions,      \* concurrent transactions
  NoRole, NoPerm

Roles == Custom \cup System
NoKeys == {NoPerm}   \* None: a patch that leaves the permissions alone

ASSUME DefinitionsAssumption ==
  /\ Custom \cap System = {} /\ NoRole \notin Roles
  /\ Held \in [Actors -> SUBSET Perms] /\ Catalogue \in [System -> SUBSET Perms]
  /\ NamesPatches \subseteq BOOLEAN /\ NoPerm \notin Perms

VARIABLES
  roles,   \* committed rows of roles
  perms,   \* committed rows of role_permissions, by role
  last,    \* history: the keys of the last definition of each role
  pc, req, \* per transaction: next statement; its role and keys
  seen,    \* rows its DELETE met when it began, and are there still
  del, ins,\* rows it deleted and inserted, uncommitted
  lock     \* its lock on the row of the role

tables == <<roles, perms, last>>
vars == <<tables, pc, req, seen, del, ins, lock>>

NoReq == [role |-> NoRole, keys |-> {}]
Role(s) == req[s].role
Keys(s) == req[s].keys
Rivals(s) == {t \in Sessions \ {s} : Role(t) = Role(s)}

----------------------------------------------------------------------------
(* Transactions *)

Begin(s, step, r, K) ==
  /\ pc[s] = "idle"
  /\ pc' = [pc EXCEPT ![s] = step]
  /\ req' = [req EXCEPT ![s] = [role |-> r, keys |-> K]]
  /\ UNCHANGED <<tables, seen, del, ins, lock>>

Goto(s, step) == pc' = [pc EXCEPT ![s] = step] /\ UNCHANGED <<tables, req>>

(* A transaction ends; rows it took away are gone for the others. *)
End(s, gone) ==
  /\ pc' = [pc EXCEPT ![s] = "idle"]
  /\ req' = [req EXCEPT ![s] = NoReq]
  /\ seen' = [t \in Sessions |->
       IF t = s THEN {} ELSE IF t \in Rivals(s) THEN seen[t] \ gone ELSE seen[t]]
  /\ del' = [del EXCEPT ![s] = {}]
  /\ ins' = [ins EXCEPT ![s] = {}]
  /\ lock' = [lock EXCEPT ![s] = "none"]

(* An error, a deadlock's victim, a timeout, or the end of the process. *)
Abort(s) == End(s, {}) /\ UNCHANGED tables
CutShort(s) == pc[s] # "idle" /\ Abort(s)

Written(s) == IF Keys(s) = NoKeys THEN last[Role(s)] ELSE Keys(s)
Commit(s) ==
  /\ perms' = [perms EXCEPT ![Role(s)] = (@ \ del[s]) \cup ins[s]]
  /\ last' = [last EXCEPT ![Role(s)] = Written(s)]
  /\ UNCHANGED roles
  /\ End(s, del[s])

(* create_*_role: the checks, then a row nobody sees before the commit. *)
HoldsAll(a, K) == K \subseteq Held[a]
MayWrite(K) == \E a \in Actors : HoldsAll(a, K)
KeyTaken(r) == \E q \in roles \cap Custom : KeyOf[q] = KeyOf[r]

BeginCreate(s) ==
  \E r \in Custom, K \in SUBSET Perms :
    /\ last[r] = NoKeys /\ \A t \in Sessions : Role(t) # r
    /\ MayWrite(K) /\ ~KeyTaken(r)
    /\ Begin(s, "create", r, K)

Create(s) ==
  /\ pc[s] = "create"
  /\ \/ KeyTaken(Role(s)) /\ Abort(s)
     \/ /\ ~KeyTaken(Role(s))
        /\ roles' = roles \cup {Role(s)}
        /\ perms' = [perms EXCEPT ![Role(s)] = Keys(s)]
        /\ last' = [last EXCEPT ![Role(s)] = Written(s)]
        /\ End(s, {})

(* update_*_role and delete_*_role: a custom role only. *)
MayChange_Any(r) == r \in roles
MayChange(r) == r \in roles \ System

BeginUpdate(s) ==
  \E r \in Roles :
    /\ MayChange(r)
    /\ \/ Begin(s, "rename", r, NoKeys)
       \/ \E K \in SUBSET Perms, named \in NamesPatches :
            /\ MayWrite(K)
            /\ Begin(s, IF named THEN "rename" ELSE "clear", r, K)

BeginDelete(s) == \E r \in Roles : MayChange(r) /\ Begin(s, "drop", r, NoKeys)

(* wire_workspace_role_perms, _sync_role_perms: a boot, `python -m rbac`.  *)
BeginWire(s) == \E r \in System : Begin(s, "clear", r, Catalogue[r])

----------------------------------------------------------------------------
(* Statements *)

(* UPDATE roles: no row to update is no error. *)
RowFree_NoLock(s) == TRUE
RowFree(s) == \A t \in Rivals(s) : lock[t] \notin {"update", "delete"}

AfterRename_Always(s) == "clear"
AfterRename(s) == IF Keys(s) = NoKeys THEN "load" ELSE "clear"

Rename(s) ==
  /\ pc[s] = "rename" /\ RowFree(s)
  /\ lock' = [lock EXCEPT ![s] = IF Role(s) \in roles THEN "update" ELSE "none"]
  /\ Goto(s, AfterRename(s))
  /\ UNCHANGED <<seen, del, ins>>

(* DELETE FROM role_permissions: the snapshot, then the locks of its rows. *)
Clear(s) ==
  /\ pc[s] = "clear"
  /\ seen' = [seen EXCEPT ![s] = perms[Role(s)]]
  /\ Goto(s, "remove")
  /\ UNCHANGED <<del, ins, lock>>

Remove(s) ==
  /\ pc[s] = "remove"
  /\ \A t \in Rivals(s) : del[t] \cap seen[s] = {}
  /\ del' = [del EXCEPT ![s] = seen[s]]
  /\ seen' = [seen EXCEPT ![s] = {}]
  /\ Goto(s, "insert")
  /\ UNCHANGED <<ins, lock>>

(* INSERT INTO role_permissions: a wire skips the rows that are there.     *)
InsertFree(s) ==
  \A t \in Rivals(s) :
    /\ (del[t] \cup ins[t]) \cap Keys(s) = {}
    /\ Keys(s) # {} => lock[t] # "delete"
There(s) == Keys(s) \cap (perms[Role(s)] \ del[s])
Refused(s) == There(s) # {} \/ (Keys(s) # {} /\ Role(s) \notin roles)
Inserts(s, K) ==
  /\ ins' = [ins EXCEPT ![s] = K]
  /\ lock' = [lock EXCEPT ![s] = IF K # {} /\ @ = "none" THEN "share" ELSE @]
  /\ Goto(s, "load")
  /\ UNCHANGED <<seen, del>>

Insert(s) ==
  /\ pc[s] = "insert" /\ InsertFree(s)
  /\ \/ Role(s) \in System /\ Inserts(s, Keys(s) \ There(s))
     \/ Role(s) \in Custom /\ Refused(s) /\ Abort(s)
     \/ Role(s) \in Custom /\ ~Refused(s) /\ Inserts(s, Keys(s))

(* The role read back for the answer, which must be there; the commit. *)
Exists(s) == Role(s) \in roles
Load(s) ==
  /\ pc[s] = "load"
  /\ IF Exists(s) THEN Commit(s) ELSE Abort(s)

(* DELETE FROM roles: the row, then the permissions it cascades to. *)
Drop(s) ==
  /\ pc[s] = "drop"
  /\ \A t \in Rivals(s) : lock[t] = "none"
  /\ IF Exists(s)
     THEN /\ lock' = [lock EXCEPT ![s] = "delete"]
          /\ Goto(s, "cascade") /\ UNCHANGED <<seen, del, ins>>
     ELSE Abort(s)

Cascade(s) ==
  /\ pc[s] = "cascade"
  /\ \A t \in Rivals(s) : del[t] = {}
  /\ roles' = roles \ {Role(s)}
  /\ perms' = [perms EXCEPT ![Role(s)] = {}]
  /\ UNCHANGED last
  /\ End(s, perms[Role(s)])

Init ==
  /\ roles = System
  /\ perms = [r \in Roles |-> IF r \in System THEN Catalogue[r] ELSE {}]
  /\ last = [r \in Roles |-> IF r \in System THEN Catalogue[r] ELSE NoKeys]
  /\ pc = [s \in Sessions |-> "idle"]
  /\ req = [s \in Sessions |-> NoReq]
  /\ seen = [s \in Sessions |-> {}]
  /\ del = [s \in Sessions |-> {}] /\ ins = [s \in Sessions |-> {}]
  /\ lock = [s \in Sessions |-> "none"]

Next == \E s \in Sessions :
  \/ BeginCreate(s) \/ BeginUpdate(s) \/ BeginDelete(s) \/ BeginWire(s)
  \/ Create(s) \/ Rename(s) \/ Clear(s) \/ Remove(s) \/ Insert(s) \/ Load(s)
  \/ Drop(s) \/ Cascade(s) \/ CutShort(s)

Spec == Init /\ [][Next]_vars

----------------------------------------------------------------------------
(* Properties *)

TypeOK ==
  /\ roles \subseteq Roles
  /\ perms \in [Roles -> SUBSET Perms]
  /\ last \in [Roles -> (SUBSET Perms) \cup {NoKeys}]
  /\ pc \in [Sessions -> {"idle", "create", "rename", "clear", "remove", "insert", "load",
                          "drop", "cascade"}]
  /\ req \in [Sessions -> [role : Roles \cup {NoRole}, keys : (SUBSET Perms) \cup {NoKeys}]]
  /\ seen \in [Sessions -> SUBSET Perms]
  /\ del \in [Sessions -> SUBSET Perms] /\ ins \in [Sessions -> SUBSET Perms]
  /\ lock \in [Sessions -> {"none", "share", "update", "delete"}]

(* A patch that also renames, as the web client's always do, locks the row *)
(* of the role first, which orders it with the others: a custom role       *)
(* carries exactly the keys of the last definition that committed.         *)
OneWritersSet == \A r \in roles \cap Custom : perms[r] = last[r]

(* reconcile_rbac: "no reader ever observes an empty permission set for a  *)
(* system role"; however rewirings and requests overlap, the set that      *)
(* is committed is the catalogue's, and no request changes it.             *)
SystemRolesExact == System \subseteq roles /\ \A r \in System : perms[r] = Catalogue[r]
=============================================================================
