----------------------- MODULE RoleDefinitions_proofs -----------------------
(***************************************************************************)
(* For every set of roles, permissions and transactions: the types of      *)
(* RoleDefinitions, that system roles carry the catalogue's permissions,   *)
(* and, when every patch also renames, that a custom role carries the keys *)
(* of its last definition.                                                 *)
(***************************************************************************)
EXTENDS RoleDefinitions, TLAPS

Strong == {"update", "delete"}
Rewrites == {"clear", "remove", "insert"}

(* What each statement leaves to the next. *)
StepsInv ==
  \A s \in Sessions :
    /\ pc[s] = "idle" <=> Role(s) = NoRole
    /\ pc[s] \in {"idle", "create"} => lock[s] = "none"
    /\ pc[s] \in Rewrites => Keys(s) \in SUBSET Perms
    /\ pc[s] = "create" => Role(s) \in Custom /\ Keys(s) \in SUBSET Perms
    /\ pc[s] \in {"rename", "drop", "cascade"} => Role(s) \in Custom
    /\ pc[s] \notin {"insert", "load"} => del[s] = {}
    /\ pc[s] # "load" => ins[s] = {}
    /\ pc[s] = "load" /\ Keys(s) = NoKeys => Role(s) \in Custom /\ del[s] = {} /\ ins[s] = {}

(* A wire replaces the catalogue's permissions by the same. *)
WireInv ==
  \A s \in Sessions : Role(s) \in System =>
    /\ Keys(s) = Catalogue[Role(s)]
    /\ pc[s] = "load" => ins[s] \cup (Keys(s) \ del[s]) = Keys(s)

SystemInv == TypeOK /\ StepsInv /\ WireInv /\ SystemRolesExact

----------------------------------------------------------------------------
LEMMA EndTypes ==
  ASSUME TypeOK, NEW s \in Sessions, NEW gone, End(s, gone),
         roles' \subseteq Roles, perms' \in [Roles -> SUBSET Perms],
         last' \in [Roles -> (SUBSET Perms) \cup {NoKeys}]
  PROVE  TypeOK'
  BY DEF TypeOK, End, NoReq

LEMMA BeginKinds ==
  ASSUME NEW s \in Sessions,
         BeginCreate(s) \/ BeginUpdate(s) \/ BeginDelete(s) \/ BeginWire(s)
  PROVE  \E step \in {"create", "rename", "clear", "drop"}, r \in Roles, K \in (SUBSET Perms) \cup {NoKeys} :
           /\ Begin(s, step, r, K)
           /\ r \in System => step = "clear" /\ K = Catalogue[r]
           /\ step \in {"create", "clear"} => K \in SUBSET Perms
           /\ step = "create" => \A t \in Sessions : Role(t) # r
           /\ step = "create" => last[r] = NoKeys
           /\ r \in Custom /\ step # "create" => r \in roles
           /\ r \in Custom /\ FALSE \notin NamesPatches => step # "clear"
  <1> USE DefinitionsAssumption
  <1>1. CASE BeginCreate(s)
    BY <1>1 DEF BeginCreate, Roles
  <1>2. CASE BeginUpdate(s)
    <2>1. PICK r \in Roles :
            /\ MayChange(r)
            /\ \/ Begin(s, "rename", r, NoKeys)
               \/ \E K \in SUBSET Perms, named \in NamesPatches :
                    Begin(s, IF named THEN "rename" ELSE "clear", r, K)
      BY <1>2 DEF BeginUpdate
    <2>2. r \in roles \ System
      BY <2>1 DEF MayChange
    <2> QED BY <2>1, <2>2
  <1>3. CASE BeginDelete(s)
    BY <1>3 DEF BeginDelete, MayChange
  <1>4. CASE BeginWire(s)
    <2>1. PICK r \in System : Begin(s, "clear", r, Catalogue[r])
      BY <1>4 DEF BeginWire
    <2> QED BY <2>1 DEF Roles
  <1> QED BY <1>1, <1>2, <1>3, <1>4

(* The statements of a transaction that commit nothing. *)
LEMMA StatementTypes ==
  ASSUME TypeOK, StepsInv, NEW s \in Sessions,
         Rename(s) \/ Clear(s) \/ Remove(s) \/ Insert(s) \/ Drop(s) \/ Abort(s)
  PROVE  TypeOK'
  <1>1. CASE Rename(s)
    BY <1>1 DEF Rename, AfterRename, Goto, tables, TypeOK
  <1>2. CASE Clear(s)
    <2>1. Role(s) \in Roles
      BY <1>2 DEF Clear, StepsInv, TypeOK, Role
    <2> QED BY <1>2, <2>1 DEF Clear, Goto, tables, TypeOK
  <1>3. CASE Remove(s)
    BY <1>3 DEF Remove, Goto, tables, TypeOK
  <1>4. ASSUME NEW K \in SUBSET Perms, Inserts(s, K)
        PROVE  TypeOK'
    BY <1>4 DEF Inserts, Goto, tables, TypeOK
  <1>5. CASE Abort(s)
    BY <1>5, EndTypes DEF Abort, tables, TypeOK
  <1>6. CASE Insert(s)
    <2>1. Keys(s) \in SUBSET Perms
      BY <1>6 DEF Insert, StepsInv, Rewrites
    <2> QED BY <1>4, <1>5, <1>6, <2>1 DEF Insert
  <1>7. CASE Drop(s)
    <2>1. CASE Role(s) \in roles
      BY <1>7, <2>1 DEF Drop, Exists, Goto, tables, TypeOK
    <2>2. CASE Role(s) \notin roles
      BY <1>5, <1>7, <2>2 DEF Drop, Exists
    <2> QED BY <2>1, <2>2
  <1> QED BY <1>1, <1>2, <1>3, <1>5, <1>6, <1>7

LEMMA CommitTypes ==
  ASSUME TypeOK, StepsInv, NEW s \in Sessions,
         Create(s) \/ Load(s) \/ Cascade(s)
  PROVE  TypeOK'
  <1>1. CASE Create(s)
    <2>1. Role(s) \in Roles /\ Keys(s) \in SUBSET Perms
      BY <1>1 DEF Create, StepsInv, Roles
    <2>2. CASE KeyTaken(Role(s))
      BY <1>1, <2>2, StatementTypes DEF Create
    <2>3. CASE ~KeyTaken(Role(s))
      <3>1. Written(s) \in (SUBSET Perms) \cup {NoKeys}
        BY <2>1 DEF Written, TypeOK
      <3>2. roles' \subseteq Roles
        BY <1>1, <2>1, <2>3 DEF Create, TypeOK
      <3>3. perms' \in [Roles -> SUBSET Perms]
        BY <1>1, <2>1, <2>3 DEF Create, TypeOK
      <3>4. last' \in [Roles -> (SUBSET Perms) \cup {NoKeys}]
        BY <1>1, <2>1, <2>3, <3>1 DEF Create, TypeOK
      <3> QED BY <1>1, <2>3, <3>2, <3>3, <3>4, EndTypes DEF Create
    <2> QED BY <2>2, <2>3
  <1>2. CASE Load(s)
    <2>1. CASE Role(s) \in roles
      <3>1. Written(s) \in (SUBSET Perms) \cup {NoKeys}
        BY <2>1 DEF Written, TypeOK, Keys
      <3>2. Commit(s)
        BY <1>2, <2>1 DEF Load, Exists
      <3>3. perms' \in [Roles -> SUBSET Perms] /\ last' \in [Roles -> (SUBSET Perms) \cup {NoKeys}]
        BY <3>1, <3>2 DEF Commit, TypeOK
      <3> QED BY <3>2, <3>3, EndTypes DEF Commit, TypeOK
    <2>2. CASE Role(s) \notin roles
      BY <1>2, <2>2, StatementTypes DEF Load, Exists
    <2> QED BY <2>1, <2>2
  <1>3. CASE Cascade(s)
    BY <1>3, EndTypes DEF Cascade, TypeOK
  <1> QED BY <1>1, <1>2, <1>3

LEMMA BeginTypes ==
  ASSUME TypeOK, NEW s \in Sessions, NEW r \in Roles, NEW K \in (SUBSET Perms) \cup {NoKeys},
         NEW step \in {"create", "rename", "clear", "drop"}, Begin(s, step, r, K)
  PROVE  TypeOK'
  BY DEF Begin, tables, TypeOK

----------------------------------------------------------------------------
(* A transaction that ends leaves what the invariants ask of the others. *)
LEMMA EndSteps ==
  ASSUME TypeOK, StepsInv, NEW s \in Sessions, NEW gone, End(s, gone)
  PROVE  StepsInv'
  BY DefinitionsAssumption DEF TypeOK, StepsInv, End, NoReq, Role, Keys, Rewrites, Roles

LEMMA EndWires ==
  ASSUME TypeOK, WireInv, NEW s \in Sessions, NEW gone, End(s, gone)
  PROVE  WireInv'
  BY DefinitionsAssumption DEF TypeOK, WireInv, End, NoReq, Role, Keys, Roles

LEMMA BeginSteps ==
  ASSUME TypeOK, StepsInv, WireInv, NEW s \in Sessions,
         NEW r \in Roles, NEW K \in (SUBSET Perms) \cup {NoKeys},
         NEW step \in {"create", "rename", "clear", "drop"}, Begin(s, step, r, K),
         r \in System => step = "clear" /\ K = Catalogue[r],
         step \in {"create", "clear"} => K \in SUBSET Perms
  PROVE  StepsInv' /\ WireInv'
  <1> USE DefinitionsAssumption DEF Begin, tables, Role, Keys, Roles
  <1>1. StepsInv'
    BY DEF TypeOK, StepsInv, Rewrites
  <1>2. WireInv'
    BY DEF TypeOK, WireInv
  <1> QED BY <1>1, <1>2

LEMMA StatementSteps ==
  ASSUME SystemInv, NEW s \in Sessions,
         Rename(s) \/ Clear(s) \/ Remove(s) \/ Insert(s) \/ Drop(s) \/ Abort(s)
  PROVE  StepsInv' /\ WireInv' /\ (UNCHANGED <<roles, perms>>)
  <1> USE DefinitionsAssumption DEF SystemInv
  <1>1. CASE Abort(s)
    BY <1>1, EndSteps, EndWires DEF Abort, tables
  <1>2. CASE Rename(s)
    <2>1. StepsInv'
      BY <1>2 DEF Rename, AfterRename, Goto, tables, TypeOK, StepsInv, Role, Keys, Rewrites, NoKeys
    <2>2. WireInv'
      BY <1>2 DEF Rename, AfterRename, Goto, tables, TypeOK, StepsInv, WireInv, Role, Keys
    <2> QED BY <1>2, <2>1, <2>2 DEF Rename, Goto, tables
  <1>3. CASE Clear(s)
    <2>1. StepsInv'
      BY <1>3 DEF Clear, Goto, tables, TypeOK, StepsInv, Role, Keys, Rewrites
    <2>2. WireInv'
      BY <1>3 DEF Clear, Goto, tables, TypeOK, WireInv, Role, Keys
    <2> QED BY <1>3, <2>1, <2>2 DEF Clear, Goto, tables
  <1>4. CASE Remove(s)
    <2>1. StepsInv'
      BY <1>4 DEF Remove, Goto, tables, TypeOK, StepsInv, Role, Keys, Rewrites
    <2>2. WireInv'
      BY <1>4 DEF Remove, Goto, tables, TypeOK, WireInv, Role, Keys
    <2> QED BY <1>4, <2>1, <2>2 DEF Remove, Goto, tables
  <1>5. ASSUME pc[s] = "insert", NEW K, Inserts(s, K),
               Role(s) \in System => K = Keys(s) \ There(s)
        PROVE  StepsInv' /\ WireInv' /\ (UNCHANGED <<roles, perms>>)
    <2>1. Keys(s) \in SUBSET Perms /\ Keys(s) # NoKeys
      BY <1>5 DEF StepsInv, Rewrites, NoKeys
    <2>2. StepsInv'
      BY <1>5, <2>1 DEF Inserts, Goto, tables, TypeOK, StepsInv, Role, Keys, Rewrites
    <2>3. Role(s) \in System => K \cup (Keys(s) \ del[s]) = Keys(s)
      BY <1>5 DEF There, SystemRolesExact, WireInv
    <2>4. WireInv'
      BY <1>5, <2>3 DEF Inserts, Goto, tables, TypeOK, WireInv, Role, Keys
    <2> QED BY <1>5, <2>2, <2>4 DEF Inserts, Goto, tables
  <1>6. CASE Insert(s)
    BY <1>1, <1>5, <1>6 DEF Insert
  <1>7. CASE Drop(s)
    <2>1. CASE Role(s) \in roles
      <3>1. StepsInv'
        BY <1>7, <2>1 DEF Drop, Exists, Goto, tables, TypeOK, StepsInv, Role, Keys, Rewrites
      <3>2. WireInv'
        BY <1>7, <2>1 DEF Drop, Exists, Goto, tables, TypeOK, WireInv, Role, Keys
      <3> QED BY <1>7, <2>1, <3>1, <3>2 DEF Drop, Exists, Goto, tables
    <2>2. CASE Role(s) \notin roles
      BY <1>1, <1>7, <2>2 DEF Drop, Exists
    <2> QED BY <2>1, <2>2
  <1> QED BY <1>1, <1>2, <1>3, <1>4, <1>6, <1>7

(* The actions that commit, and what each commits. *)
LEMMA CommitSteps ==
  ASSUME SystemInv, NEW s \in Sessions, Create(s) \/ Load(s) \/ Cascade(s)
  PROVE  StepsInv' /\ WireInv' /\ SystemRolesExact'
  <1> USE DefinitionsAssumption DEF SystemInv
  <1>1. CASE Abort(s)
    BY <1>1, EndSteps, EndWires DEF Abort, tables, SystemRolesExact
  <1>2. CASE Create(s)
    <2>1. Role(s) \in Custom
      BY <1>2 DEF Create, StepsInv
    <2> QED BY <1>1, <1>2, <2>1, EndSteps, EndWires DEF Create, SystemRolesExact, TypeOK, Roles
  <1>3. CASE Cascade(s)
    <2>1. Role(s) \in Custom
      BY <1>3 DEF Cascade, StepsInv
    <2> QED BY <1>3, <2>1, EndSteps, EndWires DEF Cascade, SystemRolesExact, TypeOK, Roles
  <1>4. CASE Load(s)
    <2>1. CASE Role(s) \notin roles
      BY <1>1, <1>4, <2>1 DEF Load, Exists
    <2>2. CASE Role(s) \in roles
      <3>1. Commit(s)
        BY <1>4, <2>2 DEF Load, Exists
      <3>2. Role(s) \in System => (perms[Role(s)] \ del[s]) \cup ins[s] = Catalogue[Role(s)]
        BY <1>4 DEF Load, Exists, WireInv, SystemRolesExact
      <3>3. SystemRolesExact'
        BY <3>1, <3>2 DEF Commit, SystemRolesExact, TypeOK, Roles
      <3> QED BY <3>1, <3>3, EndSteps, EndWires DEF Commit
    <2> QED BY <2>1, <2>2
  <1> QED BY <1>2, <1>3, <1>4

----------------------------------------------------------------------------
LEMMA InitSystem == Init => SystemInv
  <1> SUFFICES ASSUME Init PROVE SystemInv
    OBVIOUS
  <1> USE DefinitionsAssumption DEF Init, Roles
  <1>1. TypeOK
    BY DEF TypeOK, NoReq
  <1>2. StepsInv /\ WireInv
    BY DEF StepsInv, WireInv, NoReq, Role, Keys, Rewrites
  <1>3. SystemRolesExact
    BY DEF SystemRolesExact
  <1> QED BY <1>1, <1>2, <1>3 DEF SystemInv

LEMMA NextSystem == SystemInv /\ [Next]_vars => SystemInv'
  <1> SUFFICES ASSUME SystemInv, [Next]_vars PROVE SystemInv'
    OBVIOUS
  <1> USE DEF SystemInv
  <1>1. ASSUME NEW s \in Sessions,
               BeginCreate(s) \/ BeginUpdate(s) \/ BeginDelete(s) \/ BeginWire(s)
        PROVE  SystemInv'
    <2>1. PICK step \in {"create", "rename", "clear", "drop"}, r \in Roles,
               K \in (SUBSET Perms) \cup {NoKeys} :
            /\ Begin(s, step, r, K)
            /\ r \in System => step = "clear" /\ K = Catalogue[r]
            /\ step \in {"create", "clear"} => K \in SUBSET Perms
      BY <1>1, BeginKinds
    <2>2. SystemRolesExact'
      BY <2>1 DEF Begin, tables, SystemRolesExact
    <2> QED BY <2>1, <2>2, BeginTypes, BeginSteps
  <1>2. ASSUME NEW s \in Sessions,
               Rename(s) \/ Clear(s) \/ Remove(s) \/ Insert(s) \/ Drop(s) \/ Abort(s)
        PROVE  SystemInv'
    BY <1>2, StatementTypes, StatementSteps DEF SystemRolesExact
  <1>3. ASSUME NEW s \in Sessions, Create(s) \/ Load(s) \/ Cascade(s)
        PROVE  SystemInv'
    BY <1>3, CommitTypes, CommitSteps
  <1>4. CASE UNCHANGED vars
    BY <1>4 DEF vars, tables, TypeOK, StepsInv, WireInv, SystemRolesExact, Role, Keys
  <1> QED BY <1>1, <1>2, <1>3, <1>4 DEF Next, CutShort

(* The types of the state, for every set of roles and transactions. *)
THEOREM TypeCorrect == Spec => []TypeOK
  BY InitSystem, NextSystem, PTL DEF Spec, SystemInv

(* However many boots and scripts rewire a system role at once, its        *)
(* committed permissions are the catalogue's (rbac/reconcile.py).          *)
THEOREM SystemRolesHold == Spec => []SystemRolesExact
  BY InitSystem, NextSystem, PTL DEF Spec, SystemInv

----------------------------------------------------------------------------
(* Patches that also rename.  From the rename to the commit they hold the  *)
(* lock of the role's row, unless the role is gone for good; so what the   *)
(* DELETE met is all there is, and the INSERT is all there will be.        *)
InPatch == {"clear", "remove", "insert", "load"}
LockInv ==
  \A s \in Sessions : Role(s) \in Custom =>
    /\ pc[s] \in InPatch => lock[s] = "update" \/ Role(s) \notin roles
    /\ pc[s] = "cascade" => lock[s] = "delete" /\ Role(s) \in roles
    /\ pc[s] = "create" => Role(s) \notin roles /\ \A t \in Sessions : Role(t) = Role(s) => t = s
OneHolder ==
  \A s, t \in Sessions :
    lock[s] \in Strong /\ lock[t] \in Strong /\ Role(s) = Role(t) => s = t
ReplaceInv ==
  \A s \in Sessions : Role(s) \in Custom \cap roles =>
    /\ pc[s] = "remove" => seen[s] = perms[Role(s)]
    /\ pc[s] = "insert" => del[s] = perms[Role(s)]
    /\ pc[s] = "load" /\ Keys(s) # NoKeys => del[s] = perms[Role(s)] /\ ins[s] = Keys(s)

PatchInv == LockInv /\ OneHolder /\ ReplaceInv /\ OneWritersSet

(* No other patch of the role is under way when one commits.               *)
LEMMA Alone ==
  ASSUME PatchInv, NEW s \in Sessions, NEW t \in Sessions, t # s,
         Role(s) \in Custom \cap roles, Role(t) = Role(s), lock[s] \in Strong
  PROVE  pc[t] \notin InPatch
  BY DEF PatchInv, LockInv, OneHolder, Strong

LEMMA BeginPatch ==
  ASSUME TypeOK, StepsInv, PatchInv, NEW s \in Sessions, FALSE \notin NamesPatches,
         BeginCreate(s) \/ BeginUpdate(s) \/ BeginDelete(s) \/ BeginWire(s)
  PROVE  PatchInv'
  <1> USE DefinitionsAssumption
  <1>1. PICK step \in {"create", "rename", "clear", "drop"}, r \in Roles,
             K \in (SUBSET Perms) \cup {NoKeys} :
          /\ Begin(s, step, r, K)
          /\ step = "create" => (\A t \in Sessions : Role(t) # r) /\ last[r] = NoKeys
          /\ r \in Custom /\ step # "create" => r \in roles
          /\ r \in Custom => step # "clear"
          /\ r \in System => step = "clear"
    BY BeginKinds
  <1>2. Role(s)' = r /\ pc'[s] = step /\ lock' = lock /\ lock[s] = "none" /\ UNCHANGED tables
    BY <1>1 DEF Begin, TypeOK, StepsInv, Role
  <1>3. \A t \in Sessions : t # s => pc'[t] = pc[t] /\ Role(t)' = Role(t) /\ Keys(t)' = Keys(t)
    BY <1>1 DEF Begin, TypeOK, Role, Keys
  <1>4. step = "create" => r \in Custom /\ r \notin roles
    BY <1>1 DEF PatchInv, OneWritersSet, TypeOK, NoKeys, Roles
  <1>5. LockInv'
    BY <1>1, <1>2, <1>3, <1>4 DEF PatchInv, LockInv, InPatch, tables
  <1>6. OneHolder'
    BY <1>2, <1>3 DEF PatchInv, OneHolder, Strong
  <1>7. ReplaceInv' /\ OneWritersSet'
    BY <1>1, <1>2, <1>3 DEF PatchInv, ReplaceInv, OneWritersSet, tables, Begin
  <1> QED BY <1>5, <1>6, <1>7 DEF PatchInv

LEMMA EndPatch ==
  ASSUME TypeOK, StepsInv, PatchInv, NEW s \in Sessions, Abort(s)
  PROVE  PatchInv'
  <1>1. Role(s)' = NoRole /\ lock'[s] = "none"
    BY DEF Abort, End, TypeOK, NoReq, Role
  <1>2. \A t \in Sessions : t # s =>
          /\ pc'[t] = pc[t] /\ Role(t)' = Role(t) /\ Keys(t)' = Keys(t) /\ lock'[t] = lock[t]
          /\ seen'[t] = seen[t] /\ del'[t] = del[t] /\ ins'[t] = ins[t]
    BY DEF Abort, End, TypeOK, Role, Keys
  <1>3. LockInv' /\ OneHolder'
    BY <1>1, <1>2, DefinitionsAssumption DEF Abort, tables, PatchInv, LockInv, OneHolder, Strong, Roles
  <1>4. ReplaceInv' /\ OneWritersSet'
    BY <1>1, <1>2, DefinitionsAssumption DEF Abort, tables, PatchInv, ReplaceInv, OneWritersSet, Roles
  <1> QED BY <1>3, <1>4 DEF PatchInv

LEMMA StatementPatch ==
  ASSUME TypeOK, StepsInv, PatchInv, NEW s \in Sessions,
         Rename(s) \/ Clear(s) \/ Remove(s) \/ Insert(s) \/ Drop(s)
  PROVE  PatchInv'
  <1> USE DefinitionsAssumption DEF PatchInv
  <1>1. CASE Rename(s)
    <2>1. LockInv'
      BY <1>1 DEF Rename, AfterRename, Goto, tables, TypeOK, LockInv, InPatch, Role
    <2>2. OneHolder'
      BY <1>1 DEF Rename, RowFree, Rivals, Goto, TypeOK, OneHolder, Strong, Role
    <2>3. ReplaceInv' /\ OneWritersSet'
      BY <1>1 DEF Rename, AfterRename, Goto, tables, TypeOK, ReplaceInv, OneWritersSet, Role, Keys
    <2> QED BY <2>1, <2>2, <2>3
  <1>2. CASE Clear(s)
    <2>1. LockInv' /\ OneHolder'
      BY <1>2 DEF Clear, Goto, tables, TypeOK, LockInv, InPatch, OneHolder, Strong, Role
    <2>2. ReplaceInv' /\ OneWritersSet'
      BY <1>2 DEF Clear, Goto, tables, TypeOK, ReplaceInv, OneWritersSet, Role, Keys, Roles
    <2> QED BY <2>1, <2>2
  <1>3. CASE Remove(s)
    <2>1. LockInv' /\ OneHolder'
      BY <1>3 DEF Remove, Goto, tables, TypeOK, LockInv, InPatch, OneHolder, Strong, Role
    <2>2. ReplaceInv' /\ OneWritersSet'
      BY <1>3 DEF Remove, Goto, tables, TypeOK, ReplaceInv, OneWritersSet, Role, Keys
    <2> QED BY <2>1, <2>2
  <1>4. ASSUME pc[s] = "insert", NEW K, Inserts(s, K), Role(s) \in Custom => K = Keys(s)
        PROVE  PatchInv'
    <2>1. LockInv'
      BY <1>4 DEF Inserts, Goto, tables, TypeOK, LockInv, InPatch, Role
    <2>2. OneHolder'
      BY <1>4 DEF Inserts, Goto, TypeOK, OneHolder, Strong, Role
    <2>3. ReplaceInv' /\ OneWritersSet'
      BY <1>4 DEF Inserts, Goto, tables, TypeOK, ReplaceInv, OneWritersSet, Role, Keys
    <2> QED BY <2>1, <2>2, <2>3
  <1>5. CASE Insert(s)
    BY <1>4, <1>5, EndPatch DEF Insert
  <1>6. CASE Drop(s)
    <2>1. CASE Role(s) \in roles
      <3>1. LockInv'
        BY <1>6, <2>1 DEF Drop, Exists, Goto, tables, TypeOK, LockInv, InPatch, Role
      <3>2. OneHolder'
        BY <1>6, <2>1 DEF Drop, Exists, Rivals, Goto, TypeOK, OneHolder, Strong, Role
      <3>3. ReplaceInv' /\ OneWritersSet'
        BY <1>6, <2>1 DEF Drop, Exists, Goto, tables, TypeOK, ReplaceInv, OneWritersSet, Role, Keys
      <3> QED BY <3>1, <3>2, <3>3
    <2>2. CASE Role(s) \notin roles
      BY <1>6, <2>2, EndPatch DEF Drop, Exists
    <2> QED BY <2>1, <2>2
  <1> QED BY <1>1, <1>2, <1>3, <1>5, <1>6

(* A commit ends one transaction and changes one role. *)
LEMMA CommitPatch ==
  ASSUME TypeOK, StepsInv, PatchInv, NEW s \in Sessions,
         Create(s) \/ Load(s) \/ Cascade(s)
  PROVE  PatchInv'
  <1> USE DefinitionsAssumption
  <1> DEFINE r == Role(s)
  <1>1. CASE Abort(s)
    BY <1>1, EndPatch
  <1>2. ASSUME NEW gone, End(s, gone), roles \ {r} \subseteq roles', roles' \subseteq roles \cup {r},
               r \in roles \ roles' => lock[s] = "delete",
               r \notin roles => r \in Custom /\ \A t \in Sessions : t # s => Role(t) # r,
               \A q \in roles : q # r => perms'[q] = perms[q] /\ last'[q] = last[q],
               r \in Custom \cap roles' => perms'[r] = last'[r],
               r \in Custom \cap roles' =>
                 \A t \in Sessions : t # s /\ Role(t) = r => pc[t] \notin InPatch
        PROVE  PatchInv'
    <2>1. Role(s)' = NoRole /\ lock'[s] = "none" /\ pc'[s] = "idle"
      BY <1>2 DEF End, TypeOK, NoReq, Role
    <2>2. \A t \in Sessions : t # s =>
            /\ pc'[t] = pc[t] /\ Role(t)' = Role(t) /\ Keys(t)' = Keys(t) /\ lock'[t] = lock[t]
            /\ del'[t] = del[t] /\ ins'[t] = ins[t] /\ (Role(t) # r => seen'[t] = seen[t])
      BY <1>2 DEF End, Rivals, TypeOK, Role, Keys
    <2>3. LockInv' /\ OneHolder'
      BY <1>2, <2>1, <2>2 DEF PatchInv, LockInv, OneHolder, Strong, Roles
    <2>4. OneWritersSet'
      BY <1>2 DEF PatchInv, OneWritersSet
    <2>5. ReplaceInv'
      BY <1>2, <2>1, <2>2 DEF PatchInv, ReplaceInv, InPatch, Roles
    <2> QED BY <2>3, <2>4, <2>5 DEF PatchInv
  <1>3. CASE Create(s)
    <2>1. CASE KeyTaken(r)
      BY <1>1, <1>3, <2>1 DEF Create
    <2>2. CASE ~KeyTaken(r)
      <3>1. r \in Custom /\ r \notin roles /\ \A t \in Sessions : t # s => Role(t) # r
        BY <1>3 DEF Create, StepsInv, PatchInv, LockInv
      <3>2. Written(s) = Keys(s)
        BY <1>3 DEF Create, StepsInv, Written, NoKeys
      <3> QED BY SMTT(30), <1>2, <1>3, <2>2, <3>1, <3>2 DEF Create, TypeOK, Roles
    <2> QED BY <2>1, <2>2
  <1>4. CASE Load(s)
    <2>1. CASE r \notin roles
      BY <1>1, <1>4, <2>1 DEF Load, Exists
    <2>2. CASE r \in roles
      <3>1. Commit(s)
        BY <1>4, <2>2 DEF Load, Exists
      <3>2. r \in Custom => lock[s] = "update"
        BY <1>4, <2>2 DEF Load, Exists, PatchInv, LockInv, InPatch
      <3>3. r \in Custom => (perms[r] \ del[s]) \cup ins[s] = Written(s)
        BY <1>4, <2>2 DEF Load, Exists, Written, StepsInv, PatchInv, ReplaceInv, OneWritersSet
      <3>4. perms' = [perms EXCEPT ![r] = (perms[r] \ del[s]) \cup ins[s]]
            /\ last' = [last EXCEPT ![r] = Written(s)] /\ roles' = roles /\ End(s, del[s])
        BY <3>1 DEF Commit
      <3>5. r \in Custom => perms'[r] = last'[r]
        BY <2>2, <3>3, <3>4 DEF TypeOK
      <3>6. \A q \in roles : q # r => perms'[q] = perms[q] /\ last'[q] = last[q]
        BY <3>4 DEF TypeOK
      <3>7. r \in Custom => \A t \in Sessions : t # s /\ Role(t) = r => pc[t] \notin InPatch
        BY <2>2, <3>2, Alone DEF Strong
      <3> QED BY <1>2, <2>2, <3>4, <3>5, <3>6, <3>7
    <2> QED BY <2>1, <2>2
  <1>5. CASE Cascade(s)
    <2>1. End(s, perms[r]) /\ roles' = roles \ {r}
          /\ \A q \in roles : q # r => perms'[q] = perms[q] /\ last'[q] = last[q]
      BY <1>5 DEF Cascade, TypeOK
    <2>2. r \in roles /\ lock[s] = "delete"
      BY <1>5 DEF Cascade, StepsInv, PatchInv, LockInv
    <2> QED BY <1>2, <2>1, <2>2
  <1> QED BY <1>3, <1>4, <1>5

LEMMA NextPatch ==
  ASSUME FALSE \notin NamesPatches
  PROVE  SystemInv /\ PatchInv /\ [Next]_vars => PatchInv'
  <1> SUFFICES ASSUME SystemInv, PatchInv, [Next]_vars PROVE PatchInv'
    OBVIOUS
  <1>1. CASE UNCHANGED vars
    BY <1>1 DEF vars, tables, PatchInv, LockInv, OneHolder, ReplaceInv, OneWritersSet, Role, Keys
  <1> QED BY <1>1, BeginPatch, StatementPatch, CommitPatch, EndPatch DEF SystemInv, Next, CutShort

LEMMA InitPatch == Init => PatchInv
  BY DefinitionsAssumption
  DEF Init, PatchInv, LockInv, OneHolder, ReplaceInv, OneWritersSet, NoReq, Role, InPatch, Strong

(* If every patch also renames, the row lock of the rename alone makes     *)
(* concurrent patches of a role replace its permissions one after another. *)
THEOREM RenamesOrderPatches ==
  ASSUME FALSE \notin NamesPatches
  PROVE  Spec => []OneWritersSet
  BY InitSystem, NextSystem, InitPatch, NextPatch, PTL DEF Spec, PatchInv

=============================================================================
