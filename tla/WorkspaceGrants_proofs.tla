----------------------- MODULE WorkspaceGrants_proofs -----------------------
(***************************************************************************)
(* For every set of users, sessions and roles: the types of WorkspaceGrants,*)
(* the owner floor, the uniqueness of grants, that the transactions        *)
(* implement OwnerRegistry, and that they wait for each other in a circle  *)
(* only where a boot that projects meets a DELETE at the floor's trigger.  *)
(***************************************************************************)
EXTENDS WorkspaceGrants, FiniteSetTheorems, WellFoundedInduction, TLAPS

----------------------------------------------------------------------------
(* Which fields a request of each kind has. *)
LEMMA RequestFields ==
  ASSUME NEW r \in Request
  PROVE  /\ r.op = "grant" => r.actor \in Users /\ r.target \in Users /\ r.role \in Roles
         /\ r.op = "revoke" => r.actor \in Users /\ r.row \in Row
         /\ r.op = "remove" => r.actor \in Users /\ r.target \in Users
         /\ r.op = "accept" => r.target \in Users /\ r.role \in EnumRoles
  BY DEF Request, NoReq

(* Ending a transaction keeps the types. *)
LEMMA FinishType ==
  ASSUME TypeOK, NEW s \in Sessions, Finish(s),
         member' \in [Users -> EnumRoles \cup {NoRole}], grants' \subseteq Row,
         gone' \subseteq Users, lostOwner' \in BOOLEAN
  PROVE  TypeOK'
  BY DEF TypeOK, Finish, Steps, Request

LEMMA RollbackType ==
  ASSUME TypeOK, NEW s \in Sessions, Rollback(s)
  PROVE  TypeOK'
  BY FinishType DEF Rollback, db, TypeOK

(* So does a statement that only reads and goes on. *)
GoesOn(s, l) == Goto(s, l) /\ UNCHANGED <<db, req, want, todo, cur, ins, del>>

LEMMA GoesOnType ==
  ASSUME TypeOK, NEW s \in Sessions, NEW l \in Steps \ {"idle"}, GoesOn(s, l)
  PROVE  TypeOK'
  BY DEF TypeOK, GoesOn, Goto, db

LEMMA StartType ==
  ASSUME TypeOK, NEW s \in Sessions, NEW r \in Request, NEW l \in Steps \ {"idle"},
         NEW w \in SUBSET Pair, Start(s, r, l, w)
  PROVE  TypeOK'
  BY DEF TypeOK, Start, Goto, db

LEMMA InitType == Init => TypeOK
  <1> SUFFICES ASSUME Init PROVE TypeOK
    OBVIOUS
  <1>1. grants \subseteq Row
    BY RoleAssumption DEF Init, Row, NewRow
  <1>2. req \in [Sessions -> Request]
    BY DEF Init, Request
  <1>3. pc \in [Sessions -> Steps]
    BY DEF Init, Steps
  <1> QED
    BY <1>1, <1>2, <1>3 DEF Init, TypeOK

LEMMA BeginType ==
  ASSUME TypeOK, NEW s \in Sessions, Begin(s)
  PROVE  TypeOK'
  <1>1. CASE BeginGrant(s)
    <2> PICK a \in Users, u \in Users, x \in Roles :
          Start(s, [op |-> "grant", actor |-> a, target |-> u, role |-> x], "member",
                {[user |-> u, role |-> x]})
      BY <1>1, RoleAssumption DEF BeginGrant
    <2> QED BY StartType DEF Request, Steps, Pair
  <1>2. CASE BeginRevoke(s)
    <2> PICK a \in Users, g \in grants :
          Start(s, [op |-> "revoke", actor |-> a, row |-> g], "perms", {})
      BY <1>2 DEF BeginRevoke
    <2> g \in Row
      BY DEF TypeOK
    <2> QED BY StartType DEF Request, Steps, DeleteSteps, InsertSteps, Check, GoesOn
  <1>3. CASE BeginRemove(s)
    <2> PICK a \in Users, u \in Users :
          Start(s, [op |-> "remove", actor |-> a, target |-> u], "member", {})
      BY <1>3, RoleAssumption DEF BeginRemove
    <2> QED BY StartType DEF Request, Steps, DeleteSteps, InsertSteps, Check, GoesOn
  <1>4. CASE BeginAccept(s)
    <2> PICK u \in Users, x \in EnumRoles :
          Start(s, [op |-> "accept", target |-> u, role |-> x], "preselect",
                {[user |-> u, role |-> x]})
      BY <1>4, RoleAssumption DEF BeginAccept
    <2> QED BY StartType, RoleAssumption DEF Request, Steps, Pair
  <1>5. CASE BeginBoot(s)
    <2> PICK w \in BOOLEAN : Start(s, [op |-> "boot", wires |-> w], "wipe", {})
      BY <1>5 DEF BeginBoot
    <2> QED BY StartType DEF Request, Steps
  <1> QED BY <1>1, <1>2, <1>3, <1>4, <1>5 DEF Begin

(* The statements that only read. *)
Reads(s) ==
  \/ CheckMember(s) \/ CheckPerms(s) \/ CheckGate(s) \/ CheckFloor(s)
  \/ InsertTrigger(s) \/ PlaceDone(s) \/ Fetch(s) \/ ForeignKeys(s)
  \/ Join(s) \/ PreSelect(s) \/ DeleteDone(s) \/ Leave(s)

LEMMA ReadsGoOn ==
  ASSUME NEW s \in Sessions, Reads(s)
  PROVE  \/ Rollback(s)
         \/ \E l \in Steps \ {"idle"} :
              /\ GoesOn(s, l)
              /\ pc[s] \in DeleteSteps => l \in DeleteSteps
              /\ pc[s] \in InsertSteps => l \in InsertSteps \ {"place"}
  <1>1. CASE CheckMember(s)
    BY <1>1 DEF CheckMember, Steps, DeleteSteps, InsertSteps, Check, GoesOn
  <1>2. CASE CheckPerms(s)
    BY <1>2 DEF CheckPerms, Steps, DeleteSteps, InsertSteps, Check, GoesOn
  <1>3. CASE CheckGate(s)
    BY <1>3 DEF CheckGate, Steps, DeleteSteps, InsertSteps, Check, GoesOn
  <1>4. CASE CheckFloor(s)
    BY <1>4 DEF CheckFloor, Steps, DeleteSteps, InsertSteps, Check, GoesOn
  <1>5. CASE InsertTrigger(s)
    BY <1>5 DEF InsertTrigger, Steps, DeleteSteps, InsertSteps, Check, GoesOn
  <1>6. CASE PlaceDone(s)
    BY <1>6 DEF PlaceDone, Steps, DeleteSteps, InsertSteps, Check, GoesOn
  <1>7. CASE Fetch(s)
    BY <1>7 DEF Fetch, Steps, DeleteSteps, InsertSteps, Check, GoesOn
  <1>8. CASE ForeignKeys(s)
    BY <1>8 DEF ForeignKeys, Steps, DeleteSteps, InsertSteps, Check, GoesOn
  <1>9. CASE Join(s)
    BY <1>9 DEF Join, Steps, DeleteSteps, InsertSteps, Check, GoesOn
  <1>10. CASE PreSelect(s)
    BY <1>10 DEF PreSelect, Steps, DeleteSteps, InsertSteps, Check, GoesOn
  <1>11. CASE DeleteDone(s)
    BY <1>11 DEF DeleteDone, Steps, DeleteSteps, InsertSteps, Check, GoesOn
  <1>12. CASE Leave(s)
    BY <1>12 DEF Leave, Steps, DeleteSteps, InsertSteps, Check, GoesOn
  <1> QED
    BY <1>1, <1>2, <1>3, <1>4, <1>5, <1>6, <1>7, <1>8, <1>9, <1>10, <1>11, <1>12 DEF Reads

(* The statements that write. *)
LEMMA CommitType ==
  ASSUME TypeOK, NEW s \in Sessions, Commit(s)
  PROVE  TypeOK'
  <1>1. MembersAfter(s) \in [Users -> EnumRoles \cup {NoRole}]
    <2>1. CASE Joining(s)
      <3> req[s].role \in EnumRoles
        BY <2>1, RequestFields DEF TypeOK, Joining
      <3> QED BY <2>1 DEF MembersAfter, TypeOK
    <2>2. CASE ~Joining(s)
      BY <2>2 DEF MembersAfter, TypeOK
    <2> QED BY <2>1, <2>2
  <1> QED BY <1>1, FinishType DEF Commit, TypeOK

LEMMA SkipKeyType ==
  ASSUME TypeOK, NEW s \in Sessions, NEW k, SkipKey(s, k), pc[s] # "idle"
  PROVE  TypeOK'
  BY DEF SkipKey, TypeOK, db

LEMMA PlaceRowType ==
  ASSUME TypeOK, NEW s \in Sessions, NEW k \in want[s], PlaceRow(s, k), pc[s] = "place"
  PROVE  TypeOK'
  <1> PICK i \in Ids : ins' = [ins EXCEPT ![s] = @ \cup {NewRow(i, k)}]
    BY DEF PlaceRow
  <1> NewRow(i, k) \in Row
    BY DEF NewRow, Row, TypeOK, Pair
  <1> QED BY DEF PlaceRow, TypeOK, db

LEMMA ConflictCases ==
  ASSUME NEW s \in Sessions, NEW k, Conflict(s, k)
  PROVE  Rollback(s) \/ SkipKey(s, k) \/ GoesOn(s, "fetch")
  BY DEF Conflict, Check, GoesOn

LEMMA DeleteTriggerCases ==
  ASSUME NEW s \in Sessions, DeleteTrigger(s)
  PROVE  Rollback(s) \/ \E r \in cur[s] : DeleteRow(s, r)
  BY DEF DeleteTrigger

LEMMA PlaceType ==
  ASSUME TypeOK, NEW s \in Sessions, Place(s)
  PROVE  TypeOK'
  <1> PICK k \in NextPair(s) : PlaceRow(s, k) \/ Conflict(s, k)
    BY DEF Place
  <1> k \in want[s]
    BY DEF NextPair
  <1>1. CASE PlaceRow(s, k)
    BY <1>1, PlaceRowType DEF Place
  <1>2. CASE Conflict(s, k)
    BY <1>2, ConflictCases, RollbackType, SkipKeyType, GoesOnType DEF Place, Steps
  <1> QED BY <1>1, <1>2

(* A boot at its projection, which takes each membership once.             *)
Projects(s) == pc[s] \in {"wipe", "wire"} /\ Project(s)

LEMMA MembershipsType ==
  ASSUME TypeOK
  PROVE  /\ Memberships \in SUBSET Pair
         /\ \A j, k \in Memberships : j.user = k.user => j = k
  BY RoleAssumption DEF TypeOK, Memberships, Pair

LEMMA BootCases ==
  ASSUME NEW s \in Sessions, Wipe(s) \/ Wire(s)
  PROVE  Projects(s) \/ (pc[s] = "wipe" /\ GoesOn(s, "wire"))
  BY DEF Wipe, Wire, Projects, Check, GoesOn

LEMMA ProjectsType ==
  ASSUME TypeOK, NEW s \in Sessions, Projects(s)
  PROVE  TypeOK'
  <1>1. Memberships \in SUBSET Pair
    BY MembershipsType
  <1> QED BY <1>1 DEF Projects, Project, Goto, TypeOK, Steps, db

LEMMA BootType ==
  ASSUME TypeOK, NEW s \in Sessions, Wipe(s) \/ Wire(s)
  PROVE  TypeOK'
  BY BootCases, ProjectsType, GoesOnType DEF Steps

LEMMA DeleteType ==
  ASSUME TypeOK, NEW s \in Sessions,
         DeleteStatement(s) \/ LockRow(s) \/ DeleteTrigger(s)
  PROVE  TypeOK'
  <1>1. CASE DeleteStatement(s)
    BY <1>1 DEF DeleteStatement, Goto, TypeOK, Steps, db
  <1>2. CASE LockRow(s)
    BY <1>2 DEF LockRow, Goto, TypeOK, Steps, db
  <1>3. CASE DeleteTrigger(s)
    <2>1. ASSUME NEW r \in cur[s], DeleteRow(s, r)
          PROVE  TypeOK'
      BY <2>1 DEF DeleteRow, Goto, TypeOK, Steps, db
    <2> QED BY <1>3, <2>1, DeleteTriggerCases, RollbackType
  <1> QED BY <1>1, <1>2, <1>3

LEMMA DeleteUserType ==
  ASSUME TypeOK, NEW u \in Users, DeleteUser(u)
  PROVE  TypeOK'
  BY DEF DeleteUser, TypeOK

LEMMA NextType == TypeOK /\ [Next]_vars => TypeOK'
  <1> SUFFICES ASSUME TypeOK, [Next]_vars PROVE TypeOK'
    OBVIOUS
  <1>1. ASSUME NEW s \in Sessions, Begin(s) PROVE TypeOK'
    BY <1>1, BeginType
  <1>2. ASSUME NEW s \in Sessions, Step(s) PROVE TypeOK'
    BY <1>2, ReadsGoOn, RollbackType, GoesOnType, BootType, PlaceType, DeleteType, CommitType
    DEF Step, Reads
  <1>3. ASSUME NEW s \in Sessions, Crash(s) PROVE TypeOK'
    BY <1>3, RollbackType DEF Crash
  <1>4. ASSUME NEW u \in Users, DeleteUser(u) PROVE TypeOK'
    BY <1>4, DeleteUserType
  <1>5. CASE UNCHANGED vars
    BY <1>5 DEF vars, TypeOK
  <1> QED BY <1>1, <1>2, <1>3, <1>4, <1>5 DEF Next

(* Every reachable state is well typed, and no path through a request      *)
(* leaves a lock or a pending write behind.                                *)
THEOREM TypeCorrect == Spec => []TypeOK
  BY InitType, NextType, PTL DEF Spec

----------------------------------------------------------------------------
(* The kinds of step, by what they do to rows and locks. *)
Moves(s) == \E l \in Steps \ {"idle"} :
  /\ GoesOn(s, l)
  /\ pc[s] \in DeleteSteps => l \in DeleteSteps
  /\ pc[s] \in InsertSteps => l \in InsertSteps \ {"place"}
Starts(s) == \E r \in Request, l \in Steps, w \in SUBSET Pair :
  Start(s, r, l, w) /\ l \notin DeleteSteps
Skips(s) == pc[s] = "place" /\ \E k \in NextPair(s) : SkipKey(s, k)
Inserts(s) == pc[s] = "place" /\ Free(s) /\ \E k \in NextPair(s) : PlaceRow(s, k)
Deletes(s) == pc[s] = "trigger" /\ Free(s) /\ \E r \in cur[s] :
  DeleteRow(s, r) /\ (r.role = OwnerRole => OtherOwnerLeft(s, r))

LEMMA StartKinds ==
  ASSUME TypeOK, NEW s \in Sessions, Begin(s)
  PROVE  Starts(s)
  <1>1. CASE BeginGrant(s)
    BY <1>1, RoleAssumption DEF BeginGrant, Starts, Request, Steps, Pair, DeleteSteps
  <1>2. CASE BeginRevoke(s)
    BY <1>2 DEF BeginRevoke, Starts, Request, Steps, Pair, DeleteSteps, TypeOK
  <1>3. CASE BeginRemove(s)
    BY <1>3, RoleAssumption DEF BeginRemove, Starts, Request, Steps, Pair, DeleteSteps
  <1>4. CASE BeginAccept(s)
    BY <1>4, RoleAssumption DEF BeginAccept, Starts, Request, Steps, Pair, DeleteSteps
  <1>5. CASE BeginBoot(s)
    <2> PICK w \in BOOLEAN : Start(s, [op |-> "boot", wires |-> w], "wipe", {})
      BY <1>5 DEF BeginBoot
    <2> QED BY DEF Starts, Request, Steps, DeleteSteps
  <1> QED BY <1>1, <1>2, <1>3, <1>4, <1>5 DEF Begin

LEMMA StepKinds ==
  ASSUME NEW s \in Sessions, Step(s)
  PROVE  \/ Rollback(s) \/ Moves(s) \/ Projects(s) \/ Skips(s) \/ Inserts(s)
         \/ DeleteStatement(s) \/ LockRow(s) \/ Deletes(s) \/ Commit(s)
  <1>1. CASE Reads(s)
    BY <1>1, ReadsGoOn DEF Moves
  <1>2. CASE Place(s)
    <2> PICK k \in NextPair(s) : PlaceRow(s, k) \/ Conflict(s, k)
      BY <1>2 DEF Place
    <2>1. GoesOn(s, "fetch") => Moves(s)
      BY <1>2 DEF Moves, Place, Steps, DeleteSteps, InsertSteps
    <2> QED BY <1>2, <2>1, ConflictCases DEF Place, Inserts, Skips
  <1>3. CASE DeleteTrigger(s)
    BY <1>3 DEF DeleteTrigger, Deletes
  <1>4. CASE Wipe(s) \/ Wire(s)
    <2>1. pc[s] = "wipe" /\ GoesOn(s, "wire") => Moves(s)
      BY DEF Moves, Steps, DeleteSteps, InsertSteps
    <2> QED BY <1>4, <2>1, BootCases
  <1> QED BY <1>1, <1>2, <1>3, <1>4 DEF Step, Reads

----------------------------------------------------------------------------
(* The owner floor *)

LEMMA InitFloor == Init => FloorInv
  <1> SUFFICES ASSUME Init PROVE FloorInv
    OBVIOUS
  <1>1. NewRow(FirstId, [user |-> Founder, role |-> OwnerRole]) \in OwnerRows
    BY DEF Init, OwnerRows, NewRow
  <1>2. PendingShape
    BY DEF Init, PendingShape
  <1>3. \A s \in Sessions : ~HoldsRoleLock(s)
    BY DEF Init, HoldsRoleLock
  <1> QED BY <1>1, <1>2, <1>3 DEF FloorInv, OneRemover, OwnerSpared, OwnerFloor

(* Steps that touch no row and no lock keep it. *)
LEMMA QuietFloor ==
  ASSUME FloorInv, UNCHANGED <<grants, lostOwner, del>>
  PROVE  (OneRemover /\ OwnerSpared /\ OwnerFloor)'
  BY DEF FloorInv, OneRemover, OwnerSpared, OwnerFloor, HoldsRoleLock, OwnerRows

LEMMA RollbackFloor ==
  ASSUME TypeOK, FloorInv, NEW s \in Sessions, Rollback(s)
  PROVE  FloorInv'
  <1> USE DEF FloorInv, Rollback, Finish, db, TypeOK
  <1>1. PendingShape'
    BY DEF PendingShape, DeleteSteps, InsertSteps
  <1>2. \A t \in Sessions : HoldsRoleLock(t)' => HoldsRoleLock(t) /\ del'[t] = del[t]
    BY DEF HoldsRoleLock
  <1>3. OneRemover'
    BY <1>2 DEF OneRemover
  <1>4. OwnerSpared' /\ OwnerFloor'
    BY <1>2 DEF OwnerSpared, OwnerFloor, OwnerRows
  <1> QED BY <1>1, <1>3, <1>4

LEMMA LocalFloor ==
  ASSUME TypeOK, FloorInv, NEW s \in Sessions,
         \/ Starts(s) \/ Moves(s) \/ Projects(s) \/ Skips(s) \/ Inserts(s)
         \/ DeleteStatement(s) \/ LockRow(s)
  PROVE  FloorInv'
  <1>1. UNCHANGED <<grants, lostOwner, del>>
    BY DEF Starts, Start, Moves, GoesOn, Projects, Project, Skips, SkipKey, Inserts, PlaceRow,
           DeleteStatement, LockRow, db
  <1>2. PendingShape'
    <2> USE DEF FloorInv, PendingShape, TypeOK
    <2>1. CASE Starts(s)
      BY <2>1 DEF Starts, Start, Goto
    <2>2. CASE Moves(s)
      BY <2>2 DEF Moves, GoesOn, Goto
    <2>3. CASE Skips(s)
      BY <2>3 DEF Skips, SkipKey
    <2>4. CASE Inserts(s)
      BY <2>4 DEF Inserts, PlaceRow, DeleteSteps, InsertSteps
    <2>5. CASE DeleteStatement(s)
      BY <2>5 DEF DeleteStatement, Goto, DeleteSteps, InsertSteps
    <2>6. CASE LockRow(s)
      BY <2>6 DEF LockRow, NextRow, Goto, DeleteSteps, InsertSteps
    <2>7. CASE Projects(s)
      <3>1. ins[s] = {} /\ del[s] \cup cur[s] \cup todo[s] = {}
        BY <2>7 DEF Projects, DeleteSteps, InsertSteps
      <3>2. ins' = ins /\ del' = del /\ cur' = cur /\ todo' = todo /\ \A t \in Others(s) : pc'[t] = pc[t]
        BY <2>7 DEF Projects, Project, Goto, Others
      <3>3. ASSUME NEW t \in Sessions
            PROVE  /\ pc'[t] \notin DeleteSteps => del[t] \cup cur[t] \cup todo[t] = {}
                   /\ pc'[t] \notin InsertSteps => ins[t] = {}
        BY <3>1, <3>2 DEF Others
      <3>4. ASSUME NEW t \in Sessions
            PROVE  /\ ins[t] = {} \/ del[t] \cup cur[t] \cup todo[t] = {}
                   /\ \A r, q \in del[t] \cup cur[t] \cup todo[t] : r.user = q.user
        OBVIOUS
      <3> HIDE DEF FloorInv, TypeOK
      <3> QED BY <3>2, <3>3, <3>4 DEF PendingShape
    <2> QED BY <2>1, <2>2, <2>3, <2>4, <2>5, <2>6, <2>7
  <1> QED BY <1>1, <1>2, QuietFloor DEF FloorInv

(* The trigger: the lock on the owner role row makes the count exclusive. *)
LEMMA DeleteFloor ==
  ASSUME TypeOK, FloorInv, NEW s \in Sessions, Deletes(s)
  PROVE  FloorInv'
  <1> PICK r \in cur[s] :
        /\ pc[s] = "trigger" /\ DeleteRow(s, r) /\ Free(s)
        /\ r.role = OwnerRole => OtherOwnerLeft(s, r)
    BY DEF Deletes
  <1> r.role = OwnerRole => \A t \in Others(s) : ~HoldsRoleLock(t)
    BY DEF Free, WaitsFor, RoleLocked, AtFloor
  <1> USE DEF FloorInv, TypeOK, DeleteRow, Goto, db
  <1>1. PendingShape'
    BY DEF PendingShape, DeleteSteps, InsertSteps
  <1>2. /\ \A t \in Others(s) : HoldsRoleLock(t)' = HoldsRoleLock(t) /\ del'[t] = del[t]
        /\ del'[s] = del[s] \cup {r}
        /\ HoldsRoleLock(s)' = (HoldsRoleLock(s) \/ r.role = OwnerRole)
    BY DEF HoldsRoleLock, Others
  <1>3. OneRemover'
    BY ZenonT(30), <1>2 DEF OneRemover, Others
  <1>4. ASSUME NEW t \in Sessions, HoldsRoleLock(t)', ~lostOwner'
        PROVE  (OwnerRows \ del[t])' # {}
    <2>1. CASE t = s /\ r.role = OwnerRole
      BY <2>1, <1>2 DEF OtherOwnerLeft, OwnerRows
    <2>2. CASE t = s /\ r.role # OwnerRole
      BY <2>2, <1>2, <1>4 DEF OwnerSpared, OwnerRows
    <2>3. CASE t # s
      BY <2>3, <1>2, <1>4 DEF OwnerSpared, OwnerRows, Others
    <2> QED BY <2>1, <2>2, <2>3
  <1>5. OwnerSpared' /\ OwnerFloor'
    BY <1>4 DEF OwnerSpared, OwnerFloor, OwnerRows
  <1> QED BY <1>1, <1>3, <1>5

(* A commit that deletes owner rows spares one; any other keeps them all. *)
LEMMA CommitFloor ==
  ASSUME TypeOK, FloorInv, NEW s \in Sessions, Commit(s)
  PROVE  FloorInv'
  <1> USE DEF FloorInv, TypeOK, Commit, Finish
  <1>1. PendingShape'
    BY DEF PendingShape, DeleteSteps, InsertSteps
  <1>2. \A t \in Sessions : HoldsRoleLock(t)' => HoldsRoleLock(t) /\ del'[t] = del[t] /\ t # s
    BY DEF HoldsRoleLock
  <1>3. OneRemover'
    BY <1>2 DEF OneRemover
  <1>4. ~HoldsRoleLock(s) => OwnerRows \subseteq OwnerRows'
    BY DEF HoldsRoleLock, OwnerRows
  <1>5. OwnerFloor'
    BY <1>4 DEF OwnerFloor, OwnerSpared, OwnerRows
  <1>6. OwnerSpared'
    BY <1>2, <1>4 DEF OwnerSpared, OneRemover
  <1> QED BY <1>1, <1>3, <1>5, <1>6

LEMMA DeleteUserFloor ==
  ASSUME TypeOK, FloorInv, NEW u \in Users, DeleteUser(u)
  PROVE  FloorInv'
  <1> USE DEF FloorInv, DeleteUser
  <1>1. PendingShape'
    BY DEF PendingShape
  <1>2. OneRemover'
    BY DEF OneRemover, HoldsRoleLock
  <1>3. ~lostOwner' => OwnerRows' = OwnerRows
    BY DEF IsOwner, OwnerRows
  <1>4. OwnerSpared' /\ OwnerFloor'
    BY <1>3 DEF OwnerSpared, OwnerFloor, HoldsRoleLock
  <1> QED BY <1>1, <1>2, <1>4

LEMMA NextFloor == TypeOK /\ FloorInv /\ [Next]_vars => FloorInv'
  <1> SUFFICES ASSUME TypeOK, FloorInv, [Next]_vars PROVE FloorInv'
    OBVIOUS
  <1>1. ASSUME NEW s \in Sessions, Begin(s) \/ Step(s) \/ Crash(s) PROVE FloorInv'
    BY <1>1, StartKinds, StepKinds, LocalFloor, RollbackFloor, DeleteFloor, CommitFloor
    DEF Crash
  <1>2. ASSUME NEW u \in Users, DeleteUser(u) PROVE FloorInv'
    BY <1>2, DeleteUserFloor
  <1>3. CASE UNCHANGED vars
    <2>1. PendingShape'
      BY <1>3 DEF vars, FloorInv, PendingShape
    <2> QED BY <1>3, <2>1, QuietFloor DEF vars, FloorInv
  <1> QED BY <1>1, <1>2, <1>3 DEF Next

(* What the lock on the owner rows keeps true while requests are under     *)
(* way: who deletes an owner row holds the lock, has counted the owners,   *)
(* and leaves one that nobody else is about to delete.                     *)
THEOREM FloorInvHolds == Spec => []FloorInv
  BY InitFloor, NextFloor, TypeCorrect, PTL DEF Spec

(* No interleaving of the services leaves a workspace without an owner,    *)
(* whatever the number of users, roles and concurrent requests.            *)
THEOREM OwnerFloorHolds == Spec => []OwnerFloor
  <1>1. FloorInv => OwnerFloor
    BY DEF FloorInv
  <1> QED BY <1>1, FloorInvHolds, PTL

----------------------------------------------------------------------------
(* One row for each user and role *)

LEMMA InitKeys == Init => KeysInv
  BY DEF Init, KeysInv, UniqueGrants, PendingKeys, SameKey, NewRow

LEMMA RollbackKeys ==
  ASSUME TypeOK, KeysInv, NEW s \in Sessions, Rollback(s)
  PROVE  KeysInv'
  BY DEF KeysInv, UniqueGrants, PendingKeys, Others, Rollback, Finish, db, TypeOK

(* A session's key set matters only while its INSERT runs. *)
LEMMA LocalKeys ==
  ASSUME TypeOK, PendingShape, KeysInv, NEW s \in Sessions,
         \/ Starts(s) \/ Moves(s) \/ Projects(s) \/ Skips(s) \/ Deletes(s)
         \/ DeleteStatement(s) \/ LockRow(s)
  PROVE  KeysInv'
  <1>1. UNCHANGED <<grants, ins>>
    BY DEF Starts, Start, Moves, GoesOn, Projects, Project, Skips, SkipKey, Deletes, DeleteRow,
           DeleteStatement, LockRow, db
  <1>2. ASSUME NEW t \in Sessions, pc'[t] = "place", ins[t] # {}
        PROVE  pc[t] = "place" /\ want'[t] \subseteq want[t]
    <2>1. CASE Starts(s)
      <3>1. PICK r \in Request, l \in Steps, w \in SUBSET Pair : Start(s, r, l, w)
        BY <2>1 DEF Starts
      <3>2. ins[s] = {}
        BY <3>1 DEF Start, PendingShape, InsertSteps
      <3>3. t # s
        BY <1>2, <3>2
      <3> QED BY <1>2, <3>1, <3>3 DEF Start, Goto, TypeOK
    <2>2. CASE Moves(s)
      BY <1>2, <2>2 DEF Moves, GoesOn, Goto, PendingShape, TypeOK, InsertSteps
    <2>3. CASE Skips(s)
      BY <1>2, <2>3 DEF Skips, SkipKey, TypeOK
    <2>4. CASE Deletes(s) \/ DeleteStatement(s) \/ LockRow(s)
      BY <1>2, <2>4 DEF Deletes, DeleteRow, DeleteStatement, LockRow, Goto, TypeOK
    <2>5. CASE Projects(s)
      <3>1. t # s
        BY <1>2, <2>5 DEF Projects, PendingShape, InsertSteps
      <3> QED BY <1>2, <2>5, <3>1 DEF Projects, Project, Goto, TypeOK
    <2> QED BY <2>1, <2>2, <2>3, <2>4, <2>5
  <1> QED BY <1>1, <1>2 DEF KeysInv, UniqueGrants, PendingKeys

LEMMA InsertKeys ==
  ASSUME TypeOK, KeysInv, NEW s \in Sessions, Inserts(s)
  PROVE  KeysInv'
  <1> PICK k \in NextPair(s) : pc[s] = "place" /\ PlaceRow(s, k)
    BY DEF Inserts
  <1> k \in want[s] /\ \A t \in Others(s) : ~KeyTaken(t, k)
    BY DEF Inserts, Free, WaitsFor, NextPair, PlaceRow
  <1> PICK i \in Ids : ins' = [ins EXCEPT ![s] = @ \cup {NewRow(i, k)}]
    BY DEF PlaceRow
  <1> DEFINE n == NewRow(i, k)
  <1>1. SameKey(n, k) /\ k \in Pair
    BY DEF SameKey, NewRow, TypeOK
  <1>2. /\ \A g \in grants : ~SameKey(g, k)
        /\ \A t \in Others(s) : \A r \in ins[t] : ~SameKey(r, k)
        /\ \A r \in ins[s] : ~SameKey(r, k)
        /\ \A j \in want'[s] : j \in want[s] /\ j # k
    BY DEF PlaceRow, KeyTaken, KeysInv, PendingKeys, TypeOK
  <1>3. \A j \in want'[s] : ~SameKey(n, j)
    BY <1>1, <1>2 DEF SameKey, TypeOK, Pair
  <1>4. UNCHANGED <<grants, pc>> /\ \A t \in Others(s) : want'[t] = want[t]
    BY DEF PlaceRow, db, Others, TypeOK
  <1>5. ins'[s] = ins[s] \cup {n} /\ \A t \in Others(s) : ins'[t] = ins[t]
    BY DEF TypeOK, Others
  <1>6. UniqueGrants'
    BY <1>4 DEF KeysInv, UniqueGrants
  <1> HIDE DEF n
  <1>7. ASSUME NEW t \in Sessions
        PROVE  /\ \A r \in ins'[t], g \in grants' : ~SameKey(r, g)
               /\ \A r \in ins'[t], j \in want'[t] : pc'[t] = "place" => ~SameKey(r, j)
               /\ \A r, q \in ins'[t] : SameKey(r, q) => r = q
               /\ \A v \in Others(t) : \A r \in ins'[t], q \in ins'[v] : ~SameKey(r, q)
    <2>1. CASE t = s
      <3>1. \A r \in ins'[s], g \in grants' : ~SameKey(r, g)
        BY <1>1, <1>2, <1>4, <1>5 DEF SameKey, KeysInv, PendingKeys
      <3>2. \A r \in ins'[s], j \in want'[s] : ~SameKey(r, j)
        BY <1>2, <1>3, <1>5 DEF KeysInv, PendingKeys
      <3>3. \A r, q \in ins'[s] : SameKey(r, q) => r = q
        BY <1>1, <1>2, <1>5 DEF SameKey, KeysInv, PendingKeys
      <3>4. \A v \in Others(s) : \A r \in ins'[s], q \in ins'[v] : ~SameKey(r, q)
        BY <1>1, <1>2, <1>5 DEF SameKey, KeysInv, PendingKeys
      <3> QED BY <2>1, <3>1, <3>2, <3>3, <3>4
    <2>2. CASE t # s
      BY <2>2, <1>1, <1>2, <1>4, <1>5 DEF SameKey, KeysInv, PendingKeys, Others
    <2> QED BY <2>1, <2>2
  <1> QED BY <1>6, <1>7 DEF KeysInv, PendingKeys, Others

LEMMA CommitKeys ==
  ASSUME TypeOK, KeysInv, NEW s \in Sessions, Commit(s)
  PROVE  KeysInv'
  <1>1. /\ grants' = (grants \ del[s]) \cup ins[s]
        /\ ins'[s] = {} /\ \A t \in Others(s) : ins'[t] = ins[t]
        /\ pc'[s] = "idle" /\ \A t \in Others(s) : pc'[t] = pc[t] /\ want'[t] = want[t]
    BY DEF Commit, Finish, TypeOK, Others
  <1>2. UniqueGrants'
    BY <1>1 DEF KeysInv, UniqueGrants, PendingKeys, SameKey
  <1>3. PendingKeys'
    BY <1>1 DEF KeysInv, PendingKeys, Others, SameKey
  <1> QED BY <1>2, <1>3 DEF KeysInv

LEMMA NextKeys == TypeOK /\ FloorInv /\ KeysInv /\ [Next]_vars => KeysInv'
  <1> SUFFICES ASSUME TypeOK, FloorInv, KeysInv, [Next]_vars PROVE KeysInv'
    OBVIOUS
  <1> PendingShape
    BY DEF FloorInv
  <1>1. ASSUME NEW s \in Sessions, Begin(s) \/ Step(s) \/ Crash(s) PROVE KeysInv'
    BY <1>1, StartKinds, StepKinds, LocalKeys, RollbackKeys, InsertKeys, CommitKeys
    DEF Crash
  <1>2. ASSUME NEW u \in Users, DeleteUser(u) PROVE KeysInv'
    BY <1>2 DEF DeleteUser, KeysInv, UniqueGrants, PendingKeys
  <1>3. CASE UNCHANGED vars
    BY <1>3 DEF vars, KeysInv, UniqueGrants, PendingKeys
  <1> QED BY <1>1, <1>2, <1>3 DEF Next

(* The unique key, for what is committed and what is pending: no insert    *)
(* under way, whichever service makes it, is of a row that is there.       *)
THEOREM KeysInvHolds == Spec => []KeysInv
  BY InitKeys, NextKeys, FloorInvHolds, TypeCorrect, PTL DEF Spec

(* Two rows never give one user the same role twice, so that revoking the  *)
(* row takes the role away.                                                *)
THEOREM GrantsAreUnique == Spec => []UniqueGrants
  <1>1. KeysInv => UniqueGrants
    BY DEF KeysInv
  <1> QED BY <1>1, KeysInvHolds, PTL

----------------------------------------------------------------------------
(* The transactions implement OwnerRegistry *)

OwnerSet == {g.user : g \in OwnerRows}

LEMMA InitRegistry == Init => Registry!Init
  <1> SUFFICES ASSUME Init PROVE Registry!Init
    OBVIOUS
  <1>1. OwnerRows = {NewRow(FirstId, [user |-> u, role |-> OwnerRole]) :
                       u \in {Founder} \cup CoOwners}
    BY DEF Init, OwnerRows, NewRow
  <1>2. {g.user : g \in OwnerRows} = {Founder} \cup CoOwners
    <2>1. \A u : u \in {Founder} \cup CoOwners => \E g \in OwnerRows : g.user = u
      <3> SUFFICES ASSUME NEW u \in {Founder} \cup CoOwners
                   PROVE  \E g \in OwnerRows : g.user = u
        OBVIOUS
      <3>1. NewRow(FirstId, [user |-> u, role |-> OwnerRole]) \in OwnerRows
        BY <1>1
      <3>2. NewRow(FirstId, [user |-> u, role |-> OwnerRole]).user = u
        BY DEF NewRow
      <3> QED BY <3>1, <3>2
    <2>2. \A g \in OwnerRows : g.user \in {Founder} \cup CoOwners
      BY <1>1 DEF NewRow
    <2> QED BY <2>1, <2>2
  <1> QED BY <1>2 DEF Init, Registry!Init

LEMMA CommitRegistry ==
  ASSUME TypeOK, FloorInv, NEW s \in Sessions, Commit(s)
  PROVE  [Registry!Next]_<<OwnerSet, lostOwner>>
  <1>1. grants' = (grants \ del[s]) \cup ins[s] /\ lostOwner' = lostOwner
    BY DEF Commit
  <1>2. CASE del[s] = {}
    <2> DEFINE new == {r.user : r \in {q \in ins[s] : q.role = OwnerRole}}
    <2>1. OwnerSet' = OwnerSet \cup new
      BY <1>1, <1>2 DEF OwnerSet, OwnerRows
    <2>2. new \in SUBSET Users
      BY DEF TypeOK, Row
    <2> HIDE DEF new
    <2> QED BY <1>1, <2>1, <2>2 DEF OwnerSet, Registry!Next, Registry!Appoint
  <1>3. CASE del[s] # {}
    <2>1. ins[s] = {} /\ \A r, q \in del[s] : r.user = q.user
      BY <1>3 DEF FloorInv, PendingShape
    <2>2. PICK q \in del[s] : TRUE
      BY <1>3
    <2>3. q.user \in Users /\ \A r \in del[s] : r.user = q.user
      BY <2>1 DEF TypeOK, Row
    <2>4. CASE ~HoldsRoleLock(s) \/ q.user \in OwnerSet'
      <3>1. OwnerSet' = OwnerSet
        BY <1>1, <2>1, <2>3, <2>4 DEF HoldsRoleLock, OwnerSet, OwnerRows
      <3> QED BY <3>1, <1>1
    <2>5. CASE HoldsRoleLock(s) /\ q.user \notin OwnerSet'
      <3>1. OwnerSet' = OwnerSet \ {q.user}
        BY <1>1, <2>1, <2>3, <2>5 DEF OwnerSet, OwnerRows
      <3>2. ~lostOwner => OwnerSet' # {}
        BY <1>1, <2>1, <2>5 DEF FloorInv, OwnerSpared, OwnerSet, OwnerRows
      <3> QED BY <1>1, <2>3, <3>1, <3>2 DEF OwnerSet, Registry!Next, Registry!Dismiss
    <2> QED BY <2>4, <2>5
  <1> QED BY <1>2, <1>3

LEMMA NextRegistry ==
  TypeOK /\ FloorInv /\ [Next]_vars => [Registry!Next]_<<OwnerSet, lostOwner>>
  <1> SUFFICES ASSUME TypeOK, FloorInv, [Next]_vars
               PROVE  [Registry!Next]_<<OwnerSet, lostOwner>>
    OBVIOUS
  <1>1. UNCHANGED <<grants, lostOwner>> => UNCHANGED <<OwnerSet, lostOwner>>
    BY DEF OwnerSet, OwnerRows
  <1>2. ASSUME NEW s \in Sessions, Begin(s) \/ Step(s) \/ Crash(s)
        PROVE  Commit(s) \/ UNCHANGED <<grants, lostOwner>>
    BY <1>2, StartKinds, StepKinds
    DEF Crash, Rollback, Starts, Start, Moves, GoesOn, Projects, Project, Skips, SkipKey, Inserts, PlaceRow,
        Deletes, DeleteRow, DeleteStatement, LockRow, db
  <1>3. ASSUME NEW u \in Users, DeleteUser(u)
        PROVE  Registry!Vanish(u)
    BY <1>3 DEF DeleteUser, OwnerSet, OwnerRows, IsOwner, Registry!Vanish
  <1>4. CASE UNCHANGED vars
    BY <1>1, <1>4 DEF vars
  <1> QED BY <1>1, <1>2, <1>3, <1>4, CommitRegistry DEF Next, Registry!Next, OwnerSet

(* Concurrent transactions change the set of owners as if each took effect *)
(* at once: one owner fewer at a time, and never the last.                 *)
THEOREM RegistryImplemented == Spec => ImplementsRegistry
  <1>1. Init => Registry!Init
    BY InitRegistry
  <1>2. TypeOK /\ FloorInv /\ [Next]_vars
          => [Registry!Next]_<<{g.user : g \in OwnerRows}, lostOwner>>
    BY NextRegistry DEF OwnerSet
  <1> QED BY <1>1, <1>2, InitFloor, NextFloor, TypeCorrect, PTL
          DEF Spec, ImplementsRegistry, Registry!Spec

----------------------------------------------------------------------------
(* Least and greatest numbers *)

LEMMA MinNat ==
  ASSUME NEW S, S \subseteq Nat, S # {}
  PROVE  \E n \in S : \A k \in S : n <= k
  <1> DEFINE R == {p \in Nat \X Nat : p[1] < p[2]}
  <1>1. IsWellFoundedOn(R, Nat)
    BY NatLessThanWellFounded DEF OpToRel
  <1> HIDE DEF R
  <1>2. PICK n \in S : \A k \in S : ~(<<k, n>> \in R)
    BY <1>1, WFMin
  <1>3. ASSUME NEW k \in S PROVE n <= k
    <2>1. ~(<<k, n>> \in {p \in Nat \X Nat : p[1] < p[2]})
      BY <1>2 DEF R
    <2>2. ~(k < n) /\ k \in Nat /\ n \in Nat
      BY <2>1
    <2> QED BY <2>2
  <1> QED BY <1>3

LEMMA MaxNat ==
  ASSUME NEW S, IsFiniteSet(S), S \subseteq Nat, S # {}
  PROVE  \E n \in S : \A k \in S : k <= n
  <1> DEFINE Up(n) == {k \in S : n <= k}
             Sizes == {Cardinality(Up(n)) : n \in S}
  <1>1. \A n \in S : IsFiniteSet(Up(n)) /\ Cardinality(Up(n)) \in Nat
    <2> TAKE n \in S
    <2>1. Up(n) \in SUBSET S
      OBVIOUS
    <2> QED BY <2>1, FS_Subset, FS_CardinalityType
  <1>2. Sizes \subseteq Nat /\ Sizes # {}
    BY <1>1
  <1>3. PICK n \in S : \A k \in S : Cardinality(Up(n)) <= Cardinality(Up(k))
    <2>1. PICK c \in Sizes : \A d \in Sizes : c <= d
      BY <1>2, MinNat
    <2> QED BY <2>1
  <1>4. ASSUME NEW k \in S, n < k PROVE FALSE
    <2>1. Up(k) \in SUBSET Up(n) /\ n \in Up(n) /\ n \notin Up(k)
      <3>1. n \in Nat /\ k \in Nat
        OBVIOUS
      <3>2. \A m \in Nat : k <= m => n <= m
        BY <1>4, <3>1
      <3>3. \A m \in S : k <= m => n <= m
        BY <3>2
      <3>4. n <= n /\ ~(k <= n)
        BY <1>4, <3>1
      <3> QED BY <3>3, <3>4
    <2> HIDE DEF Up
    <2>2. Cardinality(Up(k)) <= Cardinality(Up(n)) /\ Cardinality(Up(k)) # Cardinality(Up(n))
      BY <1>1, <2>1, FS_Subset
    <2> QED BY <1>1, <1>3, <2>2
  <1> QED BY <1>4

(* No finite set of ranks lets each thing have one of a higher rank.       *)
LEMMA NoAscent ==
  ASSUME NEW W, W # {}, NEW O, IsFiniteSet(O), O \subseteq Nat, NEW f \in [W -> O],
         \A s \in W : \E t \in W : f[s] < f[t]
  PROVE  FALSE
  <1> DEFINE S == {f[s] : s \in W}
  <1>1. S \in SUBSET O /\ S # {}
    OBVIOUS
  <1> HIDE DEF S
  <1>2. IsFiniteSet(S) /\ S \subseteq Nat
    BY <1>1, FS_Subset
  <1>3. PICK n \in S : \A k \in S : k <= n
    BY <1>1, <1>2, MaxNat
  <1>4. PICK s \in W, t \in W : n = f[s] /\ f[s] < f[t]
    BY DEF S
  <1>5. f[t] <= n /\ f[t] \in Nat /\ n \in Nat
    BY <1>2, <1>3 DEF S
  <1> QED BY <1>4, <1>5

----------------------------------------------------------------------------
(* No circle of waits *)

(* The rows a DELETE has locked are committed, locked by it alone and      *)
(* before those it has still to come to; it meets no role twice.           *)
LocksInv == \A s \in Sessions :
  /\ Locked(s) \subseteq grants
  /\ \A t \in Others(s) : Locked(s) \cap Locked(t) = {}
  /\ \A r \in Locked(s), q \in todo[s] : ScanOrder[r.role] < ScanOrder[q.role]
  /\ \A r, q \in todo[s] : r.role = q.role => r = q

(* The rows an INSERT has placed come before the pairs it has still to.    *)
PairsInv == \A s \in Sessions :
  /\ \A j, k \in want[s] : j.user = k.user => j = k
  /\ pc[s] = "place" => \A r \in ins[s], k \in want[s] : UserOrder[r.user] < UserOrder[k.user]

LEMMA InitWaits == Init => LocksInv /\ PairsInv
  BY DEF Init, LocksInv, PairsInv, Locked

LEMMA StartsWaits ==
  ASSUME TypeOK, PendingShape, LocksInv, PairsInv, NEW s \in Sessions, Begin(s)
  PROVE  LocksInv' /\ PairsInv'
  <1>1. \E r \in Request, l \in Steps, w \in SUBSET Pair :
          Start(s, r, l, w) /\ \A j, k \in w : j.user = k.user => j = k
    <2>1. PICK r \in Request, l \in Steps, w \in SUBSET Pair : Start(s, r, l, w)
      BY StartKinds DEF Starts
    <2>2. w = want'[s]
      BY <2>1 DEF Start, TypeOK
    <2>3. \A j, k \in want'[s] : j.user = k.user => j = k
      BY DEF Begin, BeginGrant, BeginRevoke, BeginRemove, BeginAccept, BeginBoot, Start, TypeOK
    <2> QED BY <2>1, <2>2, <2>3
  <1>2. PICK r \in Request, l \in Steps, w \in SUBSET Pair :
          Start(s, r, l, w) /\ \A j, k \in w : j.user = k.user => j = k
    BY <1>1
  <1>3. LocksInv'
    BY <1>2 DEF Start, LocksInv, Locked, db
  <1>4. ins[s] = {}
    BY <1>2 DEF Start, PendingShape, InsertSteps
  <1>5. PairsInv'
    BY <1>2, <1>4 DEF Start, Goto, PairsInv, TypeOK
  <1> QED BY <1>3, <1>5

LEMMA LocalWaits ==
  ASSUME TypeOK, PendingShape, LocksInv, PairsInv, NEW s \in Sessions,
         Moves(s) \/ Projects(s) \/ Skips(s) \/ Rollback(s)
  PROVE  LocksInv' /\ PairsInv'
  <1>1. CASE Moves(s)
    <2>1. LocksInv'
      BY <1>1 DEF Moves, GoesOn, LocksInv, Locked, db
    <2>2. pc'[s] = "place" => ins[s] = {}
      BY <1>1 DEF Moves, GoesOn, Goto, PendingShape, TypeOK
    <2>3. PairsInv'
      BY <1>1, <2>2 DEF Moves, GoesOn, Goto, PairsInv, TypeOK
    <2> QED BY <2>1, <2>3
  <1>2. CASE Skips(s)
    <2>1. LocksInv'
      BY <1>2 DEF Skips, SkipKey, LocksInv, Locked, db
    <2>2. PairsInv'
      BY <1>2 DEF Skips, SkipKey, PairsInv, TypeOK
    <2> QED BY <2>1, <2>2
  <1>3. CASE Rollback(s)
    <2>1. LocksInv'
      BY <1>3 DEF Rollback, Finish, LocksInv, Locked, Others, TypeOK, db
    <2>2. PairsInv'
      BY <1>3 DEF Rollback, Finish, PairsInv, TypeOK
    <2> QED BY <2>1, <2>2
  <1>4. CASE Projects(s)
    <2>1. LocksInv'
      BY <1>4 DEF Projects, Project, LocksInv, Locked, db
    <2>2. /\ ins'[s] = {} /\ want'[s] = Memberships
          /\ \A t \in Others(s) : pc'[t] = pc[t] /\ want'[t] = want[t] /\ ins'[t] = ins[t]
      BY <1>4 DEF Projects, Project, Goto, PendingShape, InsertSteps, TypeOK, Others
    <2>3. PairsInv'
      BY <2>2, MembershipsType DEF PairsInv, Others
    <2> QED BY <2>1, <2>3
  <1> QED BY <1>1, <1>2, <1>3, <1>4

(* The pair placed was the first of those to place.                        *)
LEMMA InsertWaits ==
  ASSUME TypeOK, LocksInv, PairsInv, NEW s \in Sessions, Inserts(s)
  PROVE  LocksInv' /\ PairsInv'
  <1> PICK k \in NextPair(s) : pc[s] = "place" /\ PlaceRow(s, k)
    BY DEF Inserts
  <1> PICK i \in Ids : ins' = [ins EXCEPT ![s] = @ \cup {NewRow(i, k)}]
    BY DEF PlaceRow
  <1>1. LocksInv'
    BY DEF PlaceRow, LocksInv, Locked, db
  <1>2. /\ want'[s] = want[s] \ {k} /\ UNCHANGED pc /\ ins'[s] = ins[s] \cup {NewRow(i, k)}
        /\ \A t \in Others(s) : want'[t] = want[t] /\ ins'[t] = ins[t]
    BY DEF PlaceRow, TypeOK, Others
  <1>3. k \in want[s] /\ NewRow(i, k).user = k.user
    BY DEF NextPair, NewRow
  <1>4. ASSUME NEW j \in want'[s] PROVE UserOrder[k.user] < UserOrder[j.user]
    <2>1. j \in want[s] /\ j # k /\ j.user # k.user
      BY <1>2, <1>3 DEF PairsInv
    <2>2. j.user \in Users /\ k.user \in Users
      BY <1>3, <2>1 DEF TypeOK, Pair
    <2>3. UserOrder[k.user] <= UserOrder[j.user] /\ UserOrder[k.user] # UserOrder[j.user]
      BY <2>1, <2>2, OrderAssumption DEF NextPair
    <2>4. UserOrder[k.user] \in Nat /\ UserOrder[j.user] \in Nat
      BY <2>2, OrderAssumption
    <2> QED BY <2>3, <2>4
  <1>5. \A r \in ins'[s], j \in want'[s] : UserOrder[r.user] < UserOrder[j.user]
    BY <1>2, <1>3, <1>4 DEF PairsInv
  <1>6. PairsInv'
    BY <1>2, <1>5 DEF PairsInv, Others
  <1> QED BY <1>1, <1>6

(* A DELETE by one id or of one user meets each role once.                 *)
LEMMA DeleteStatementWaits ==
  ASSUME TypeOK, PendingShape, UniqueGrants, LocksInv, PairsInv, NEW s \in Sessions,
         DeleteStatement(s)
  PROVE  LocksInv' /\ PairsInv'
  <1>1. /\ Locked(s) = {} /\ UNCHANGED <<grants, cur, del, ins, want>>
        /\ pc'[s] = "rows" /\ \A t \in Others(s) : pc'[t] = pc[t] /\ todo'[t] = todo[t]
    BY DEF DeleteStatement, Goto, PendingShape, Locked, DeleteSteps, db, TypeOK, Others
  <1>2. \A r, q \in todo'[s] : r.role = q.role => r = q
    <2>1. todo'[s] \subseteq grants /\ \A r, q \in todo'[s] : r.user = q.user
      BY DEF DeleteStatement, TypeOK
    <2> QED BY <2>1 DEF UniqueGrants, SameKey
  <1>3. LocksInv'
    BY <1>1, <1>2 DEF LocksInv, Locked, Others
  <1>4. PairsInv'
    BY <1>1 DEF PairsInv, Others
  <1> QED BY <1>3, <1>4

(* The row locked was the first of those to come to, and free.             *)
LEMMA LockRowWaits ==
  ASSUME TypeOK, LocksInv, PairsInv, NEW s \in Sessions, LockRow(s)
  PROVE  LocksInv' /\ PairsInv'
  <1> PICK r \in NextRow(s) :
        /\ todo' = [todo EXCEPT ![s] = @ \ {r}]
        /\ IF r \in grants THEN Goto(s, "trigger") /\ cur' = [cur EXCEPT ![s] = {r}]
                           ELSE UNCHANGED <<pc, cur>>
    BY DEF LockRow
  <1>1. /\ UNCHANGED <<grants, del, ins, want>> /\ pc'[s] # "place"
        /\ \A t \in Others(s) : pc'[t] = pc[t] /\ todo'[t] = todo[t] /\ cur'[t] = cur[t]
    BY DEF LockRow, Goto, db, TypeOK, Others
  <1>2. r \in todo[s] /\ r.role \in Roles /\ \A t \in Others(s) : r \notin Locked(t)
    BY DEF LockRow, Free, WaitsFor, NextRow, TypeOK, Row
  <1>3. ASSUME NEW q \in todo'[s] PROVE ScanOrder[r.role] < ScanOrder[q.role]
    <2>1. q \in todo[s] /\ q # r /\ q.role # r.role
      BY <1>2 DEF LocksInv, TypeOK
    <2>2. q.role \in Roles /\ ScanOrder[r.role] <= ScanOrder[q.role]
      BY <2>1 DEF NextRow, TypeOK, Row
    <2>3. ScanOrder[r.role] # ScanOrder[q.role]
      BY <1>2, <2>1, <2>2, OrderAssumption
    <2>4. ScanOrder[r.role] \in Nat /\ ScanOrder[q.role] \in Nat
      BY <1>2, <2>2, OrderAssumption
    <2> QED BY <2>2, <2>3, <2>4
  <1>4. Locked(s)' \subseteq Locked(s) \cup (grants \cap {r})
    BY <1>1 DEF Locked, TypeOK
  <1>5. \A t \in Others(s) : Locked(t)' = Locked(t)
    BY <1>1 DEF Locked
  <1>6. ASSUME NEW x \in Locked(s)', NEW q \in todo'[s] PROVE ScanOrder[x.role] < ScanOrder[q.role]
    <2>1. x = r \/ x \in Locked(s)
      BY <1>4
    <2>2. q \in todo[s]
      BY DEF TypeOK
    <2> QED BY <1>3, <2>1, <2>2 DEF LocksInv
  <1>7. LocksInv'
    <2>1. ASSUME NEW t \in Sessions
          PROVE  /\ Locked(t)' \subseteq grants'
                 /\ \A v \in Others(t) : Locked(t)' \cap Locked(v)' = {}
                 /\ \A x \in Locked(t)', q \in todo'[t] : ScanOrder[x.role] < ScanOrder[q.role]
                 /\ \A x, q \in todo'[t] : x.role = q.role => x = q
      <3>1. CASE t = s
        BY <1>1, <1>2, <1>4, <1>5, <1>6, <3>1 DEF LocksInv, TypeOK
      <3>2. CASE t # s
        BY <1>1, <1>2, <1>4, <1>5, <3>2 DEF LocksInv, Others
      <3> QED BY <3>1, <3>2
    <2> QED BY <2>1 DEF LocksInv, Others
  <1>8. PairsInv'
    BY <1>1 DEF PairsInv, Others
  <1> QED BY <1>7, <1>8

LEMMA DeletesWaits ==
  ASSUME TypeOK, LocksInv, PairsInv, NEW s \in Sessions, Deletes(s)
  PROVE  LocksInv' /\ PairsInv'
  <1> PICK r \in cur[s] : DeleteRow(s, r)
    BY DEF Deletes
  <1>1. /\ UNCHANGED <<grants, ins, want, todo>> /\ pc'[s] # "place"
        /\ \A t \in Others(s) : pc'[t] = pc[t] /\ Locked(t)' = Locked(t)
        /\ Locked(s)' \subseteq Locked(s)
    BY DEF DeleteRow, Goto, Locked, db, TypeOK, Others
  <1>2. LocksInv'
    BY <1>1 DEF LocksInv, Others
  <1>3. PairsInv'
    BY <1>1 DEF PairsInv, Others
  <1> QED BY <1>2, <1>3

(* A commit takes away only rows it had locked.                            *)
LEMMA CommitWaits ==
  ASSUME TypeOK, LocksInv, PairsInv, NEW s \in Sessions, Commit(s)
  PROVE  LocksInv' /\ PairsInv'
  <1>1. /\ Locked(s)' = {} /\ todo'[s] = {} /\ want'[s] = {} /\ ins'[s] = {}
        /\ grants \ Locked(s) \subseteq grants'
        /\ \A t \in Others(s) : /\ Locked(t)' = Locked(t) /\ todo'[t] = todo[t] /\ pc'[t] = pc[t]
                                /\ want'[t] = want[t] /\ ins'[t] = ins[t]
    BY DEF Commit, Finish, Locked, TypeOK, Others
  <1>2. LocksInv'
    BY <1>1 DEF LocksInv, Others
  <1>3. PairsInv'
    BY <1>1 DEF PairsInv, Others
  <1> QED BY <1>2, <1>3

LEMMA DeleteUserWaits ==
  ASSUME TypeOK, LocksInv, PairsInv, NEW u \in Users, DeleteUser(u)
  PROVE  LocksInv' /\ PairsInv'
  <1>1. /\ UNCHANGED <<pc, want, todo, cur, ins, del>>
        /\ \A t \in Sessions : \A r \in Locked(t) : r \in grants => r \in grants'
    BY DEF DeleteUser
  <1>2. LocksInv'
    BY <1>1 DEF LocksInv, Locked
  <1>3. PairsInv'
    BY <1>1 DEF PairsInv
  <1> QED BY <1>2, <1>3

LEMMA NextWaits ==
  TypeOK /\ FloorInv /\ KeysInv /\ LocksInv /\ PairsInv /\ [Next]_vars => LocksInv' /\ PairsInv'
  <1> SUFFICES ASSUME TypeOK, FloorInv, KeysInv, LocksInv, PairsInv, [Next]_vars
               PROVE  LocksInv' /\ PairsInv'
    OBVIOUS
  <1>1. PendingShape /\ UniqueGrants
    BY DEF FloorInv, KeysInv
  <1>2. ASSUME NEW s \in Sessions, Begin(s) PROVE LocksInv' /\ PairsInv'
    BY <1>1, <1>2, StartsWaits
  <1>3. ASSUME NEW s \in Sessions, Step(s) \/ Crash(s) PROVE LocksInv' /\ PairsInv'
    BY <1>1, <1>3, StepKinds, LocalWaits, InsertWaits, DeleteStatementWaits, LockRowWaits,
       DeletesWaits, CommitWaits DEF Crash
  <1>4. ASSUME NEW u \in Users, DeleteUser(u) PROVE LocksInv' /\ PairsInv'
    BY <1>4, DeleteUserWaits
  <1>5. CASE UNCHANGED vars
    BY <1>5 DEF vars, LocksInv, PairsInv, Locked
  <1> QED BY <1>2, <1>3, <1>4, <1>5 DEF Next

(* A circle without a boot that projects, or without a DELETE that waits   *)
(* for the owner role: nobody in it waits at "join" or "leave", for those  *)
(* wait for transactions that only commit; nobody at the role row waits    *)
(* for a key share in it; who holds the role row's lock waits for a row.   *)
Circle(C) ==
  /\ C \in SUBSET Sessions /\ \A s \in C : \E t \in C \ {s} : WaitsFor(s, t)
  /\ (\A s \in C : ~(Rewired(s) /\ pc[s] = "place")) \/ (\A s \in C : ~AtFloor(s))

LEMMA CirclePoints ==
  ASSUME FloorInv, NEW C, Circle(C), NEW s \in C
  PROVE  /\ pc[s] \in {"wipe", "wire", "place", "fk", "rows", "trigger"}
         /\ AtFloor(s) => \A t \in C : ~HoldsKeyShare(t)
         /\ HoldsRoleLock(s) => pc[s] = "rows"
  <1>1. \A t \in C : pc[t] \in {"wipe", "wire", "place", "fk", "join", "rows", "trigger", "leave"}
    BY DEF Circle, WaitsFor, AtFloor
  <1>2. \A t \in C : ~Joining(t) /\ ~Leaving(t)
    BY <1>1 DEF Joining, Leaving
  <1>3. \A t \in C : pc[t] \in {"wipe", "wire", "place", "fk", "rows", "trigger"}
    BY <1>1, <1>2 DEF Circle, WaitsFor, AtFloor
  <1>4. ASSUME AtFloor(s), NEW t \in C, HoldsKeyShare(t) PROVE FALSE
    <2>1. pc[t] # "place" \/ ~Rewired(t)
      BY <1>4 DEF Circle
    <2>2. pc[t] = "fk" /\ Rewired(t)
      BY <1>3, <1>4, <2>1 DEF HoldsKeyShare, Rewired
    <2>3. PICK v \in C \ {t} : WaitsFor(t, v)
      BY DEF Circle
    <2> QED BY <1>4, <2>2, <2>3 DEF WaitsFor, AtFloor
  <1>5. ASSUME HoldsRoleLock(s), pc[s] # "rows" PROVE FALSE
    <2>1. pc[s] \in DeleteSteps
      BY <1>5 DEF Circle, HoldsRoleLock, FloorInv, PendingShape
    <2>2. pc[s] = "trigger"
      BY <1>3, <1>5, <2>1 DEF DeleteSteps
    <2>3. PICK t \in C \ {s} : WaitsFor(s, t)
      BY DEF Circle
    <2>4. HoldsRoleLock(t)
      BY <1>4, <2>2, <2>3 DEF WaitsFor, RoleLocked
    <2> QED BY <1>5, <2>3, <2>4 DEF Circle, FloorInv, OneRemover
  <1> QED BY <1>3, <1>4, <1>5

(* Whose rows a DELETE is at.                                              *)
At(s, u) == \E r \in NextRow(s) : r.user = u

(* Removers of one user's rows lock them in one order: a remover waits for *)
(* one that is further on, provided no other holds the owner role's lock.  *)
LEMMA FurtherOn ==
  ASSUME TypeOK, FloorInv, KeysInv, LocksInv, NEW C, Circle(C),
         NEW u, \A h \in C : HoldsRoleLock(h) => At(h, u),
         NEW s \in C, pc[s] = "rows", At(s, u), NEW r \in NextRow(s)
  PROVE  \E t \in C : /\ pc[t] = "rows" /\ At(t, u)
                      /\ \A q \in NextRow(t) : ScanOrder[r.role] < ScanOrder[q.role]
  <1>0. C \in SUBSET Sessions /\ s \in Sessions /\ PendingShape
    BY DEF Circle, FloorInv
  <1>1. PICK t \in C \ {s} : NextRow(s) \cap Locked(t) # {}
    BY DEF Circle, WaitsFor, AtFloor
  <1>2. PICK x \in NextRow(s) : x \in Locked(t)
    BY <1>1
  <1>3. x \in todo[s] /\ r \in todo[s] /\ x.user = u
    BY <1>0, <1>2 DEF NextRow, PendingShape, At
  <1>4. ScanOrder[x.role] = ScanOrder[r.role]
    <2>1. x.role \in Roles /\ r.role \in Roles
      BY <1>0, <1>3 DEF TypeOK, Row
    <2>2. ScanOrder[x.role] <= ScanOrder[r.role] /\ ScanOrder[r.role] <= ScanOrder[x.role]
      BY <1>2, <1>3 DEF NextRow
    <2>3. ScanOrder[x.role] \in Nat /\ ScanOrder[r.role] \in Nat
      BY <2>1, OrderAssumption
    <2> QED BY <2>2, <2>3
  <1>5. pc[t] \in DeleteSteps /\ \A q \in del[t] \cup cur[t] \cup todo[t] : q.user = u
    BY <1>0, <1>1, <1>2, <1>3 DEF PendingShape, Locked
  <1>6. pc[t] \in {"rows", "trigger"}
    BY <1>1, <1>5, CirclePoints DEF DeleteSteps
  <1>7. ASSUME pc[t] = "trigger" PROVE FALSE
    <2>1. PICK h \in C \ {t} : WaitsFor(t, h)
      BY <1>1 DEF Circle
    <2>2. PICK q \in cur[t] : q.role = OwnerRole
      BY <1>7, <2>1 DEF WaitsFor, AtFloor
    <2>3. HoldsRoleLock(h)
      BY <1>1, <1>7, <2>1, CirclePoints DEF WaitsFor, RoleLocked
    <2>4. PICK p \in del[h] : p.role = OwnerRole
      BY <2>3 DEF HoldsRoleLock
    <2>5. p.user = u
      BY <1>0, <2>1, <2>3, <2>4 DEF At, NextRow, PendingShape
    <2>6. q.user = u
      BY <1>5, <2>2
    <2>7. q \in grants /\ p \in grants
      BY <1>0, <1>1, <2>1, <2>2, <2>4 DEF LocksInv, Locked
    <2>8. p = q
      BY <2>2, <2>4, <2>5, <2>6, <2>7 DEF KeysInv, UniqueGrants, SameKey
    <2>9. Locked(t) \cap Locked(h) = {}
      BY <1>0, <1>1, <2>1 DEF LocksInv, Others
    <2> QED BY <2>2, <2>4, <2>8, <2>9 DEF Locked
  <1>8. pc[t] = "rows"
    BY <1>6, <1>7
  <1>9. PICK y \in NextRow(t) : TRUE
    <2>1. PICK v \in C \ {t} : WaitsFor(t, v)
      BY <1>1 DEF Circle
    <2> QED BY <1>8, <2>1 DEF WaitsFor, AtFloor
  <1>10. At(t, u)
    BY <1>5, <1>9 DEF At, NextRow
  <1>11. \A q \in NextRow(t) : ScanOrder[r.role] < ScanOrder[q.role]
    BY <1>0, <1>1, <1>2, <1>4 DEF LocksInv, NextRow
  <1> QED BY <1>1, <1>8, <1>10, <1>11

LEMMA NobodyDeletes ==
  ASSUME TypeOK, FloorInv, KeysInv, LocksInv, NEW C, Circle(C),
         NEW u, \A h \in C : HoldsRoleLock(h) => At(h, u),
         NEW s \in C, pc[s] = "rows", At(s, u)
  PROVE  FALSE
  <1> DEFINE W == {t \in C : pc[t] = "rows" /\ At(t, u)}
             O == {ScanOrder[x] : x \in Roles}
             f == [t \in W |-> ScanOrder[(CHOOSE r \in NextRow(t) : TRUE).role]]
  <1>1. IsFiniteSet(O) /\ O \subseteq Nat
    <2>1. O \subseteq Nat
      BY OrderAssumption
    <2>2. ScanOrder \in Surjection(Roles, O)
      BY OrderAssumption DEF Surjection
    <2> HIDE DEF O
    <2> QED BY <2>1, <2>2, OrderAssumption, FS_Surjection
  <1>2. ASSUME NEW t \in W
        PROVE  f[t] \in O /\ \E v \in W : f[t] < f[v]
    <2> DEFINE r == CHOOSE q \in NextRow(t) : TRUE
    <2>1. r \in NextRow(t)
      BY DEF At
    <2>2. r.role \in Roles
      BY <2>1 DEF NextRow, TypeOK, Row, Circle
    <2>3. PICK v \in C : /\ pc[v] = "rows" /\ At(v, u)
                         /\ \A q \in NextRow(v) : ScanOrder[r.role] < ScanOrder[q.role]
      BY <2>1, FurtherOn
    <2>4. (CHOOSE q \in NextRow(v) : TRUE) \in NextRow(v)
      BY <2>3 DEF At
    <2> QED BY <2>2, <2>3, <2>4
  <1>3. W # {} /\ f \in [W -> O]
    BY <1>2
  <1> HIDE DEF W, O, f
  <1> QED BY <1>1, <1>2, <1>3, NoAscent

(* And the inserts place their pairs in one order.                         *)
LEMMA NobodyInserts ==
  ASSUME TypeOK, FloorInv, PairsInv, NEW C \in SUBSET Sessions, C # {},
         \A s \in C : pc[s] = "place" /\ \E t \in C \ {s} : WaitsFor(s, t)
  PROVE  FALSE
  <1> DEFINE O == {UserOrder[x] : x \in Users}
             f == [s \in C |-> UserOrder[(CHOOSE k \in NextPair(s) : TRUE).user]]
  <1>1. IsFiniteSet(O) /\ O \subseteq Nat
    <2>1. O \subseteq Nat
      BY OrderAssumption
    <2>2. UserOrder \in Surjection(Users, O)
      BY OrderAssumption DEF Surjection
    <2> HIDE DEF O
    <2> QED BY <2>1, <2>2, OrderAssumption, FS_Surjection
  <1>2. ASSUME NEW s \in C
        PROVE  f[s] \in O /\ \E t \in C : f[s] < f[t]
    <2> DEFINE k == CHOOSE j \in NextPair(s) : TRUE
    <2>1. PICK t \in C \ {s} : \E j \in NextPair(s) : KeyTaken(t, j)
      BY DEF WaitsFor, AtFloor
    <2>2. PICK j \in NextPair(s) : KeyTaken(t, j)
      BY <2>1
    <2>3. k \in NextPair(s) /\ s \in Sessions /\ t \in Sessions
      BY <2>2
    <2>4. j \in want[s] /\ k \in want[s] /\ j.user \in Users /\ k.user \in Users
      BY <2>2, <2>3 DEF NextPair, TypeOK, Pair
    <2>5. UserOrder[j.user] = UserOrder[k.user]
      <3>1. UserOrder[j.user] <= UserOrder[k.user] /\ UserOrder[k.user] <= UserOrder[j.user]
        BY <2>2, <2>3, <2>4 DEF NextPair
      <3>2. UserOrder[j.user] \in Nat /\ UserOrder[k.user] \in Nat
        BY <2>4, OrderAssumption
      <3> QED BY <3>1, <3>2
    <2>6. PICK r \in ins[t] : r.user = j.user
      <3>1. del[t] = {}
        BY <2>3, <2>1 DEF FloorInv, PendingShape, DeleteSteps
      <3> QED BY <2>2, <3>1 DEF KeyTaken, SameKey
    <2>7. PICK v \in C \ {t} : WaitsFor(t, v)
      BY <2>1
    <2>8. (CHOOSE i \in NextPair(t) : TRUE) \in want[t]
      BY <2>1, <2>7 DEF WaitsFor, AtFloor, NextPair
    <2>9. UserOrder[j.user] < UserOrder[(CHOOSE i \in NextPair(t) : TRUE).user]
      BY <2>1, <2>3, <2>6, <2>8 DEF PairsInv
    <2> QED BY <2>1, <2>4, <2>5, <2>9
  <1>3. f \in [C -> O]
    BY <1>2
  <1> HIDE DEF O, f
  <1> QED BY <1>1, <1>2, <1>3, NoAscent

LEMMA WaitsHaveNoCircle ==
  TypeOK /\ FloorInv /\ KeysInv /\ LocksInv /\ PairsInv => NoCircularWait
  <1> SUFFICES ASSUME TypeOK, FloorInv, KeysInv, LocksInv, PairsInv,
                      NEW C \in SUBSET Sessions, Stuck(C),
                      ~((\E s \in C : Rewired(s) /\ pc[s] = "place") /\ (\E s \in C : AtFloor(s)))
               PROVE  FALSE
    BY DEF NoCircularWait
  <1>1. Circle(C) /\ C # {}
    BY DEF Circle, Stuck
  <1>2. ASSUME NEW s \in C, pc[s] = "rows"
        PROVE  \E u : At(s, u)
    BY <1>1, <1>2 DEF Circle, WaitsFor, AtFloor, At
  <1>3. \A h \in C : ~HoldsRoleLock(h)
    <2> SUFFICES ASSUME NEW h \in C, HoldsRoleLock(h) PROVE FALSE
      OBVIOUS
    <2>1. pc[h] = "rows"
      BY <1>1, CirclePoints
    <2>2. PICK u : At(h, u)
      BY <1>2, <2>1
    <2>3. \A g \in C : HoldsRoleLock(g) => At(g, u)
      BY <2>2 DEF FloorInv, OneRemover
    <2> QED BY <1>1, <2>1, <2>2, <2>3, NobodyDeletes
  <1>4. \A s \in C : pc[s] # "rows"
    BY <1>1, <1>2, <1>3, NobodyDeletes
  (* What is left are boots behind a boot, and inserts behind inserts.     *)
  <1>5. \A s \in C : pc[s] \in {"wipe", "place"}
    <2> SUFFICES ASSUME NEW s \in C PROVE pc[s] \in {"wipe", "place"}
      OBVIOUS
    <2>1. /\ pc[s] \in {"wipe", "wire", "place", "fk", "rows", "trigger"}
          /\ AtFloor(s) => \A t \in C : ~HoldsKeyShare(t)
      BY <1>1, CirclePoints
    <2>2. PICK t \in C \ {s} : WaitsFor(s, t)
      BY <1>1 DEF Circle
    <2> QED BY <1>3, <1>4, <2>1, <2>2 DEF WaitsFor, AtFloor, RoleLocked
  <1> DEFINE D == {s \in C : pc[s] = "place"}
  <1>6. D \in SUBSET Sessions /\ \A s \in D : pc[s] = "place"
    OBVIOUS
  <1>7. \A s \in C : \E t \in D \ {s} : WaitsFor(s, t)
    <2> SUFFICES ASSUME NEW s \in C PROVE \E t \in D \ {s} : WaitsFor(s, t)
      OBVIOUS
    <2>1. PICK t \in C \ {s} : WaitsFor(s, t)
      BY <1>1 DEF Circle
    <2>2. pc[t] # "wipe"
      <3>1. CASE pc[s] = "wipe"
        BY <2>1, <3>1 DEF WaitsFor, AtFloor, Rewiring
      <3>2. CASE pc[s] = "place"
        <4>1. \E r \in ins[t] \cup del[t] : TRUE
          BY <2>1, <3>2 DEF WaitsFor, AtFloor, KeyTaken
        <4> QED BY <4>1 DEF FloorInv, PendingShape, InsertSteps, DeleteSteps
      <3> QED BY <1>5, <3>1, <3>2
    <2> QED BY <1>5, <2>1, <2>2
  <1>8. D # {} /\ D \subseteq C
    BY <1>1, <1>7
  <1> HIDE DEF D
  <1>9. \A s \in D : pc[s] = "place" /\ \E t \in D \ {s} : WaitsFor(s, t)
    BY <1>6, <1>7, <1>8
  <1> QED BY <1>6, <1>8, <1>9, NobodyInserts

(* Whatever the number of transactions, those that wait for one another in *)
(* a circle include a boot at its projection and a DELETE at the floor's   *)
(* trigger: the services take their locks in one order.                    *)
THEOREM NoCircularWaitHolds == Spec => []NoCircularWait
  BY InitWaits, NextWaits, WaitsHaveNoCircle, InitFloor, NextFloor, InitKeys, NextKeys,
     TypeCorrect, PTL DEF Spec

(* While transactions are under way, one of them is not kept waiting by    *)
(* any other, unless a boot that projects and a DELETE at the floor's      *)
(* trigger are among them; where the pool and Postgres serve it, the       *)
(* services go on.                                                         *)
THEOREM SomebodyProceeds ==
  Spec => []((\E s \in Sessions : pc[s] # "idle")
               => \/ \E s \in Sessions : pc[s] # "idle" /\ Free(s)
                  \/ \E b, d \in Sessions : Rewired(b) /\ pc[b] = "place" /\ AtFloor(d))
  <1> DEFINE Busy == {s \in Sessions : pc[s] # "idle"}
             Meet == \E b, d \in Sessions : Rewired(b) /\ pc[b] = "place" /\ AtFloor(d)
  <1>1. ASSUME FloorInv, NoCircularWait, Busy # {}, ~Meet
        PROVE  \E s \in Busy : Free(s)
    <2>1. PICK s \in Busy : \A t \in Busy \ {s} : ~WaitsFor(s, t)
      <3>1. ~Stuck(Busy)
        BY <1>1 DEF NoCircularWait
      <3> QED BY <1>1, <3>1 DEF Stuck
    <2>2. ASSUME NEW t \in Sessions \ Busy PROVE ~WaitsFor(s, t)
      <3>1. pc[t] = "idle" /\ Locked(t) = {} /\ ins[t] = {}
        BY <1>1, <2>2 DEF FloorInv, PendingShape, DeleteSteps, InsertSteps, Locked
      <3>2. /\ ~RoleLocked(t) /\ ~HoldsRoleLock(t) /\ ~Rewiring(t)
            /\ ~Joining(t) /\ ~Leaving(t)
        BY <3>1 DEF RoleLocked, HoldsRoleLock, HoldsKeyShare, Rewiring, Rewired,
                    Joining, Leaving, Locked
      <3> QED BY <3>1, <3>2 DEF WaitsFor, KeyTaken, Locked
    <2> QED BY <2>1, <2>2 DEF Free, Others
  <1>2. FloorInv /\ NoCircularWait
          => ((\E s \in Sessions : pc[s] # "idle")
                => (\E s \in Sessions : pc[s] # "idle" /\ Free(s)) \/ Meet)
    BY <1>1
  <1> QED BY <1>2, FloorInvHolds, NoCircularWaitHolds, PTL
=============================================================================
