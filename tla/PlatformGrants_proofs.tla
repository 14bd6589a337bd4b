------------------------ MODULE PlatformGrants_proofs ------------------------
(***************************************************************************)
(* For every set of users, sessions, roles and grants: the types of        *)
(* PlatformGrants, the one super admin, that rows have accounts, that a    *)
(* provisioned admin holds the role, and that no actor hands out what      *)
(* nobody holds.                                                           *)
(***************************************************************************)
EXTENDS PlatformGrants, TLAPS

(* Which requests are at which statement, and what they hold there. *)
Doing(s, P, O) == pc[s] \in P => req[s].op \in O
Shape ==
  \A s \in Sessions :
    /\ pc[s] \notin {"place", "enroll", "commit"} => ins[s] = {}
    /\ pc[s] # "commit" => del[s] = {}
    /\ ins[s] # {} => del[s] = {}
    /\ Doing(s, {"idle"}, {"none"})
    /\ Doing(s, {"load", "count", "missing", "existing"}, {"grant"})
    /\ Doing(s, {"trigger"}, {"grant", "provision"})
    /\ Doing(s, {"find", "delete"}, {"revoke"})
    /\ Doing(s, {"call"}, {"provision", "bootstrap"})
    /\ Doing(s, {"preselect"}, {"provision", "accept", "bootstrap"})
    /\ Doing(s, {"enroll"}, {"provision", "accept"})
    /\ Doing(s, {"purge", "enlist"}, {"bootstrap"})
    /\ Doing(s, {"place"}, {"grant", "provision", "accept", "boot", "bootstrap"})

(* What a request inserts is what it was asked for. *)
WantInv ==
  \A s \in Sessions :
    /\ req[s].op \in {"grant", "provision", "accept"} =>
         /\ \A k \in want[s] : k.role = req[s].role
         /\ \A r \in ins[s] : r.role = req[s].role
    /\ req[s].op \in {"grant", "provision", "accept", "bootstrap"} =>
         /\ \A k \in want[s] : k.user = req[s].user
         /\ \A r \in ins[s] : r.user = req[s].user
    /\ req[s].op = "revoke" => want[s] = {}

(* The index: a pending super_admin is alone, and none is committed. *)
SuperInv ==
  /\ OneSuperAdmin
  /\ \A s \in Sessions : \A r \in ins[s] : r.role = Super => SuperRows = {}
  /\ \A s, t \in Sessions : \A r \in ins[s], q \in ins[t] :
       r.role = Super /\ q.role = Super => s = t /\ r = q

BaseInv == TypeOK /\ Shape /\ WantInv /\ SuperInv

(* A session that has created the account of a person is the only one that *)
(* has, and no script read that person as a super admin.  An admin being   *)
(* provisioned has no grant before he is staff: until then only an accept  *)
(* of his own has placed or may place one, and it makes him staff when it  *)
(* commits, after which the provisioning fails.                            *)
Exists(u) == account[u] \in {"live", "gone"}
After(s) == /\ pc[s] \in {"preselect", "enlist", "trigger", "place", "enroll", "commit"}
            /\ req[s].op \in {"provision", "bootstrap"}
Own(s) == After(s) /\ req[s].op = "provision"
Hands(s) == IF pc[s] \in {"idle", "load", "find", "delete", "call", "purge"} THEN {}
            ELSE {k.user : k \in want[s]} \cup {r.user : r \in ins[s]}
AccountInv ==
  /\ RowsHaveAccounts
  /\ \A s \in Sessions :
       /\ \A r \in ins[s] : account[r.user] = "live"
       /\ \A u \in Enrolling(s) : account[u] = "live"
       /\ req[s].op = "bootstrap" => \A u \in req[s].old : Exists(u)
       /\ After(s) => Exists(req[s].user)
       /\ \A u \in Hands(s) : Exists(u)
OwnInv ==
  /\ \A s, t \in Sessions :
       After(s) /\ After(t) /\ req[s].user = req[t].user => s = t
  /\ \A s \in Sessions : pc[s] = "call" /\ req[s].op = "provision" => want[s] # {}
  /\ \A s \in Sessions : Own(s) =>
       /\ staff[req[s].user] \in {Nobody, Admin}
       /\ staff[req[s].user] = Nobody => \A g \in grants : g.user # req[s].user
       /\ \A t \in Sessions : req[t].op = "bootstrap" => req[s].user \notin req[t].old
       /\ staff[req[s].user] = Nobody =>
            \A t \in Others(s) : req[s].user \in Hands(t) => req[t].op = "accept"
       /\ pc[s] \in {"preselect", "trigger"} => want[s] # {}
       /\ pc[s] = "place" => want[s] # {} \/ ins[s] # {}
       /\ pc[s] = "enroll" => staff[req[s].user] # Nobody \/ ins[s] # {}
       /\ pc[s] = "commit" => ins[s] # {}
IInv == BaseInv /\ AccountInv /\ OwnInv

----------------------------------------------------------------------------
(* Steps by their effect *)

Begins(s) ==
  \/ BeginGrant(s) \/ BeginRevoke(s) \/ BeginProvision(s) \/ BeginAccept(s)
  \/ BeginBoot(s) \/ BeginBootstrap(s)
Moves(s, l) == pc[s] # "idle" /\ Goto(s, l) /\ UNCHANGED <<tables, req, want, ins, del>>
Inserts(s) ==
  \E k \in want[s], i \in Ids :
    /\ pc[s] = "place" /\ IndexFree(s, k) /\ ~Refused(s, k) /\ AccountsLive(s, k)
    /\ ins' = [ins EXCEPT ![s] = @ \cup {NewRow(i, k)}]
    /\ want' = [want EXCEPT ![s] = @ \ {k}]
    /\ UNCHANGED <<tables, pc, req, del>>

(* Where a session may go by a statement that only reads. *)
Reads(s) ==
  \/ pc[s] = "load" /\ staff[req[s].user] # Nobody /\ Moves(s, "count")
  \/ pc[s] = "load" /\ staff[req[s].user] # Nobody /\ Moves(s, "missing")
  \/ pc[s] = "count" /\ Moves(s, "missing")
  \/ pc[s] = "missing" /\ Moves(s, "existing")
  \/ pc[s] \in {"existing", "preselect"} /\ RowsOf(Asked(s)) # {}
       /\ Enrolls(s) /\ Moves(s, "enroll")
  \/ pc[s] \in {"existing", "preselect"} /\ ~Enrolls(s) /\ Moves(s, "commit")
  \/ pc[s] \in {"existing", "preselect"} /\ Granter(s) = {} /\ Moves(s, "place")
  \/ pc[s] \in {"existing", "preselect"} /\ Granter(s) # {} /\ Moves(s, "trigger")
  \/ pc[s] = "trigger" /\ Covers(req[s].actor, req[s].role) /\ Moves(s, "place")
  \/ pc[s] = "place" /\ want[s] = {} /\ Enrolls(s) /\ Moves(s, "enroll")
  \/ pc[s] = "place" /\ want[s] = {} /\ ~Enrolls(s) /\ Moves(s, "commit")
  \/ pc[s] = "find" /\ Moves(s, "delete")
  \/ /\ pc[s] = "enroll" /\ account[req[s].user] = "live" /\ staff[req[s].user] = Nobody
     /\ Moves(s, "commit")

LEMMA Cases ==
  ASSUME Next
  PROVE  \/ \E s \in Sessions : \/ Begins(s) \/ Reads(s) \/ Abort(s) \/ Inserts(s) \/ Delete(s)
                                \/ Commit(s) \/ Created(s) \/ GaveUp(s) \/ Purge(s) \/ Enlist(s)
         \/ \E u \in Users : Lands(u) \/ Invited(u)
  <1> SUFFICES ASSUME NEW s \in Sessions,
                      \/ Load(s) \/ Count(s) \/ FindMissing(s) \/ Existing(s) \/ Trigger(s)
                      \/ Place(s) \/ Placed(s) \/ Find(s) \/ CutShort(s) \/ Taken(s) \/ Enroll(s)
               PROVE  Reads(s) \/ Abort(s) \/ Inserts(s)
    BY DEF Next, Begins
  <1>1. CASE Load(s)
    BY <1>1 DEF Load, Check, Reads, Moves
  <1>2. CASE Count(s) \/ FindMissing(s) \/ Find(s) \/ Trigger(s) \/ Enroll(s)
    BY <1>2 DEF Count, FindMissing, Find, Trigger, Enroll, Check, Reads, Moves
  <1>3. CASE Existing(s)
    BY <1>3 DEF Existing, Check, Reads, Moves
  <1>4. CASE Placed(s)
    BY <1>4 DEF Placed, Check, Reads, Moves
  <1>5. CASE Place(s)
    BY <1>5 DEF Place, Inserts
  <1>6. CASE CutShort(s) \/ Taken(s)
    BY <1>6 DEF CutShort, Taken
  <1> QED BY <1>1, <1>2, <1>3, <1>4, <1>5, <1>6

(* Which fields a request of each kind has. *)
LEMMA RequestFields ==
  ASSUME NEW r \in Request
  PROVE  /\ r.op = "grant" => r.actor \in Users /\ r.user \in Users /\ r.role \in Roles
         /\ r.op = "revoke" => r.actor \in Users /\ r.row \in Row
         /\ r.op = "provision" => r.actor \in Users /\ r.user \in Users /\ r.role = Admin
         /\ r.op = "accept" => r.user \in Users /\ r.role = Admin
         /\ r.op = "bootstrap" => r.user \in Users /\ r.role = Super /\ r.old \subseteq Users
         /\ r.op \in {"none", "grant", "revoke", "provision", "accept", "boot", "bootstrap"}
  BY DEF Request, NoReq

(* How the six kinds of request begin. *)
LEMMA BeginCases ==
  ASSUME TypeOK, NEW s \in Sessions, Begins(s)
  PROVE  \E r \in Request, l \in Steps \ {"idle"}, w \in SUBSET Pair :
           /\ Begin(s, r, l, w)
           /\ \/ r.op = "grant" /\ l = "load" /\ w = {[user |-> r.user, role |-> r.role]}
              \/ r.op = "revoke" /\ l = "find" /\ w = {}
              \/ r.op = "provision" /\ l = "call" /\ w = {[user |-> r.user, role |-> Admin]}
              \/ /\ r.op = "accept" /\ l = "preselect" /\ account[r.user] = "live"
                 /\ w = {[user |-> r.user, role |-> Admin]}
              \/ r.op = "boot" /\ l = "place" /\ w = Missing
              \/ /\ r.op = "bootstrap" /\ l \in {"call", "purge"} /\ r.old = Supers
                 /\ w = {[user |-> r.user, role |-> Super]}
  <1> USE PlatformAssumption DEF Steps, Roles
  <1>1. CASE BeginGrant(s)
    <2> PICK a \in Users, u \in Grantees, x \in Offered :
          Begin(s, [op |-> "grant", actor |-> a, user |-> u, role |-> x], "load",
                {[user |-> u, role |-> x]})
      BY <1>1 DEF BeginGrant
    <2> DEFINE r == [op |-> "grant", actor |-> a, user |-> u, role |-> x]
    <2>1. r \in Request /\ {[user |-> u, role |-> x]} \in SUBSET Pair
      BY DEF Request, Pair
    <2> QED BY <2>1
  <1>2. CASE BeginRevoke(s)
    <2> PICK a \in Users, g \in grants :
          Begin(s, [op |-> "revoke", actor |-> a, row |-> g], "find", {})
      BY <1>2 DEF BeginRevoke
    <2> DEFINE r == [op |-> "revoke", actor |-> a, row |-> g]
    <2>1. r \in Request
      BY DEF Request, TypeOK
    <2> QED BY <2>1
  <1>3. CASE BeginProvision(s)
    <2> PICK a \in Users, u \in Newcomers :
          Begin(s, [op |-> "provision", actor |-> a, user |-> u, role |-> Admin], "call",
                {[user |-> u, role |-> Admin]})
      BY <1>3 DEF BeginProvision
    <2> DEFINE r == [op |-> "provision", actor |-> a, user |-> u, role |-> Admin]
    <2>1. r \in Request /\ {[user |-> u, role |-> Admin]} \in SUBSET Pair
      BY DEF Request, Pair
    <2> QED BY <2>1
  <1>6. CASE BeginAccept(s)
    <2> PICK u \in Newcomers :
          /\ account[u] = "live"
          /\ Begin(s, [op |-> "accept", user |-> u, role |-> Admin], "preselect",
                   {[user |-> u, role |-> Admin]})
      BY <1>6 DEF BeginAccept
    <2> DEFINE r == [op |-> "accept", user |-> u, role |-> Admin]
    <2>1. r \in Request /\ {[user |-> u, role |-> Admin]} \in SUBSET Pair
      BY DEF Request, Pair
    <2> QED BY <2>1
  <1>4. CASE BeginBoot(s)
    <2> DEFINE r == [op |-> "boot"]
    <2>1. r \in Request /\ Missing \in SUBSET Pair
      BY DEF Request, Missing
    <2> QED BY <1>4, <2>1 DEF BeginBoot
  <1>5. CASE BeginBootstrap(s)
    <2> PICK u \in Newcomers :
          Begin(s, [op |-> "bootstrap", user |-> u, role |-> Super, old |-> Supers],
                IF Supers = {} THEN "call" ELSE "purge", {[user |-> u, role |-> Super]})
      BY <1>5 DEF BeginBootstrap
    <2> DEFINE r == [op |-> "bootstrap", user |-> u, role |-> Super, old |-> Supers]
    <2>1. r \in Request /\ {[user |-> u, role |-> Super]} \in SUBSET Pair
      BY DEF Request, Pair, Supers
    <2> QED BY <2>1
  <1> QED BY <1>1, <1>2, <1>3, <1>4, <1>5, <1>6 DEF Begins

----------------------------------------------------------------------------
(* Types *)

LEMMA InitType == Init => TypeOK
  BY PlatformAssumption DEF Init, TypeOK, Request, Steps

LEMMA TypeNext == TypeOK /\ [Next]_vars => TypeOK'
  <1> SUFFICES ASSUME TypeOK, [Next]_vars PROVE TypeOK'
    OBVIOUS
  <1> USE DEF TypeOK, tables
  <1>1. ASSUME NEW s \in Sessions, Begins(s) PROVE TypeOK'
    BY <1>1, BeginCases DEF Begin, Goto
  <1>2. ASSUME NEW s \in Sessions, Reads(s) PROVE TypeOK'
    <2> PICK l \in Steps : Moves(s, l)
      BY <1>2 DEF Reads, Steps
    <2> QED BY DEF Moves, Goto
  <1>3. ASSUME NEW s \in Sessions, End(s), grants' \subseteq Row,
               staff' \in [Users -> {Super, Admin, Nobody}],
               account' \in [Users -> {"none", "late", "live", "gone"}]
        PROVE  TypeOK'
    BY <1>3 DEF End, Request, Steps
  <1>4. ASSUME NEW s \in Sessions, Abort(s) PROVE TypeOK'
    BY <1>3, <1>4 DEF Abort
  <1>5. ASSUME NEW s \in Sessions, Inserts(s) PROVE TypeOK'
    BY <1>5 DEF Inserts, NewRow, Row, Pair
  <1>6. ASSUME NEW s \in Sessions, Delete(s) PROVE TypeOK'
    BY <1>6 DEF Delete, Goto, Steps
  <1>7. ASSUME NEW s \in Sessions, Commit(s) PROVE TypeOK'
    <2>1. staff' \in [Users -> {Super, Admin, Nobody}] /\ grants' \subseteq Row
      BY <1>7 DEF Commit, Enrolled
    <2> QED BY <1>3, <1>7, <2>1 DEF Commit
  <1>8. ASSUME NEW s \in Sessions, GaveUp(s) PROVE TypeOK'
    <2>1. account' \in [Users -> {"none", "late", "live", "gone"}]
      BY <1>8 DEF GaveUp
    <2> QED BY <1>3, <1>8, <2>1 DEF GaveUp
  <1>9. ASSUME NEW s \in Sessions, Created(s) \/ Enlist(s) PROVE TypeOK'
    BY <1>4, <1>9 DEF Created, Enlist, Goto, Steps
  <1>10. ASSUME NEW s \in Sessions, Purge(s) PROVE TypeOK'
    <2>1. staff' \in [Users -> {Super, Admin, Nobody}]
      BY <1>10 DEF Purge
    <2>2. account' \in [Users -> {"none", "late", "live", "gone"}]
      BY <1>10 DEF Purge
    <2>3. pc' \in [Sessions -> Steps] /\ grants' \subseteq Row
      BY <1>10 DEF Purge, Goto, Steps
    <2> QED BY <1>10, <2>1, <2>2, <2>3 DEF Purge
  <1>11. ASSUME NEW u \in Users, Lands(u) \/ Invited(u) PROVE TypeOK'
    BY <1>11 DEF Lands, Invited
  <1>12. CASE UNCHANGED vars
    BY <1>12 DEF vars
  <1> QED BY <1>1, <1>2, <1>4, <1>5, <1>6, <1>7, <1>8, <1>9, <1>10, <1>11, <1>12, Cases

(* In every reachable state the platform's tables and the transactions     *)
(* over them are well typed.                                               *)
THEOREM TypeCorrect == Spec => []TypeOK
  BY InitType, TypeNext, PTL DEF Spec

----------------------------------------------------------------------------
(* One super admin *)

LEMMA InitBase == Init => BaseInv
  <1> SUFFICES ASSUME Init PROVE Shape /\ WantInv /\ SuperInv
    BY InitType DEF BaseInv
  <1>1. Shape
    BY DEF Init, Shape, Doing, NoReq
  <1>2. WantInv /\ SuperInv
    BY PlatformAssumption DEF Init, WantInv, SuperInv, OneSuperAdmin, SuperRows, NoReq
  <1> QED BY <1>1, <1>2

LEMMA ShapeNext == BaseInv /\ [Next]_vars => Shape'
  <1> SUFFICES ASSUME BaseInv, [Next]_vars PROVE Shape'
    OBVIOUS
  <1> USE DEF BaseInv, TypeOK, Shape, Doing
  <1>1. ASSUME NEW s \in Sessions, Begins(s) PROVE Shape'
    BY <1>1, BeginCases DEF Begin, Goto
  <1>2. ASSUME NEW s \in Sessions, Reads(s) PROVE Shape'
    BY <1>2 DEF Reads, Moves, Goto, Enrolls, Granter
  <1>3. ASSUME NEW s \in Sessions, End(s) PROVE Shape'
    BY <1>3 DEF End, NoReq
  <1>4. ASSUME NEW s \in Sessions, Inserts(s) PROVE Shape'
    BY <1>4 DEF Inserts
  <1>5. ASSUME NEW s \in Sessions, Delete(s) PROVE Shape'
    BY <1>5 DEF Delete, Goto
  <1>6. ASSUME NEW s \in Sessions, Created(s) PROVE Shape'
    BY <1>6 DEF Created, Goto
  <1>7. ASSUME NEW s \in Sessions, Purge(s) \/ Enlist(s) PROVE Shape'
    BY <1>3, <1>7 DEF Purge, Enlist, Abort, Goto
  <1>8. ASSUME NEW u \in Users, Lands(u) \/ Invited(u) PROVE Shape'
    BY <1>8 DEF Lands, Invited
  <1>9. CASE UNCHANGED vars
    BY <1>9 DEF vars
  <1> QED BY <1>1, <1>2, <1>3, <1>4, <1>5, <1>6, <1>7, <1>8, <1>9, Cases DEF Abort, Commit, GaveUp

LEMMA WantNext == BaseInv /\ [Next]_vars => WantInv'
  <1> SUFFICES ASSUME BaseInv, [Next]_vars PROVE WantInv'
    OBVIOUS
  <1> USE DEF BaseInv, TypeOK, WantInv
  <1>1. ASSUME NEW s \in Sessions, Begins(s) PROVE WantInv'
    <2> ins[s] = {}
      BY <1>1, BeginCases DEF Begin, Shape
    <2> QED BY <1>1, BeginCases, RequestFields DEF Begin, Goto
  <1>2. ASSUME NEW s \in Sessions, Reads(s) PROVE WantInv'
    BY <1>2 DEF Reads, Moves
  <1>3. ASSUME NEW s \in Sessions, End(s) PROVE WantInv'
    BY <1>3 DEF End, NoReq
  <1>4. ASSUME NEW s \in Sessions, Inserts(s) PROVE WantInv'
    BY <1>4 DEF Inserts, NewRow
  <1>5. ASSUME NEW s \in Sessions, Delete(s) \/ Created(s) \/ Purge(s) \/ Enlist(s) PROVE WantInv'
    BY <1>3, <1>5 DEF Delete, Created, Purge, Enlist, Abort
  <1>6. ASSUME NEW u \in Users, Lands(u) \/ Invited(u) PROVE WantInv'
    BY <1>6 DEF Lands, Invited
  <1>7. CASE UNCHANGED vars
    BY <1>7 DEF vars
  <1> QED BY <1>1, <1>2, <1>3, <1>4, <1>5, <1>6, <1>7, Cases DEF Abort, Commit, GaveUp

(* Rows that are only taken away, or left, keep the index satisfied. *)
LEMMA SuperShrinks ==
  ASSUME BaseInv, grants' \subseteq grants,
         \A s \in Sessions : ins'[s] \subseteq ins[s]
  PROVE  SuperInv'
  BY DEF BaseInv, SuperInv, OneSuperAdmin, SuperRows

LEMMA SuperNext == BaseInv /\ [Next]_vars => SuperInv'
  <1> SUFFICES ASSUME BaseInv, [Next]_vars PROVE SuperInv'
    OBVIOUS
  <1>1. ASSUME NEW s \in Sessions, Inserts(s) PROVE SuperInv'
    <2> PICK k \in want[s], i \in Ids :
          /\ IndexFree(s, k) /\ ~Refused(s, k) /\ pc[s] = "place"
          /\ ins' = [ins EXCEPT ![s] = @ \cup {NewRow(i, k)}]
          /\ grants' = grants
      BY <1>1 DEF Inserts, tables
    <2> USE DEF BaseInv, TypeOK
    <2>1. \A t \in Sessions : ins'[t] = IF t = s THEN ins[s] \cup {NewRow(i, k)} ELSE ins[t]
      OBVIOUS
    <2>2. CASE k.role # Super
      BY <2>1, <2>2 DEF SuperInv, OneSuperAdmin, SuperRows, NewRow
    <2>3. CASE k.role = Super
      <3>1. SuperRows = {} /\ \A r \in ins[s] : r.role # Super
        BY <2>3 DEF Refused, SuperRows, Shape
      <3>2. \A t \in Others(s) : \A r \in ins[t] : r.role # Super
        BY <2>3 DEF IndexFree
      <3> QED BY <2>1, <3>1, <3>2 DEF SuperInv, OneSuperAdmin, SuperRows, Others
    <2> QED BY <2>2, <2>3
  <1>2. ASSUME NEW s \in Sessions, Commit(s) PROVE SuperInv'
    <2> USE DEF BaseInv, TypeOK
    <2>1. grants' = (grants \ del[s]) \cup ins[s]
      BY <1>2 DEF Commit
    <2>2. \A t \in Sessions : ins'[t] = IF t = s THEN {} ELSE ins[t]
      BY <1>2 DEF Commit, End
    <2>3. CASE \A r \in ins[s] : r.role # Super
      BY <2>1, <2>2, <2>3 DEF SuperInv, OneSuperAdmin, SuperRows
    <2>4. CASE \E r \in ins[s] : r.role = Super
      <3>1. SuperRows = {} /\ \A t \in Sessions \ {s} : \A r \in ins[t] : r.role # Super
        BY <2>4 DEF SuperInv
      <3>2. \A g, h \in SuperRows' : g \in ins[s] /\ h \in ins[s] /\ g.role = Super /\ h.role = Super
        BY <2>1, <3>1 DEF SuperRows
      <3>3. OneSuperAdmin'
        BY <3>2 DEF SuperInv, OneSuperAdmin
      <3> QED BY <2>2, <3>1, <3>3 DEF SuperInv
    <2> QED BY <2>3, <2>4
  <1>3. ASSUME NEW s \in Sessions, Abort(s) \/ GaveUp(s) PROVE SuperInv'
    BY <1>3, SuperShrinks DEF Abort, GaveUp, End, tables, BaseInv, TypeOK
  <1>4. ASSUME NEW s \in Sessions, Begins(s) PROVE SuperInv'
    BY <1>4, BeginCases, SuperShrinks DEF Begin, tables, BaseInv
  <1>5. ASSUME NEW s \in Sessions, Reads(s) \/ Delete(s) \/ Created(s) \/ Purge(s) \/ Enlist(s)
        PROVE  SuperInv'
    BY <1>3, <1>5, SuperShrinks DEF Reads, Moves, Delete, Created, Purge, Enlist, tables
  <1>6. ASSUME NEW u \in Users, Lands(u) \/ Invited(u) PROVE SuperInv'
    BY <1>6, SuperShrinks DEF Lands, Invited
  <1>7. CASE UNCHANGED vars
    BY <1>7, SuperShrinks DEF vars, tables
  <1> QED BY <1>1, <1>2, <1>3, <1>4, <1>5, <1>6, <1>7, Cases

LEMMA BaseNext == BaseInv /\ [Next]_vars => BaseInv'
  BY TypeNext, ShapeNext, WantNext, SuperNext DEF BaseInv

(* However grants, boots, scripts and revokes overlap, there is one grant  *)
(* of the super_admin role at most.                                        *)
THEOREM OneSuperAdminHolds == Spec => []OneSuperAdmin
  <1>1. BaseInv => OneSuperAdmin
    BY DEF BaseInv, SuperInv
  <1> QED BY InitBase, BaseNext, <1>1, PTL DEF Spec

----------------------------------------------------------------------------
(* Escalation *)

(* A permission that no grant carries, nor any row on its way past the     *)
(* trigger, is handed out by no actor: it comes back only by the           *)
(* projection, the script, or an accepted invite, and by the last only if  *)
(* the admin role carries it.                                              *)
THEOREM NoRequestEscalates == Spec => NoEscalation
  <1>1. BaseInv /\ [Next]_vars /\ Lost /\ ~Lost' =>
          \E s \in Sessions :
            /\ req[s].op \in {"boot", "bootstrap"}
                 \/ (req[s].op = "accept" /\ Rare \in RolePerms[Admin])
            /\ ins'[s] # ins[s]
    <2> SUFFICES ASSUME BaseInv, [Next]_vars, Lost,
                        \A s \in Sessions : ins'[s] # ins[s] =>
                          /\ req[s].op \notin {"boot", "bootstrap"}
                          /\ req[s].op = "accept" => Rare \notin RolePerms[Admin]
                 PROVE  Lost'
      OBVIOUS
    <2> USE DEF BaseInv, TypeOK
    <2>0. /\ \A g \in grants : ~Carries(g)
          /\ \A s \in Sessions : \A r \in ins[s] : ~Carries(r)
          /\ \A s \in Sessions : Granter(s) # {} /\ pc[s] = "place" => \A k \in want[s] : ~Carries(k)
      BY DEF Lost, OnItsWay
    <2>1. ASSUME \A g \in grants' : g \in grants \/ \E s \in Sessions : g \in ins[s],
                 \A s \in Sessions : ins'[s] \subseteq ins[s],
                 \A s \in Sessions : Granter(s)' # {} /\ pc'[s] = "place" => \A k \in want'[s] : ~Carries(k)
          PROVE  Lost'
      BY <2>0, <2>1 DEF Lost, OnItsWay, Carries
    <2>2. ASSUME NEW s \in Sessions, Begins(s) PROVE Lost'
      <3> PICK r \in Request, l \in Steps, w \in SUBSET Pair :
            Begin(s, r, l, w) /\ (r.op \in {"grant", "provision"} => l # "place")
        BY <2>2, BeginCases
      <3>1. \A t \in Sessions : Granter(t)' # {} /\ pc'[t] = "place" => \A k \in want'[t] : ~Carries(k)
        BY <2>0 DEF Begin, Goto, Granter
      <3> QED BY <2>1, <3>1 DEF Begin, tables
    <2>3. ASSUME NEW s \in Sessions, Reads(s) PROVE Lost'
      <3>1. CASE Covers(req[s].actor, req[s].role) /\ Moves(s, "place")
        <4>1. Rare \notin RolePerms[req[s].role]
          BY <2>0, <3>1 DEF Covers, PermsOf, Carries
        <4>2. Granter(s) # {} => \A k \in want[s] : ~Carries(k)
          BY <4>1 DEF Granter, WantInv, Carries
        <4>3. \A t \in Sessions : Granter(t)' # {} /\ pc'[t] = "place" => \A k \in want'[t] : ~Carries(k)
          BY <2>0, <3>1, <4>2 DEF Moves, Goto, Granter
        <4> QED BY <2>1, <3>1, <4>3 DEF Moves, tables
      <3>2. CASE Granter(s) = {} /\ Moves(s, "place")
        <4>1. \A t \in Sessions : Granter(t)' # {} /\ pc'[t] = "place" => \A k \in want'[t] : ~Carries(k)
          BY <2>0, <3>2 DEF Moves, Goto, Granter
        <4> QED BY <2>1, <3>2, <4>1 DEF Moves, tables
      <3>3. ASSUME NEW l \in Steps \ {"place"}, Moves(s, l) PROVE Lost'
        <4>1. \A t \in Sessions : Granter(t)' # {} /\ pc'[t] = "place" => \A k \in want'[t] : ~Carries(k)
          BY <2>0, <3>3 DEF Moves, Goto, Granter
        <4> QED BY <2>1, <3>3, <4>1 DEF Moves, tables
      <3> QED BY <2>3, <3>1, <3>2, <3>3 DEF Reads, Steps
    <2>4. ASSUME NEW s \in Sessions, Inserts(s) PROVE Lost'
      <3> PICK k \in want[s], i \in Ids :
            /\ pc[s] = "place" /\ UNCHANGED <<tables, pc, req>>
            /\ ins' = [ins EXCEPT ![s] = @ \cup {NewRow(i, k)}]
            /\ want' = [want EXCEPT ![s] = @ \ {k}]
        BY <2>4 DEF Inserts
      <3>1. CASE Granter(s) = {}
        <4>1. req[s].op \in {"accept", "boot", "bootstrap"}
          BY <3>1 DEF Granter, Shape, Doing
        <4>2. CASE ins'[s] = ins[s]
          BY <2>0, <2>1, <4>2 DEF Granter, tables
        <4>3. CASE ins'[s] # ins[s]
          <5>1. k.role = Admin /\ Rare \notin RolePerms[Admin]
            BY <4>1, <4>3, RequestFields DEF WantInv
          <5>2. ~Carries(NewRow(i, k))
            BY <5>1 DEF Carries, NewRow
          <5> QED BY <2>0, <5>2 DEF Lost, OnItsWay, Granter, Carries, tables
        <4> QED BY <4>2, <4>3
      <3>2. CASE Granter(s) # {}
        <4>1. ~Carries(NewRow(i, k))
          BY <2>0, <3>2 DEF Carries, NewRow
        <4> QED BY <2>0, <4>1 DEF Lost, OnItsWay, Granter, Carries, tables
      <3> QED BY <3>1, <3>2
    <2>5. ASSUME NEW s \in Sessions, End(s), \A g \in grants' : g \in grants \/ g \in ins[s] PROVE Lost'
      BY <2>0, <2>1, <2>5 DEF End, Granter
    <2>6. ASSUME NEW s \in Sessions, Abort(s) \/ GaveUp(s) \/ Commit(s) PROVE Lost'
      BY <2>5, <2>6 DEF Abort, GaveUp, Commit, tables
    <2>7. ASSUME NEW s \in Sessions, Delete(s) \/ Created(s) \/ Purge(s) \/ Enlist(s) PROVE Lost'
      <3>1. CASE Abort(s)
        BY <2>6, <3>1
      <3>2. CASE ~Abort(s)
        <4>1. \A t \in Sessions : Granter(t)' # {} /\ pc'[t] = "place" => \A k \in want'[t] : ~Carries(k)
          BY <2>0, <2>7, <3>2 DEF Delete, Created, Purge, Enlist, Goto, Granter
        <4> QED BY <2>1, <2>7, <3>2, <4>1 DEF Delete, Created, Purge, Enlist, tables
      <3> QED BY <3>1, <3>2
    <2>8. ASSUME NEW u \in Users, Lands(u) \/ Invited(u) PROVE Lost'
      BY <2>0, <2>1, <2>8 DEF Lands, Invited, Granter
    <2>9. CASE UNCHANGED vars
      BY <2>0, <2>1, <2>9 DEF vars, tables, Granter
    <2> QED BY <2>2, <2>3, <2>4, <2>6, <2>7, <2>8, <2>9, Cases
  <1>2. BaseInv /\ [Next]_vars =>
          [Lost /\ ~Lost' => \E s \in Sessions :
             /\ req[s].op \in {"boot", "bootstrap"}
                  \/ (req[s].op = "accept" /\ Rare \in RolePerms[Admin])
             /\ ins'[s] # ins[s]]_vars
    BY <1>1
  <1> QED BY InitBase, BaseNext, <1>2, PTL DEF Spec, NoEscalation

----------------------------------------------------------------------------
(* Accounts *)

LEMMA RolesDiffer == Super # Nobody /\ Admin # Nobody /\ Super # Admin
  BY PlatformAssumption DEF Roles

LEMMA InitInv == Init => IInv
  <1> SUFFICES ASSUME Init PROVE AccountInv /\ OwnInv
    BY InitBase DEF IInv
  <1> USE DEF Init, NoReq
  <1>1. RowsHaveAccounts
    BY PlatformAssumption DEF RowsHaveAccounts
  <1> QED BY <1>1 DEF AccountInv, OwnInv, After, Own, Hands, Enrolling

(* An account that was there is there, or gone, ever after. *)
LEMMA ExistsStays ==
  ASSUME TypeOK, Next, NEW u \in Users, Exists(u)
  PROVE  Exists(u)'
  BY SMTT(30), Cases, BeginCases DEF TypeOK, Exists, Begin, Reads, Moves, Abort, Inserts, Delete, Commit, Created, GaveUp,
     Purge, Enlist, Lands, Invited, tables

(* The people a session may insert rows for only grow when it begins, when *)
(* it has loaded its target, and when it has created the account.          *)
LEMMA HandsShrink ==
  ASSUME IInv, NEW s \in Sessions,
         \/ Abort(s) \/ Inserts(s) \/ Delete(s) \/ Commit(s) \/ GaveUp(s) \/ Purge(s) \/ Enlist(s)
         \/ pc[s] # "load" /\ Reads(s)
  PROVE  \A t \in Sessions : Hands(t)' \subseteq Hands(t)
  <1> USE DEF IInv, BaseInv, TypeOK, Hands
  <1>1. CASE Abort(s) \/ GaveUp(s) \/ Commit(s)
    BY <1>1 DEF Abort, GaveUp, Commit, End
  <1>2. CASE Inserts(s)
    BY <1>2 DEF Inserts, NewRow
  <1>3. CASE Delete(s)
    BY <1>3 DEF Delete, Goto, Shape, Doing, WantInv
  <1>4. CASE Purge(s) \/ Enlist(s)
    BY <1>1, <1>4 DEF Purge, Enlist, Goto
  <1>5. CASE pc[s] # "load" /\ Reads(s)
    BY <1>5 DEF Reads, Moves, Goto
  <1> QED BY <1>1, <1>2, <1>3, <1>4, <1>5

LEMMA AccountNext == IInv /\ [Next]_vars => AccountInv'
  <1> SUFFICES ASSUME IInv, [Next]_vars PROVE AccountInv'
    OBVIOUS
  <1> USE DEF IInv, BaseInv, TypeOK
  <1>0. /\ RowsHaveAccounts
        /\ \A s \in Sessions :
             /\ \A r \in ins[s] : account[r.user] = "live"
             /\ \A u \in Enrolling(s) : account[u] = "live"
             /\ req[s].op = "bootstrap" => \A u \in req[s].old : Exists(u)
             /\ After(s) => Exists(req[s].user)
             /\ \A u \in Hands(s) : Exists(u)
    BY DEF AccountInv
  <1>1. ASSUME NEW s \in Sessions, Begins(s) PROVE AccountInv'
    <2> PICK r \in Request, l \in Steps \ {"idle"}, w \in SUBSET Pair :
          /\ Begin(s, r, l, w)
          /\ \/ l \in {"load", "find", "call", "purge"}
             \/ l = "place" /\ r.op = "boot" /\ w = Missing
             \/ /\ l = "preselect" /\ r.op = "accept" /\ account[r.user] = "live"
                /\ w = {[user |-> r.user, role |-> Admin]}
          /\ r.op = "bootstrap" => r.old = Supers
      BY <1>1, BeginCases
    <2>1. Supers \subseteq Users /\ \A u \in Supers : Exists(u)
      BY <1>0, RolesDiffer DEF Supers, RowsHaveAccounts, Exists
    <2>2. \A k \in Missing : Exists(k.user)
      BY <1>0, PlatformAssumption DEF Missing, Pair, RowsHaveAccounts, Exists
    <2>3. ins[s] = {} /\ pc' = [pc EXCEPT ![s] = l] /\ req' = [req EXCEPT ![s] = r]
            /\ want' = [want EXCEPT ![s] = w] /\ UNCHANGED <<tables, ins>>
      BY DEF Begin, Goto, Shape
    <2>4. ~After(s)' /\ \A t \in Sessions \ {s} : After(t)' => After(t)
      BY <2>3 DEF After
    <2>5. (\A u \in Hands(s)' : Exists(u)) /\ \A t \in Sessions \ {s} : Hands(t)' = Hands(t)
      BY <2>2, <2>3 DEF Hands, Exists
    <2>6. Enrolling(s)' = {} /\ \A t \in Sessions \ {s} : Enrolling(t)' = Enrolling(t)
      BY <2>3 DEF Enrolling, Enrolls
    <2> QED BY <1>0, <2>1, <2>3, <2>4, <2>5, <2>6 DEF AccountInv, RowsHaveAccounts, Exists, tables, After
  <1>2. ASSUME NEW s \in Sessions, Reads(s) PROVE AccountInv'
    <2>1. PICK l \in Steps : Moves(s, l)
      BY <1>2 DEF Reads, Steps
    <2>2. \A t \in Sessions : After(t)' => After(t)
      BY <1>2 DEF Reads, Moves, Goto, After, Shape, Doing
    <2>3. \A t \in Sessions : \A u \in Hands(t)' : Exists(u)
      <3>1. CASE pc[s] # "load"
        BY <1>0, <1>2, <3>1, HandsShrink
      <3>2. CASE pc[s] = "load"
        <4>1. ins[s] = {} /\ \A k \in want[s] : k.user = req[s].user /\ req[s].user \in Users
          BY <3>2, RequestFields DEF Shape, Doing, WantInv
        <4>2. Exists(req[s].user) \/ want[s] = {}
          BY <1>0, <1>2, <3>2, <4>1 DEF Reads, RowsHaveAccounts, Exists
        <4> QED BY <1>0, <2>1, <4>1, <4>2 DEF Moves, Goto, Hands
      <3> QED BY <3>1, <3>2
    <2>4. \A t \in Sessions : \A u \in Enrolling(t)' : account[u] = "live"
      <3>1. \A u \in Enrolling(s)' : account[u] = "live"
        BY <1>0, <1>2 DEF Reads, Moves, Goto, Enrolling, Enrolls, Shape, Doing
      <3>2. \A t \in Sessions \ {s} : Enrolling(t)' = Enrolling(t)
        BY <2>1 DEF Moves, Goto, Enrolling, Enrolls
      <3> QED BY <1>0, <3>1, <3>2
    <2> QED BY <1>0, <2>1, <2>2, <2>3, <2>4 DEF AccountInv, RowsHaveAccounts, Exists, Moves, tables
  <1>3. ASSUME NEW s \in Sessions, End(s), TypeOK',
               \A u \in Users : account[u] \in {"live", "gone"} => account'[u] = account[u],
               RowsHaveAccounts'
        PROVE  AccountInv'
    <2>1. \A t \in Sessions \ {s} :
            pc'[t] = pc[t] /\ req'[t] = req[t] /\ want'[t] = want[t] /\ ins'[t] = ins[t]
      BY <1>3 DEF End
    <2>2. pc'[s] = "idle" /\ req'[s].op = "none" /\ ins'[s] = {}
      BY <1>3 DEF End, NoReq
    <2>3. \A t \in Sessions \ {s} : Hands(t)' = Hands(t) /\ After(t)' = After(t)
      BY <2>1 DEF Hands, After
    <2>4. Hands(s)' = {} /\ ~After(s)'
      BY <2>2 DEF Hands, After
    <2>5. \A u : u \in Users /\ Exists(u) => Exists(u)'
      BY <1>3 DEF Exists
    <2>6. \A t \in Sessions : Hands(t) \subseteq Users
      BY DEF Hands, Pair, Row
    <2>7. \A t \in Sessions \ {s} :
            /\ \A r \in ins'[t] : account'[r.user] = "live"
            /\ \A u \in Enrolling(t)' : account'[u] = "live"
      BY <1>0, <1>3, <2>1, RequestFields DEF Row, Enrolling, Enrolls
    <2>10. Enrolling(s)' = {}
      BY <2>2 DEF Enrolling
    <2>8. \A t \in Sessions \ {s} :
            /\ req'[t].op = "bootstrap" => \A u \in req'[t].old : Exists(u)'
            /\ After(t)' => Exists(req[t].user)'
            /\ \A u \in Hands(t)' : Exists(u)'
      BY <1>0, <2>1, <2>3, <2>5, <2>6, RequestFields DEF After
    <2>9. \A t \in Sessions \ {s} : After(t)' => account'[req'[t].user] \in {"live", "gone"}
      BY <2>1, <2>8 DEF Exists
    <2> QED BY <1>3, <2>2, <2>4, <2>7, <2>8, <2>9, <2>10 DEF AccountInv, Exists
  <1>4. ASSUME NEW s \in Sessions, Abort(s) PROVE AccountInv'
    BY <1>0, <1>3, <1>4, TypeNext DEF Abort, tables, RowsHaveAccounts
  <1>5. ASSUME NEW s \in Sessions, Inserts(s) PROVE AccountInv'
    <2>1. \A t \in Sessions : \A r \in ins'[t] : account'[r.user] = "live"
      BY <1>0, <1>5 DEF Inserts, AccountsLive, NewRow, tables
    <2>2. \A t \in Sessions : \A u \in Hands(t)' : Exists(u)
      BY <1>0, <1>5, HandsShrink
    <2>3. \A t \in Sessions : Enrolling(t)' = Enrolling(t)
      BY <1>5 DEF Inserts, Enrolling, Enrolls
    <2> QED BY <1>0, <1>5, <2>1, <2>2, <2>3 DEF Inserts, AccountInv, RowsHaveAccounts, Exists, After, tables
  <1>6. ASSUME NEW s \in Sessions, Delete(s) PROVE AccountInv'
    <2>1. \A t \in Sessions : \A u \in Hands(t)' : Exists(u)
      BY <1>0, <1>6, HandsShrink
    <2>2. req[s].op = "revoke"
      BY <1>6 DEF Delete, Shape, Doing
    <2>3. \A t \in Sessions : Enrolling(t)' \subseteq Enrolling(t)
      BY <1>6, <2>2 DEF Delete, Goto, Enrolling, Enrolls
    <2> QED BY <1>0, <1>6, <2>1, <2>2, <2>3 DEF Delete, Goto, AccountInv, RowsHaveAccounts, Exists, After, tables
  <1>7. ASSUME NEW s \in Sessions, Commit(s) PROVE AccountInv'
    <2>1. RowsHaveAccounts'
      BY <1>0, <1>7, RequestFields DEF Commit, Enrolled, Enrolling, Enrolls, RowsHaveAccounts
    <2> QED BY <1>3, <1>7, <2>1, TypeNext DEF Commit
  <1>8. ASSUME NEW s \in Sessions, GaveUp(s) PROVE AccountInv'
    <2>1. RowsHaveAccounts'
      BY <1>0, <1>8 DEF GaveUp, RowsHaveAccounts, Row
    <2> QED BY <1>3, <1>8, <2>1, TypeNext DEF GaveUp
  <1> DEFINE Grows(u) == /\ account[u] \in {"none", "late"}
                         /\ account' = [account EXCEPT ![u] = "live"]
                         /\ UNCHANGED <<staff, grants, req, want, ins, del>>
  <1>9. ASSUME NEW u \in Users, Grows(u)
        PROVE  /\ RowsHaveAccounts'
               /\ \A s \in Sessions :
                    /\ \A r \in ins'[s] : account'[r.user] = "live"
                    /\ \A v \in Enrolling(s) : account'[v] = "live"
                    /\ req'[s].op = "bootstrap" => \A v \in req'[s].old : Exists(v)'
                    /\ After(s) => Exists(req[s].user)'
                    /\ \A v \in Hands(s) : Exists(v)'
    <2>1. \A v \in Users : account[v] \in {"live", "gone"} => account'[v] = account[v]
      BY <1>9
    <2>2. \A s \in Sessions : Hands(s) \subseteq Users
      BY DEF Hands, Pair, Row
    <2>3. \A s \in Sessions : Enrolling(s) \subseteq Users
      BY RequestFields DEF Enrolling, Enrolls
    <2> QED BY <1>0, <1>9, <2>1, <2>2, <2>3, RequestFields DEF RowsHaveAccounts, Exists, Row, After
  <1>10. ASSUME NEW s \in Sessions, Created(s) PROVE AccountInv'
    <2>1. req[s].op \in {"provision", "bootstrap"} /\ req[s].user \in Users /\ ins[s] = {}
      BY <1>10, RequestFields DEF Created, Shape, Doing
    <2>2. Grows(req[s].user)
      BY <1>10 DEF Created
    <2>3. Exists(req[s].user)'
      BY <2>1, <2>2 DEF Exists
    <2>4. \A u \in Hands(s)' : u = req[s].user
      BY <1>10, <2>1 DEF Created, WantInv, Hands
    <2>5. \A t \in Sessions \ {s} : Hands(t)' = Hands(t) /\ (After(t)' => After(t)) /\ pc'[t] = pc[t]
      BY <1>10 DEF Created, Goto, Hands, After
    <2>6. pc'[s] # "commit"
      BY <1>10 DEF Created, Goto
    <2>7. req' = req
      BY <1>10 DEF Created
    <2>8. \A t \in Sessions : After(t)' => account'[req'[t].user] \in {"live", "gone"}
      BY <1>9, <2>1, <2>2, <2>3, <2>5, <2>7 DEF Exists
    <2>9. \A t \in Sessions : \A u \in Hands(t)' : Exists(u)'
      <3>1. \A t \in Sessions \ {s} : \A u \in Hands(t) : Exists(u)'
        BY <1>9, <2>1, <2>2
      <3>2. \A u \in Hands(s)' : Exists(u)'
        BY <2>3, <2>4, <2>7 DEF Exists
      <3>3. \A t \in Sessions \ {s} : Hands(t)' = Hands(t)
        BY <2>5
      <3> QED BY <3>1, <3>2, <3>3
    <2>11. \A t \in Sessions : Enrolling(t)' \subseteq Enrolling(t)
      BY <2>5, <2>6, <2>7 DEF Enrolling, Enrolls
    <2>10. \A t \in Sessions : \A v \in Enrolling(t)' : account'[v] = "live"
      BY ZenonT(30), <1>9, <2>1, <2>2, <2>11
    <2> QED BY ZenonT(30), <1>9, <2>1, <2>2, <2>8, <2>9, <2>10 DEF AccountInv, Exists
  <1>11. ASSUME NEW u \in Users, Lands(u) \/ Invited(u) PROVE AccountInv'
    <2>1. Grows(u) /\ UNCHANGED pc
      BY <1>11 DEF Lands, Invited
    <2>2. \A t \in Sessions : Hands(t)' = Hands(t) /\ (After(t)' => After(t)) /\ req'[t] = req[t]
      BY <2>1 DEF Hands, After
    <2>3. \A t \in Sessions : After(t)' => account'[req'[t].user] \in {"live", "gone"}
      BY <1>9, <2>1, <2>2 DEF Exists
    <2>4. \A t \in Sessions : \A v \in Hands(t)' : Exists(v)'
      <3>1. \A t \in Sessions : \A v \in Hands(t) : Exists(v)'
        BY <1>9, <2>1
      <3>2. \A t \in Sessions : Hands(t)' = Hands(t)
        BY <2>2
      <3> QED BY <3>1, <3>2
    <2>5. \A t \in Sessions : Enrolling(t)' = Enrolling(t)
      BY <2>1 DEF Enrolling, Enrolls
    <2>6. \A t \in Sessions : \A v \in Enrolling(t)' : account'[v] = "live"
      BY ZenonT(30), <1>9, <2>1, <2>5
    <2> QED BY ZenonT(30), <1>9, <2>1, <2>3, <2>4, <2>6 DEF AccountInv, Exists
  <1>12. ASSUME NEW s \in Sessions, Purge(s) PROVE AccountInv'
    <2> USE RequestFields
    <2>1. req[s].op = "bootstrap" /\ ins[s] = {} /\ req[s].old \subseteq Users
      BY <1>12 DEF Purge, Shape, Doing
    <2>2. RowsHaveAccounts'
      BY <1>0, <1>12 DEF Purge, PurgedRows, RowsHaveAccounts, Row
    <2>3. \A t \in Sessions : \A r \in ins'[t] : account'[r.user] = "live"
      BY <1>0, <1>12, <2>1 DEF Purge, Others, Row
    <2>4. \A t \in Sessions : \A u \in Enrolling(t)' : account'[u] = "live"
      <3> SUFFICES ASSUME NEW t \in Sessions, NEW u \in Enrolling(t)'
                   PROVE  account'[u] = "live"
        OBVIOUS
      <3>1. t # s /\ u \in Enrolling(t) /\ u \in Users
        BY <1>12 DEF Purge, Goto, Enrolling, Enrolls
      <3>2. u \notin req[s].old
        BY <1>12, <3>1 DEF Purge, Others
      <3> QED BY <1>0, <1>12, <3>1, <3>2 DEF Purge
    <2>5. \A u \in Users : Exists(u) => Exists(u)'
      BY <1>12 DEF Purge, Exists
    <2>6. \A t \in Sessions : Hands(t)' \subseteq Users /\ Hands(t)' \subseteq Hands(t)
      <3>1. \A t \in Sessions : Hands(t)' \subseteq Hands(t)
        BY <1>12, HandsShrink
      <3>2. \A t \in Sessions : Hands(t) \subseteq Users
        BY DEF Hands, Pair, Row
      <3> QED BY <3>1, <3>2
    <2>7. \A t \in Sessions : After(t)' => account'[req'[t].user] \in {"live", "gone"}
      BY <1>0, <1>12, <2>5 DEF Purge, Goto, After, Exists
    <2>8. \A t \in Sessions : req'[t].op = "bootstrap" => \A u \in req'[t].old : Exists(u)'
      BY <1>0, <1>12, <2>5 DEF Purge
    <2>9. \A t \in Sessions : \A u \in Hands(t)' : Exists(u)'
      BY <1>0, <2>5, <2>6
    <2> QED BY <2>2, <2>3, <2>4, <2>7, <2>8, <2>9 DEF AccountInv, Exists
  <1>13. ASSUME NEW s \in Sessions, Enlist(s), ~Abort(s) PROVE AccountInv'
    <2>1. \A t \in Sessions : \A u \in Hands(t)' : Exists(u)
      BY <1>0, <1>13, HandsShrink
    <2>2. RowsHaveAccounts' /\ req[s].op = "bootstrap"
      BY <1>0, <1>13 DEF Enlist, RowsHaveAccounts, Shape, Doing
    <2>3. \A t \in Sessions : Enrolling(t)' \subseteq Enrolling(t)
      BY <1>13 DEF Enlist, Goto, Enrolling, Enrolls
    <2> QED BY <1>0, <1>13, <2>1, <2>2, <2>3 DEF Enlist, Goto, AccountInv, Exists, After
  <1>14. CASE UNCHANGED vars
    BY <1>0, <1>14 DEF vars, tables, AccountInv, RowsHaveAccounts, Exists, After, Hands, Enrolling, Enrolls
  <1> QED BY <1>1, <1>2, <1>4, <1>5, <1>6, <1>7, <1>8, <1>10, <1>11, <1>12, <1>13, <1>14, Cases

(* A step after which no session has newly created an account, begun with  *)
(* a script, or come to hold anybody, keeps OwnInv, if it leaves those who *)
(* are being provisioned as they are.                                      *)
LEMMA OwnKept ==
  ASSUME IInv, Next,
         \A s \in Sessions : After(s)' => After(s) /\ req'[s] = req[s],
         \A s \in Sessions : req'[s].op = "bootstrap" => req'[s] = req[s],
         \A s \in Sessions : Hands(s)' \subseteq Hands(s),
         \A s \in Sessions : req'[s] = req[s] \/ Hands(s)' = {},
         \A s \in Sessions : pc'[s] = "call" /\ req'[s].op = "provision" => want'[s] # {},
         \A s \in Sessions : Own(s)' =>
           /\ staff'[req[s].user] \in {Nobody, Admin}
           /\ staff'[req[s].user] = Nobody =>
                staff[req[s].user] = Nobody /\ \A g \in grants' : g.user # req[s].user
           /\ pc'[s] \in {"preselect", "trigger"} => want'[s] # {}
           /\ pc'[s] = "place" => want'[s] # {} \/ ins'[s] # {}
           /\ pc'[s] = "enroll" => staff'[req[s].user] # Nobody \/ ins'[s] # {}
           /\ pc'[s] = "commit" => ins'[s] # {}
  PROVE  OwnInv'
  <1>1. \A s \in Sessions : Own(s)' => Own(s) /\ req'[s] = req[s]
    BY DEF Own, After
  <1>2. \A s, t \in Sessions :
          After(s)' /\ After(t)' /\ req'[s].user = req'[t].user => s = t
    BY DEF IInv, OwnInv
  <1>3. \A s, t \in Sessions :
          Own(s)' /\ req'[t].op = "bootstrap" => req'[s].user \notin req'[t].old
    BY <1>1 DEF IInv, OwnInv
  <1>4. \A s \in Sessions : \A t \in Others(s) :
          Own(s)' /\ staff'[req'[s].user] = Nobody /\ req'[s].user \in Hands(t)' => req'[t].op = "accept"
    <2> SUFFICES ASSUME NEW s \in Sessions, NEW t \in Others(s), Own(s)',
                        staff'[req'[s].user] = Nobody, req'[s].user \in Hands(t)'
                 PROVE  req'[t].op = "accept"
      OBVIOUS
    <2>1. Own(s) /\ req'[s] = req[s] /\ t \in Sessions
      BY <1>1 DEF Others
    <2>2. staff[req[s].user] = Nobody /\ req[s].user \in Hands(t) /\ req'[t] = req[t]
      BY <2>1
    <2> QED BY <2>1, <2>2 DEF IInv, OwnInv
  <1> QED BY <1>1, <1>2, <1>3, <1>4 DEF OwnInv, Others

LEMMA OwnNext == IInv /\ [Next]_vars => OwnInv'
  <1> SUFFICES ASSUME IInv, [Next]_vars PROVE OwnInv'
    OBVIOUS
  <1> USE DEF IInv, BaseInv, TypeOK
  <1>1. ASSUME NEW s \in Sessions, Begins(s) PROVE OwnInv'
    <2> PICK r \in Request, l \in Steps \ {"idle"}, w \in SUBSET Pair :
          /\ Begin(s, r, l, w)
          /\ \/ r.op = "grant" /\ l = "load" /\ w = {[user |-> r.user, role |-> r.role]}
             \/ r.op = "revoke" /\ l = "find" /\ w = {}
             \/ r.op = "provision" /\ l = "call" /\ w = {[user |-> r.user, role |-> Admin]}
             \/ /\ r.op = "accept" /\ l = "preselect" /\ account[r.user] = "live"
                /\ w = {[user |-> r.user, role |-> Admin]}
             \/ r.op = "boot" /\ l = "place" /\ w = Missing
             \/ /\ r.op = "bootstrap" /\ l \in {"call", "purge"} /\ r.old = Supers
                /\ w = {[user |-> r.user, role |-> Super]}
      BY <1>1, BeginCases
    <2>0. /\ \/ l \in {"load", "find", "call", "purge"}
             \/ l = "preselect" /\ r.op = "accept"
             \/ l = "place" /\ r.op = "boot" /\ w = Missing
          /\ r.op = "bootstrap" => r.old = Supers
          /\ l = "call" => w # {}
      OBVIOUS
    <2>1. pc' = [pc EXCEPT ![s] = l] /\ req' = [req EXCEPT ![s] = r]
            /\ want' = [want EXCEPT ![s] = w] /\ UNCHANGED <<tables, ins>> /\ pc[s] = "idle"
      BY DEF Begin, Goto
    <2>2. ~After(s) /\ ~After(s)' /\ ins[s] = {}
      BY <2>0, <2>1 DEF After, Shape
    <2>3. \A t \in Sessions \ {s} :
            (After(t)' <=> After(t)) /\ (Own(t)' <=> Own(t)) /\ req'[t] = req[t] /\ Hands(t)' = Hands(t)
      BY <2>1 DEF After, Own, Hands
    <2>4. ASSUME NEW t \in Sessions \ {s}, Own(t)
          PROVE  /\ r.op = "bootstrap" => req[t].user \notin r.old
                 /\ staff[req[t].user] = Nobody /\ req[t].user \in Hands(s)' => r.op = "accept"
      <3>1. staff[req[t].user] \in {Nobody, Admin}
        BY <2>4 DEF OwnInv
      <3>2. req[t].user \notin Supers
        BY <3>1, RolesDiffer DEF Supers
      <3>3. staff[req[t].user] = Nobody => \A k \in Missing : k.user # req[t].user
        BY PlatformAssumption DEF Missing, Pair
      <3>4. r.op = "accept" \/ Hands(s)' = {} \/ Hands(s)' = {k.user : k \in Missing}
        BY <2>0, <2>1, <2>2 DEF Hands
      <3> QED BY <2>0, <3>2, <3>3, <3>4
    <2>5. \A t \in Sessions : Own(t)' => t # s /\ Own(t)
      BY <2>2, <2>3 DEF Own
    <2>6. \A t, v \in Sessions : After(t)' /\ After(v)' /\ req'[t].user = req'[v].user => t = v
      BY <2>2, <2>3 DEF OwnInv
    <2>7. \A t \in Sessions : pc'[t] = "call" /\ req'[t].op = "provision" => want'[t] # {}
      BY <2>0, <2>1 DEF OwnInv
    <2>8. \A t, v \in Sessions : Own(t)' /\ req'[v].op = "bootstrap" => req'[t].user \notin req'[v].old
      BY <2>1, <2>3, <2>4, <2>5 DEF OwnInv
    <2>9. ASSUME NEW t \in Sessions, NEW v \in Others(t), Own(t)', staff[req'[t].user] = Nobody,
                 req'[t].user \in Hands(v)'
          PROVE  req'[v].op = "accept"
      <3>1. t # s /\ Own(t) /\ req'[t] = req[t]
        BY <2>3, <2>5, <2>9
      <3>2. CASE v = s
        BY <2>1, <2>4, <2>9, <3>1, <3>2 DEF Others
      <3>3. CASE v # s
        <4>1. Hands(v)' = Hands(v) /\ req'[v] = req[v]
          BY <2>3, <3>3 DEF Others
        <4> QED BY <2>9, <3>1, <4>1 DEF OwnInv
      <3> QED BY <3>2, <3>3
    <2> QED BY <2>1, <2>3, <2>5, <2>6, <2>7, <2>8, <2>9 DEF OwnInv, tables
  <1>2. ASSUME NEW s \in Sessions, Reads(s) PROVE OwnInv'
    <2>1. PICK l \in Steps : Moves(s, l)
      BY <1>2 DEF Reads, Steps
    <2>2. \A t \in Sessions : After(t)' => After(t)
      BY <1>2 DEF Reads, Moves, Goto, After, Shape, Doing
    <2>3. Own(s)' =>
            /\ pc'[s] \in {"preselect", "trigger"} => want[s] # {}
            /\ pc'[s] = "place" => want[s] # {} \/ ins[s] # {}
            /\ pc'[s] = "enroll" => staff[req[s].user] # Nobody \/ ins[s] # {}
            /\ pc'[s] = "commit" => ins[s] # {}
      <3> SUFFICES ASSUME Own(s)' PROVE
            /\ pc'[s] \in {"preselect", "trigger"} => want[s] # {}
            /\ pc'[s] = "place" => want[s] # {} \/ ins[s] # {}
            /\ pc'[s] = "enroll" => staff[req[s].user] # Nobody \/ ins[s] # {}
            /\ pc'[s] = "commit" => ins[s] # {}
        OBVIOUS
      <3>1. Own(s) /\ req[s].op = "provision" /\ Enrolls(s) /\ Granter(s) # {}
        BY <2>1, <2>2 DEF Own, Moves, Enrolls, Granter
      <3>2. staff[req[s].user] = Nobody => RowsOf(Asked(s)) = {}
        BY <3>1 DEF OwnInv, RowsOf, Asked
      <3>3. pc[s] # "existing"
        BY <3>1 DEF Shape, Doing
      <3>4. /\ pc[s] \in {"preselect", "trigger"} => want[s] # {}
            /\ pc[s] = "place" => want[s] # {} \/ ins[s] # {}
            /\ pc[s] = "enroll" => staff[req[s].user] # Nobody \/ ins[s] # {}
        BY <3>1 DEF OwnInv
      <3> HIDE DEF OwnInv
      <3> QED BY <1>2, <3>1, <3>2, <3>3, <3>4 DEF Reads, Moves, Goto
    <2>4. \A t \in Sessions : Own(t)' => Own(t)
      BY <2>1, <2>2 DEF Own, Moves
    <2>5. \A t \in Sessions : Own(t)' =>
            /\ pc'[t] \in {"preselect", "trigger"} => want'[t] # {}
            /\ pc'[t] = "place" => want'[t] # {} \/ ins'[t] # {}
            /\ pc'[t] = "enroll" => staff'[req[t].user] # Nobody \/ ins'[t] # {}
            /\ pc'[t] = "commit" => ins'[t] # {}
      <3> SUFFICES ASSUME NEW t \in Sessions, Own(t)' PROVE
            /\ pc'[t] \in {"preselect", "trigger"} => want'[t] # {}
            /\ pc'[t] = "place" => want'[t] # {} \/ ins'[t] # {}
            /\ pc'[t] = "enroll" => staff'[req[t].user] # Nobody \/ ins'[t] # {}
            /\ pc'[t] = "commit" => ins'[t] # {}
        OBVIOUS
      <3>1. UNCHANGED <<staff, req, want, ins>>
        BY <2>1 DEF Moves, tables
      <3>2. CASE t = s
        BY <2>3, <3>1, <3>2
      <3>3. CASE t # s
        <4>1. pc'[t] = pc[t] /\ Own(t)
          BY <2>1, <2>4, <3>3 DEF Moves, Goto
        <4> QED BY <3>1, <4>1 DEF OwnInv
      <3> QED BY <3>2, <3>3
    <2>6. l # "call"
      BY <1>2, <2>1 DEF Reads, Moves, Goto
    <2>7. \A t \in Sessions : pc'[t] = "call" /\ req'[t].op = "provision" => want'[t] # {}
      BY <2>1, <2>6 DEF Moves, Goto, OwnInv
    <2>8. \A t \in Sessions : Own(t)' =>
            /\ staff'[req[t].user] \in {Nobody, Admin}
            /\ staff'[req[t].user] = Nobody =>
                 staff[req[t].user] = Nobody /\ \A g \in grants' : g.user # req[t].user
      BY <2>1, <2>4 DEF Moves, OwnInv, tables
    <2>9. CASE pc[s] # "load"
      <3>1. \A t \in Sessions : Hands(t)' \subseteq Hands(t)
        BY <1>2, <2>9, HandsShrink
      <3>2. req' = req /\ Next
        BY <1>2, <2>1, <2>9 DEF Moves, Reads, Goto, vars
      <3> QED BY <2>2, <2>5, <2>7, <2>8, <3>1, <3>2, OwnKept
    <2>10. CASE pc[s] = "load"
      <3>1. ~After(s)' /\ (pc'[s] \in {"count", "missing"})
        BY <1>2, <2>10 DEF Reads, Moves, Goto, After
      <3>2. staff[req[s].user] # Nobody /\ req[s].op = "grant" /\ ins[s] = {}
        BY <1>2, <2>10 DEF Reads, Shape, Doing
      <3>3. \A u \in Hands(s)' : u = req[s].user
        BY <2>1, <3>2 DEF Hands, Moves, WantInv
      <3>4. \A t \in Sessions \ {s} : Hands(t)' = Hands(t)
        BY <2>1 DEF Hands, Moves, Goto
      <3>5. \A t \in Sessions : Own(t)' /\ staff[req'[t].user] = Nobody =>
              \A v \in Others(t) : req'[t].user \in Hands(v)' => req'[v].op = "accept"
        BY <2>1, <2>4, <3>2, <3>3, <3>4 DEF OwnInv, Others, Moves
      <3>6. \A t, v \in Sessions : After(t)' /\ After(v)' /\ req'[t].user = req'[v].user => t = v
        BY <2>1, <2>2 DEF OwnInv, Moves
      <3>7. \A t, v \in Sessions : Own(t)' /\ req'[v].op = "bootstrap" => req'[t].user \notin req'[v].old
        BY <2>1, <2>4 DEF OwnInv, Moves
      <3>8. req' = req /\ UNCHANGED tables
        BY <2>1 DEF Moves
      <3> QED BY <2>5, <2>7, <2>8, <3>5, <3>6, <3>7, <3>8 DEF OwnInv, tables
    <2> QED BY <2>9, <2>10
  <1>3. ASSUME NEW s \in Sessions, Next, End(s),
               \A t \in Sessions \ {s} : Own(t) =>
                 /\ staff'[req[t].user] \in {Nobody, Admin}
                 /\ pc[t] = "enroll" => staff'[req[t].user] # Nobody \/ ins[t] # {}
                 /\ staff'[req[t].user] = Nobody =>
                      staff[req[t].user] = Nobody /\ \A g \in grants' : g.user # req[t].user
        PROVE  OwnInv'
    <2>1. pc'[s] = "idle" /\ req'[s].op = "none" /\ Hands(s)' = {} /\ ~After(s)' /\ ~Own(s)'
      BY <1>3 DEF End, NoReq, Hands, After, Own
    <2>2. \A t \in Sessions \ {s} :
            /\ pc'[t] = pc[t] /\ req'[t] = req[t] /\ want'[t] = want[t] /\ ins'[t] = ins[t]
            /\ Hands(t)' = Hands(t) /\ (After(t)' <=> After(t)) /\ (Own(t)' <=> Own(t))
      BY <1>3 DEF End, Hands, After, Own
    <2>3. \A t \in Sessions : Own(t)' =>
            /\ staff'[req[t].user] \in {Nobody, Admin}
            /\ staff'[req[t].user] = Nobody =>
                 staff[req[t].user] = Nobody /\ \A g \in grants' : g.user # req[t].user
            /\ pc'[t] \in {"preselect", "trigger"} => want'[t] # {}
            /\ pc'[t] = "place" => want'[t] # {} \/ ins'[t] # {}
            /\ pc'[t] = "enroll" => staff'[req[t].user] # Nobody \/ ins'[t] # {}
            /\ pc'[t] = "commit" => ins'[t] # {}
      BY <1>3, <2>1, <2>2 DEF OwnInv
    <2>4. \A t \in Sessions : pc'[t] = "call" /\ req'[t].op = "provision" => want'[t] # {}
      BY <2>1, <2>2 DEF OwnInv
    <2>5. \A t \in Sessions : Hands(t)' \subseteq Hands(t)
      BY <2>1, <2>2
    <2>6. \A t \in Sessions : After(t)' => After(t) /\ req'[t] = req[t]
      BY <2>1, <2>2
    <2>7. \A t \in Sessions : req'[t].op = "bootstrap" => req'[t] = req[t]
      BY <2>1, <2>2
    <2>8. \A t \in Sessions : req'[t] = req[t] \/ Hands(t)' = {}
      BY <2>1, <2>2
    <2> QED BY <1>3, <2>3, <2>4, <2>5, <2>6, <2>7, <2>8, OwnKept
  <1>4. ASSUME NEW s \in Sessions, Abort(s), Next PROVE OwnInv'
    BY <1>3, <1>4 DEF Abort, tables, OwnInv
  <1>5. ASSUME NEW s \in Sessions, GaveUp(s), Next PROVE OwnInv'
    BY <1>3, <1>5 DEF GaveUp, OwnInv
  <1>6. ASSUME NEW s \in Sessions, Commit(s), Next PROVE OwnInv'
    <2> SUFFICES ASSUME NEW t \in Sessions \ {s}, Own(t)
                 PROVE  /\ staff'[req[t].user] \in {Nobody, Admin}
                        /\ pc[t] = "enroll" => staff'[req[t].user] # Nobody \/ ins[t] # {}
                        /\ staff'[req[t].user] = Nobody =>
                             staff[req[t].user] = Nobody /\ \A g \in grants' : g.user # req[t].user
      BY <1>3, <1>6 DEF Commit
    <2>1. /\ staff[req[t].user] \in {Nobody, Admin}
          /\ staff[req[t].user] = Nobody => \A g \in grants : g.user # req[t].user
          /\ pc[t] = "enroll" => staff[req[t].user] # Nobody \/ ins[t] # {}
      BY DEF OwnInv
    <2>2. /\ staff'[req[t].user] \in {staff[req[t].user], Admin}
          /\ Enrolls(s) /\ req[s].user = req[t].user => staff'[req[t].user] = Admin
      BY <1>6, RequestFields DEF Commit, Enrolled, Own
    <2>3. CASE staff'[req[t].user] = Nobody
      <3>1. staff[req[t].user] = Nobody /\ ~(Enrolls(s) /\ req[s].user = req[t].user)
        BY <2>2, <2>3, RolesDiffer
      <3>2. ASSUME NEW r \in ins[s], r.user = req[t].user PROVE FALSE
        <4>1. req[t].user \in Hands(s)
          BY <1>6, <3>2 DEF Commit, Hands
        <4>2. req[s].op = "accept"
          BY <3>1, <4>1 DEF OwnInv, Others
        <4>3. req[s].user = req[t].user
          BY <3>2, <4>2 DEF WantInv
        <4> QED BY <3>1, <4>2, <4>3 DEF Enrolls
      <3>3. grants' \subseteq grants \cup ins[s]
        BY <1>6 DEF Commit
      <3> QED BY <2>1, <3>1, <3>2, <3>3, <2>2
    <2>4. CASE staff'[req[t].user] # Nobody
      BY <2>1, <2>2, <2>4
    <2> QED BY <2>3, <2>4
  <1>7. ASSUME NEW s \in Sessions, Inserts(s), Next PROVE OwnInv'
    <2>1. \A t \in Sessions : Hands(t)' \subseteq Hands(t)
      BY <1>7, HandsShrink
    <2>2. \A t \in Sessions : (After(t)' <=> After(t)) /\ (Own(t)' <=> Own(t))
      BY <1>7 DEF Inserts, After, Own
    <2>3. pc' = pc /\ req' = req /\ pc[s] = "place" /\ ins'[s] # {} /\ UNCHANGED tables
            /\ \A t \in Sessions \ {s} : want'[t] = want[t] /\ ins'[t] = ins[t]
      BY <1>7 DEF Inserts
    <2>4. \A t \in Sessions : pc'[t] = "call" /\ req'[t].op = "provision" => want'[t] # {}
      BY <2>3 DEF OwnInv
    <2>5. \A t \in Sessions : Own(t)' =>
            /\ staff'[req[t].user] \in {Nobody, Admin}
            /\ staff'[req[t].user] = Nobody =>
                 staff[req[t].user] = Nobody /\ \A g \in grants' : g.user # req[t].user
            /\ pc'[t] \in {"preselect", "trigger"} => want'[t] # {}
            /\ pc'[t] = "place" => want'[t] # {} \/ ins'[t] # {}
            /\ pc'[t] = "enroll" => staff'[req[t].user] # Nobody \/ ins'[t] # {}
            /\ pc'[t] = "commit" => ins'[t] # {}
      BY <2>2, <2>3 DEF OwnInv, tables
    <2> QED BY <1>7, <2>1, <2>2, <2>3, <2>4, <2>5, OwnKept
  <1>8. ASSUME NEW s \in Sessions, Delete(s), Next PROVE OwnInv'
    <2>1. \A t \in Sessions : Hands(t)' \subseteq Hands(t)
      BY <1>8, HandsShrink
    <2>2. req[s].op = "revoke" /\ req' = req /\ want' = want /\ ins' = ins /\ UNCHANGED tables
            /\ \A t \in Sessions \ {s} : pc'[t] = pc[t]
      BY <1>8 DEF Delete, Goto, Shape, Doing
    <2>3. \A t \in Sessions : (After(t)' => After(t)) /\ (Own(t)' => Own(t) /\ t # s)
      BY <2>2 DEF After, Own
    <2>4. \A t \in Sessions : pc'[t] = "call" /\ req'[t].op = "provision" => want'[t] # {}
      BY <2>2 DEF OwnInv
    <2>5. \A t \in Sessions : Own(t)' =>
            /\ staff'[req[t].user] \in {Nobody, Admin}
            /\ staff'[req[t].user] = Nobody =>
                 staff[req[t].user] = Nobody /\ \A g \in grants' : g.user # req[t].user
            /\ pc'[t] \in {"preselect", "trigger"} => want'[t] # {}
            /\ pc'[t] = "place" => want'[t] # {} \/ ins'[t] # {}
            /\ pc'[t] = "enroll" => staff'[req[t].user] # Nobody \/ ins'[t] # {}
            /\ pc'[t] = "commit" => ins'[t] # {}
      BY <2>2, <2>3 DEF OwnInv, tables
    <2> QED BY <1>8, <2>1, <2>2, <2>3, <2>4, <2>5, OwnKept
  <1>9. ASSUME NEW s \in Sessions, Created(s) PROVE OwnInv'
    <2> DEFINE u == req[s].user
    <2>1. req[s].op \in {"provision", "bootstrap"} /\ u \in Users /\ ins[s] = {} /\ ~Exists(u)
      BY <1>9, RequestFields DEF Created, Shape, Doing, Exists
    <2>2. \A t \in Sessions :
            /\ After(t) => req[t].user # u
            /\ u \notin Hands(t)
            /\ req[t].op = "bootstrap" => u \notin req[t].old
      BY <2>1 DEF AccountInv
    <2>3. staff[u] = Nobody /\ \A g \in grants : g.user # u
      BY <2>1 DEF AccountInv, RowsHaveAccounts, Exists
    <2>4. /\ UNCHANGED <<staff, grants, req, want, ins>> /\ pc[s] = "call"
          /\ pc'[s] \in {"preselect", "enlist"}
          /\ \A t \in Sessions \ {s} : pc'[t] = pc[t]
      BY <1>9 DEF Created, Goto
    <2>5. \A t \in Sessions \ {s} :
            Hands(t)' = Hands(t) /\ (After(t)' <=> After(t)) /\ (Own(t)' <=> Own(t))
      BY <2>4 DEF Hands, After, Own
    <2>6. \A x \in Hands(s)' : x = u
      BY <2>1, <2>4 DEF Hands, WantInv
    <2>7. Own(s)' => req[s].op = "provision" /\ want[s] # {}
      BY <2>4 DEF Own, OwnInv
    <2>8. \A t, v \in Sessions : After(t)' /\ After(v)' /\ req'[t].user = req'[v].user => t = v
      BY <2>2, <2>4, <2>5 DEF OwnInv
    <2>9. \A t \in Sessions \ {s} : Own(t)' => req[t].user # u
      BY <2>2, <2>5 DEF Own
    <2>10. \A t \in Sessions : \A v \in Others(t) :
             Own(t)' /\ staff'[req'[t].user] = Nobody /\ req'[t].user \in Hands(v)' => req'[v].op = "accept"
      BY <2>2, <2>4, <2>5, <2>6, <2>9 DEF OwnInv, Others
    <2>11. \A t, v \in Sessions : Own(t)' /\ req'[v].op = "bootstrap" => req'[t].user \notin req'[v].old
      BY <2>2, <2>4, <2>5 DEF OwnInv
    <2>12. \A t \in Sessions : pc'[t] = "call" /\ req'[t].op = "provision" => want'[t] # {}
      BY <2>4 DEF OwnInv
    <2>13. \A t \in Sessions : Own(t)' =>
            /\ staff'[req'[t].user] \in {Nobody, Admin}
            /\ staff'[req'[t].user] = Nobody => \A g \in grants' : g.user # req'[t].user
            /\ pc'[t] \in {"preselect", "trigger"} => want'[t] # {}
            /\ pc'[t] = "place" => want'[t] # {} \/ ins'[t] # {}
            /\ pc'[t] = "enroll" => staff'[req'[t].user] # Nobody \/ ins'[t] # {}
            /\ pc'[t] = "commit" => ins'[t] # {}
      BY <2>3, <2>4, <2>5, <2>7 DEF OwnInv
    <2> QED BY <2>8, <2>10, <2>11, <2>12, <2>13 DEF OwnInv
  <1>10. ASSUME NEW x \in Users, Lands(x) \/ Invited(x), Next PROVE OwnInv'
    <2>1. UNCHANGED <<staff, grants, pc, req, want, ins>>
      BY <1>10 DEF Lands, Invited
    <2> QED BY <2>1 DEF OwnInv, Own, After, Hands
  <1>11. ASSUME NEW s \in Sessions, Purge(s), Next PROVE OwnInv'
    <2>1. \A t \in Sessions : Hands(t)' \subseteq Hands(t)
      BY <1>11, HandsShrink
    <2>2. req[s].op = "bootstrap" /\ req' = req /\ want' = want /\ ins' = ins /\ pc'[s] = "call"
            /\ grants' \subseteq grants /\ \A t \in Sessions \ {s} : pc'[t] = pc[t]
      BY <1>11 DEF Purge, Goto, Shape, Doing
    <2>3. \A t \in Sessions : (After(t)' => After(t)) /\ (Own(t)' => Own(t) /\ t # s)
      BY <2>2 DEF After, Own
    <2>4. \A x \in Users : staff[x] \in {Nobody, Admin} /\ x \notin req[s].old => staff'[x] = staff[x]
      BY <1>11, RolesDiffer DEF Purge
    <2>8. \A t \in Sessions : Own(t) => req[t].user \in Users
      BY RequestFields DEF Own
    <2>5. \A t \in Sessions : Own(t) => staff'[req[t].user] = staff[req[t].user]
      BY <2>2, <2>4, <2>8 DEF OwnInv
    <2>6. \A t \in Sessions : pc'[t] = "call" /\ req'[t].op = "provision" => want'[t] # {}
      BY <2>2 DEF OwnInv
    <2>7. \A t \in Sessions : Own(t)' =>
            /\ staff'[req[t].user] \in {Nobody, Admin}
            /\ staff'[req[t].user] = Nobody =>
                 staff[req[t].user] = Nobody /\ \A g \in grants' : g.user # req[t].user
            /\ pc'[t] \in {"preselect", "trigger"} => want'[t] # {}
            /\ pc'[t] = "place" => want'[t] # {} \/ ins'[t] # {}
            /\ pc'[t] = "enroll" => staff'[req[t].user] # Nobody \/ ins'[t] # {}
            /\ pc'[t] = "commit" => ins'[t] # {}
      BY <2>2, <2>3, <2>4, <2>5 DEF OwnInv
    <2> QED BY <1>11, <2>1, <2>2, <2>3, <2>6, <2>7, OwnKept
  <1>12. ASSUME NEW s \in Sessions, Enlist(s), ~Abort(s), Next PROVE OwnInv'
    <2>1. \A t \in Sessions : Hands(t)' \subseteq Hands(t)
      BY <1>12, HandsShrink
    <2>2. req[s].op = "bootstrap" /\ req' = req /\ want' = want /\ ins' = ins /\ grants' = grants
            /\ pc[s] = "enlist" /\ pc'[s] = "preselect" /\ \A t \in Sessions \ {s} : pc'[t] = pc[t]
      BY <1>12 DEF Enlist, Goto, Shape, Doing
    <2>3. \A t \in Sessions : (After(t)' => After(t)) /\ (Own(t)' => Own(t) /\ t # s)
      BY <2>2 DEF After, Own
    <2>4. \A t \in Sessions : Own(t) => req[t].user # req[s].user
      BY <2>2 DEF OwnInv, Own, After
    <2>5. \A t \in Sessions : Own(t) => staff'[req[t].user] = staff[req[t].user]
      BY <1>12, <2>4, RequestFields DEF Enlist, Own
    <2>6. \A t \in Sessions : pc'[t] = "call" /\ req'[t].op = "provision" => want'[t] # {}
      BY <2>2 DEF OwnInv
    <2>7. \A t \in Sessions : Own(t)' =>
            /\ staff'[req[t].user] \in {Nobody, Admin}
            /\ staff'[req[t].user] = Nobody =>
                 staff[req[t].user] = Nobody /\ \A g \in grants' : g.user # req[t].user
            /\ pc'[t] \in {"preselect", "trigger"} => want'[t] # {}
            /\ pc'[t] = "place" => want'[t] # {} \/ ins'[t] # {}
            /\ pc'[t] = "enroll" => staff'[req[t].user] # Nobody \/ ins'[t] # {}
            /\ pc'[t] = "commit" => ins'[t] # {}
      BY <2>2, <2>3, <2>5 DEF OwnInv
    <2> QED BY <1>12, <2>1, <2>2, <2>3, <2>6, <2>7, OwnKept
  <1>13. CASE UNCHANGED vars
    BY <1>13 DEF vars, tables, OwnInv, Own, After, Hands
  <1>14. CASE Next
    BY <1>1, <1>2, <1>4, <1>5, <1>6, <1>7, <1>8, <1>9, <1>10, <1>11, <1>12, <1>14, Cases
  <1> QED BY <1>13, <1>14

LEMMA NextInv == IInv /\ [Next]_vars => IInv'
  BY BaseNext, AccountNext, OwnNext DEF IInv

(* Whoever is staff or holds a grant has an account, although the script   *)
(* deletes accounts while rows for them are being inserted.                *)
THEOREM RowsHaveAccountsHolds == Spec => []RowsHaveAccounts
  <1>1. IInv => RowsHaveAccounts
    BY DEF IInv, AccountInv
  <1> QED BY InitInv, NextInv, <1>1, PTL DEF Spec

(* Whoever becomes an admin of the platform, provisioned or by an invite,  *)
(* holds the admin role from that moment, unless an accept relied on a     *)
(* grant it had found.                                                     *)
THEOREM ProvisioningIsWhole == Spec => ProvisionIsWhole
  <1>1. IInv /\ [Next]_vars =>
          [\A u \in Users : staff[u] # Admin /\ staff'[u] = Admin =>
             \/ \E g \in grants' : g.user = u /\ g.role = Admin
             \/ \E s \in Sessions : req[s].op = "accept" /\ req[s].user = u
                                      /\ pc[s] = "commit" /\ ins[s] = {}]_vars
    <2> SUFFICES ASSUME IInv, Next, NEW u \in Users, staff[u] # Admin, staff'[u] = Admin,
                        ~\E s \in Sessions : req[s].op = "accept" /\ req[s].user = u
                                             /\ pc[s] = "commit" /\ ins[s] = {}
                 PROVE  \E g \in grants' : g.user = u /\ g.role = Admin
      OBVIOUS
    <2> USE DEF IInv, BaseInv, TypeOK
    <2>1. PICK s \in Sessions : Commit(s)
      BY SMTT(30), Cases, BeginCases, RolesDiffer
         DEF Begin, Reads, Moves, Abort, Inserts, Delete, Created, GaveUp, Purge, Enlist, Lands, Invited, tables
    <2>2. req[s].op \in {"provision", "accept"} /\ u = req[s].user /\ pc[s] = "commit"
      BY <2>1 DEF Commit, Enrolled, Enrolls
    <2>3. PICK r \in ins[s] : TRUE
      BY <2>2 DEF OwnInv, Own, After
    <2>4. r.user = u /\ r.role = Admin
      BY <2>2, RequestFields DEF WantInv
    <2> QED BY <2>1, <2>3, <2>4 DEF Commit
  <1> QED BY InitInv, NextInv, <1>1, PTL DEF Spec, ProvisionIsWhole
=============================================================================
