--------------------------- MODULE Onboarding_proofs ---------------------------
(***************************************************************************)
(* For every number of users, sessions and tenants, and every page size:   *)
(* the types of Onboarding, one workspace for each user, one tenant for    *)
(* each slug, and pages that repeat and skip nothing.                      *)
(***************************************************************************)
EXTENDS Onboarding, FiniteSetTheorems, WellFoundedInduction, TLAPS

(* What a session holds at its statements. *)
Held == {"member", "slug", "insert", "commit"}
Shape ==
  \A s \in Sessions :
    /\ pc[s] \in {"lock", "member", "slug"} => user[s] \in Users
    /\ pc[s] # "idle" => user[s] \in Users \cup {Operator} /\ name[s] \in Names
    /\ id[s] # Nobody <=> pc[s] = "commit"

(* A founder is a member of what it founded, so the check of the members   *)
(* finds it; and the lock lets one session of each user past that check.   *)
FounderInv ==
  /\ OneWorkspaceEach
  /\ \A u \in Users, i \in Ids : Founder(u, i) => <<u, i>> \in members
  /\ \A s, t \in Sessions :
       user[s] = user[t] /\ user[s] \in Users /\ pc[s] \in Held /\ pc[t] \in Held => s = t
  /\ \A s \in Sessions, i \in Ids :
       user[s] \in Users /\ pc[s] \in Held \ {"member"} => ~Founder(user[s], i)

(* The unique key, for what is not committed yet. *)
SlugInv ==
  /\ SlugsUnique
  /\ \A s, t \in Inserted : Mine(s) = Mine(t) \/ id[s] = id[t] => s = t
  /\ \A s \in Inserted : id[s] \notin There /\ \A i \in There : Slug(i) # Mine(s)

(* Behind the cursor is what was seen; before it, what is still to come. *)
WalkInv ==
  /\ \A i \in walk.due : i \in There /\ i < walk.before
  /\ \A i \in walk.seen : walk.before <= i

IInv == TypeOK /\ Shape /\ FounderInv /\ SlugInv /\ WalkInv

----------------------------------------------------------------------------
(* Numbers *)

LEMMA Sizes ==
  /\ Cardinality(Ids) \in Nat /\ IsFiniteSet(Ids) /\ Ids = 1..Cardinality(Ids)
  /\ Top = Cardinality(Ids) + 1 /\ Nums = 1..Top /\ Ids \subseteq 1..Top /\ Ids \subseteq Nat
  /\ Limit \in Nat \ {0}
  <1>1. Cardinality(Ids) \in Nat
    BY OnboardingAssumption, FS_CardinalityType
  <1>2. Top = Cardinality(Ids) + 1 /\ Nums = 1..Top
    BY DEF Top, Nums
  <1> QED BY <1>1, <1>2, OnboardingAssumption

LEMMA Nobodies ==
  /\ Operator \notin Users /\ Nobody \notin Users /\ Nobody # Operator
  /\ Nobody \notin Ids /\ Nobody \notin Tenant
  BY OnboardingAssumption

Less == {p \in Nat \X Nat : p[1] < p[2]}

LEMMA LessWF == IsWellFoundedOn(Less, Nat)
  <1>1. Less = OpToRel(<, Nat)
    BY DEF Less, OpToRel
  <1> QED BY <1>1, NatLessThanWellFounded

LEMMA LeastExists ==
  ASSUME NEW S \in SUBSET Nat, S # {}
  PROVE  \E i \in S : \A j \in S : i <= j
  <1>1. PICK i \in S : \A j \in S : ~ (<<j, i>> \in Less)
    BY LessWF, WFMin
  <1>2. \A j \in S : i <= j
    <2> SUFFICES ASSUME NEW j \in S, j < i PROVE FALSE
      OBVIOUS
    <2>1. <<j, i>> \in Less
      BY DEF Less
    <2> QED BY <1>1, <2>1
  <1> QED BY <1>2

(* The operators that choose the least: a suffix, and the cursor. *)
LEMMA FirstFreeType ==
  ASSUME NEW S \in SUBSET Nums, S # Nums
  PROVE  FirstFree(S) \in Nums
  <1>1. Nums \ S \in SUBSET Nat /\ Nums \ S # {}
    <2>1. Nums \in SUBSET Nat
      BY Sizes
    <2>2. Nums \ S # {}
      OBVIOUS
    <2> QED BY <2>1, <2>2
  <1>2. PICK k \in Nums \ S : \A j \in Nums \ S : k <= j
    BY <1>1, LeastExists
  <1>3. ASSUME NEW j \in Nums, j < k PROVE j \in S
    <2>1. j \in Nat /\ k \in Nat
      BY Sizes
    <2> QED BY <1>2, <1>3, <2>1
  <1> QED BY <1>2, <1>3 DEF FirstFree

LEMMA LeastIs ==
  ASSUME NEW S \in SUBSET Nat, S # {}
  PROVE  Least(S) \in S /\ \A j \in S : Least(S) <= j
  BY LeastExists DEF Least

(* There are more suffixes than tenants: one is free. *)
LEMMA VisibleType ==
  ASSUME TypeOK, NEW n
  PROVE  Visible(n) \in SUBSET Nums /\ Visible(n) # Nums
  <1>1. Visible(n) \in SUBSET Nums
    BY DEF Visible
  <1>2. ASSUME Visible(n) = Nums PROVE FALSE
    <2> DEFINE f == [k \in Nums |-> CHOOSE i \in Ids : Slug(i) = <<n, k>>]
    <2>1. \A k \in Nums : \E i \in Ids : Slug(i) = <<n, k>>
      BY <1>2 DEF Visible, There
    <2>2. \A k \in Nums : f[k] \in Ids /\ Slug(f[k]) = <<n, k>>
      BY <2>1
    <2>3. f \in [Nums -> Ids]
      BY <2>2
    <2>4. IsFiniteSet(Nums) /\ Cardinality(Nums) = Cardinality(Ids) + 1
      BY Sizes, FS_Interval
    <2>5. PICK x, y \in Nums : x # y /\ f[x] = f[y]
      <3>1. Cardinality(Ids) < Cardinality(Nums)
        BY <2>4, Sizes
      <3> HIDE DEF f
      <3> QED BY SMTT(30), <2>3, <2>4, <3>1, Sizes, FS_PigeonHole
    <2> QED BY <2>2, <2>5
  <1> QED BY <1>1, <1>2

----------------------------------------------------------------------------
(* Types *)

LEMMA InitType == Init => TypeOK
  BY Sizes DEF Init, TypeOK, Points, NoWalk

LEMMA EndType ==
  ASSUME TypeOK, NEW s \in Sessions, End(s)
  PROVE  /\ pc' \in [Sessions -> Points] /\ user' \in [Sessions -> Users \cup {Operator, Nobody}]
         /\ name' \in [Sessions -> Names \cup {Nobody}]
         /\ num' \in [Sessions -> Nums] /\ id' \in [Sessions -> Ids \cup {Nobody}]
  BY Sizes DEF TypeOK, End, Goto, Points

LEMMA AbortType ==
  ASSUME TypeOK, NEW s \in Sessions, Abort(s)
  PROVE  TypeOK'
  BY EndType DEF Abort, TypeOK, committed, Tenant

(* The page is a part of what is before the cursor, and none of the rest   *)
(* is newer than one of its rows.                                          *)
LEMMA PageIs ==
  ASSUME TypeOK, Cardinality(Older) > Limit
  PROVE  /\ Page \subseteq Older /\ Older \subseteq Ids /\ Cursor \in Page
         /\ \A i \in Page : Cursor <= i
         /\ \A i \in Older \ Page : i < Cursor
  <1>1. Page \subseteq Older /\ Older \subseteq Ids /\ IsFiniteSet(Older) /\ Older \in SUBSET Nat
    <2>1. Page \subseteq Older /\ Older \in SUBSET Ids
      BY DEF Page, Newest, Older, There
    <2> QED BY <2>1, Sizes, FS_Subset
  <1>2. Page # {}
    <2>1. Older # {}
      <3>1. Cardinality({}) = 0 /\ ~(0 > Limit)
        BY FS_EmptySet, Sizes
      <3> QED BY <3>1
    <2> DEFINE Mirror == {Top - i : i \in Older}
    <2>2. Mirror \in SUBSET Nat /\ Mirror # {}
      <3>1. \A i \in Older : Top - i \in Nat
        BY <1>1, Sizes
      <3> QED BY <2>1, <3>1
    <2>3. PICK m \in Mirror : \A n \in Mirror : m <= n
      <3> HIDE DEF Mirror
      <3> QED BY <2>2, LeastExists
    <2>4. PICK i \in Older : m = Top - i
      BY <2>3
    <2>5. ASSUME NEW j \in Older PROVE ~(j > i)
      <3>1. Top - j \in Mirror /\ j \in Nat /\ i \in Nat /\ Top \in Nat
        BY <1>1, Sizes
      <3> HIDE DEF Mirror
      <3>2. Top - i <= Top - j
        BY <2>3, <2>4, <3>1
      <3> QED BY <3>1, <3>2
    <2>6. {j \in Older : j > i} = {}
      BY <2>5
    <2>7. Cardinality({j \in Older : j > i}) < Limit
      <3>1. Cardinality({}) = 0 /\ 0 < Limit
        BY FS_EmptySet, Sizes
      <3> QED BY <2>6, <3>1
    <2> QED BY <2>4, <2>7 DEF Page, Newest
  <1>3. Page \in SUBSET Nat
    BY <1>1, Sizes
  <1>4. Cursor \in Page /\ \A i \in Page : Cursor <= i
    BY <1>2, <1>3, LeastIs DEF Cursor
  <1>5. ASSUME NEW i \in Older \ Page, ~(i < Cursor) PROVE FALSE
    <2> DEFINE Above(n) == {j \in Older : j > n}
    <2>1. i \in Nat /\ Cursor \in Nat /\ Cursor <= i
      BY <1>1, <1>3, <1>4, <1>5, Sizes
    <2>2. Above(i) \subseteq Above(Cursor)
      <3> SUFFICES ASSUME NEW j \in Older, j > i PROVE j > Cursor
        OBVIOUS
      <3>1. j \in Nat
        BY <1>1
      <3> QED BY <2>1, <3>1
    <2>3. IsFiniteSet(Above(Cursor)) /\ Above(Cursor) \subseteq Older
      BY <1>1, FS_Subset
    <2>4. /\ Cardinality(Above(i)) <= Cardinality(Above(Cursor))
          /\ Cardinality(Above(i)) \in Nat /\ Cardinality(Above(Cursor)) \in Nat
      <3> HIDE DEF Above
      <3> QED BY <2>2, <2>3, FS_Subset, FS_CardinalityType
    <2>5. Cardinality(Above(Cursor)) < Limit /\ ~(Cardinality(Above(i)) < Limit)
      BY <1>1, <1>4 DEF Page, Newest
    <2> HIDE DEF Above
    <2> QED BY <2>4, <2>5, Sizes
  <1> QED BY <1>1, <1>4, <1>5

(* What fits on one page is all on it. *)
LEMMA LastPage ==
  ASSUME TypeOK, ~(Cardinality(Older) > Limit)
  PROVE  Older \subseteq Page
  <1>1. Older \subseteq Ids /\ IsFiniteSet(Older) /\ Older \in SUBSET Nat
    <2>1. Older \in SUBSET Ids
      BY DEF Older, There
    <2> QED BY <2>1, Sizes, FS_Subset
  <1> SUFFICES ASSUME NEW i \in Older PROVE Cardinality({j \in Older : j > i}) < Limit
    BY DEF Page, Newest
  <1>2. {j \in Older : j > i} \subseteq Older \ {i}
    BY <1>1
  <1>3. IsFiniteSet(Older \ {i}) /\ Cardinality(Older \ {i}) = Cardinality(Older) - 1
    BY <1>1, FS_RemoveElement
  <1>4. /\ IsFiniteSet({j \in Older : j > i})
        /\ Cardinality({j \in Older : j > i}) <= Cardinality(Older \ {i})
    BY <1>2, <1>3, FS_Subset
  <1>5. Cardinality({j \in Older : j > i}) \in Nat /\ Cardinality(Older) \in Nat
    BY <1>1, <1>4, FS_CardinalityType
  <1> QED BY <1>3, <1>4, <1>5, Sizes

LEMMA TypeNext == TypeOK /\ Shape /\ [Next]_vars => TypeOK'
  <1> SUFFICES ASSUME TypeOK, Shape, [Next]_vars PROVE TypeOK'
    OBVIOUS
  <1> USE DEF TypeOK, committed, session, Goto, Tenant
  <1>1. ASSUME NEW s \in Sessions, BeginOnboard(s) \/ Lock(s) PROVE TypeOK'
    BY <1>1 DEF BeginOnboard, Lock, Points
  <1>2. ASSUME NEW s \in Sessions, CheckMember(s) PROVE TypeOK'
    <2>1. CASE Abort(s)
      BY <2>1, AbortType
    <2> QED BY <1>2, <2>1 DEF CheckMember, Points
  <1>3. ASSUME NEW s \in Sessions, PickSlug(s) PROVE TypeOK'
    <2>1. FirstFree(Visible(name[s])) \in Nums
      BY VisibleType, FirstFreeType
    <2> QED BY <1>3, <2>1 DEF PickSlug, Points
  <1>4. ASSUME NEW s \in Sessions, Insert(s) PROVE TypeOK'
    <2>1. CASE Abort(s)
      BY <2>1, AbortType
    <2> QED BY <1>4, <2>1 DEF Insert, Points, Unclaimed
  <1>5. ASSUME NEW s \in Sessions, Commit(s) PROVE TypeOK'
    <2>1. /\ user[s] \in Users \cup {Operator} /\ name[s] \in Names /\ id[s] \in Ids
          /\ num[s] \in Nums
      BY <1>5 DEF Commit, Inserted, Shape
    <2>2. Joined(s) \subseteq Users \X Ids
      BY <2>1 DEF Joined
    <2>3. tenants' \in [Ids -> Tenant \cup {Nobody}] /\ members' \subseteq Users \X Ids
      BY <1>5, <2>1, <2>2 DEF Commit
    <2> QED BY <1>5, <2>3, EndType DEF Commit
  <1>6. ASSUME NEW s \in Sessions, CutShort(s) PROVE TypeOK'
    BY <1>6, AbortType DEF CutShort
  <1>7. ASSUME NEW s \in Sessions, BeginCreate(s) PROVE TypeOK'
    <2>1. \A x \in Typed : x[1] \in Names /\ x[2] \in Nums
      BY OnboardingAssumption
    <2> QED BY <1>7, <2>1 DEF BeginCreate, Points
  <1>8. ASSUME NEW u \in Users, NEW i \in Ids, Join(u, i) PROVE TypeOK'
    BY <1>8 DEF Join
  <1>9. CASE BeginWalk
    BY <1>9, Sizes DEF BeginWalk, There
  <1>10. CASE NextPage
    <2>1. CASE Cardinality(Older) > Limit
      <3>1. Cursor \in Ids /\ Page \subseteq Ids
        BY <2>1, PageIs
      <3>2. walk' = [walk EXCEPT !.before = Cursor, !.seen = @ \cup Page, !.due = @ \ Page]
        BY <1>10, <2>1 DEF NextPage
      <3>3. Cursor \in 0..Top
        BY <3>1, Sizes
      <3>4. walk' \in [on : BOOLEAN, before : 0..Top, seen : SUBSET Ids, due : SUBSET Ids]
        BY <3>1, <3>2, <3>3
      <3> QED BY <1>10, <3>4 DEF NextPage
    <2>2. CASE ~(Cardinality(Older) > Limit)
      BY <1>10, <2>2, Sizes DEF NextPage, NoWalk
    <2> QED BY <2>1, <2>2
  <1>11. CASE UNCHANGED vars
    BY <1>11 DEF vars
  <1> QED BY <1>1, <1>2, <1>3, <1>4, <1>5, <1>6, <1>7, <1>8, <1>9, <1>10, <1>11 DEF Next

----------------------------------------------------------------------------
(* What the sessions are at *)

LEMMA EndShape ==
  ASSUME TypeOK, Shape, NEW s \in Sessions, End(s)
  PROVE  Shape'
  BY Nobodies DEF TypeOK, Shape, End, Goto

LEMMA NextShape == TypeOK /\ Shape /\ [Next]_vars => Shape'
  <1> SUFFICES ASSUME TypeOK, Shape, [Next]_vars PROVE Shape'
    OBVIOUS
  <1> USE DEF TypeOK, Shape, Goto, committed, session
  <1>1. ASSUME NEW s \in Sessions, BeginOnboard(s) \/ Lock(s) \/ PickSlug(s) PROVE Shape'
    BY <1>1 DEF BeginOnboard, Lock, PickSlug
  <1>2. ASSUME NEW s \in Sessions, CheckMember(s) PROVE Shape'
    BY <1>2, EndShape DEF CheckMember, Abort
  <1>3. ASSUME NEW s \in Sessions, Insert(s) PROVE Shape'
    <2>1. CASE Abort(s)
      BY <2>1, EndShape DEF Abort
    <2>2. CASE ~Refused(s) /\ pc[s] = "insert"
      <3>1. PICK i \in Ids : id' = [id EXCEPT ![s] = i]
        BY <1>3, <2>1, <2>2 DEF Insert, Unclaimed
      <3>2. i # Nobody /\ pc' = [pc EXCEPT ![s] = "commit"] /\ UNCHANGED <<user, name>>
        BY <1>3, <2>2, Nobodies DEF Insert
      <3>3. id'[s] = i /\ pc'[s] = "commit"
        BY <3>1, <3>2
      <3> QED BY <2>2, <3>1, <3>2, <3>3
    <2> QED BY <1>3, <2>1, <2>2 DEF Insert
  <1>4. ASSUME NEW s \in Sessions, Commit(s) \/ CutShort(s) PROVE Shape'
    BY <1>4, EndShape DEF Commit, CutShort, Abort
  <1>5. ASSUME NEW s \in Sessions, BeginCreate(s) PROVE Shape'
    <2>1. \A x \in Typed : x[1] \in Names
      BY OnboardingAssumption
    <2> QED BY <1>5, <2>1, Nobodies DEF BeginCreate
  <1>6. ASSUME NEW u \in Users, NEW i \in Ids, Join(u, i) PROVE Shape'
    BY <1>6 DEF Join
  <1>7. CASE BeginWalk \/ NextPage \/ UNCHANGED vars
    BY <1>7 DEF BeginWalk, NextPage, vars
  <1> QED BY <1>1, <1>2, <1>3, <1>4, <1>5, <1>6, <1>7 DEF Next

LEMMA InitShape == Init => Shape
  BY Nobodies DEF Init, Shape

(* What is committed, and what the sessions and the walk hold, is of the   *)
(* kinds the code writes; a free suffix is found for every name.           *)
THEOREM TypeCorrect == Spec => []TypeOK
  BY InitType, InitShape, TypeNext, NextShape, PTL DEF Spec

----------------------------------------------------------------------------
(* The steps of the sessions, by what they do to the tenants *)

(* A session that ends without a commit, or goes on without an insert. *)
Steps(s) ==
  \/ BeginOnboard(s) \/ Lock(s) \/ CheckMember(s) \/ PickSlug(s) \/ CutShort(s) \/ BeginCreate(s)
  \/ Insert(s) /\ Abort(s)
Inserts(s) ==
  /\ pc[s] = "insert" /\ ~Refused(s)
  /\ \A t \in Others(s) \cap Inserted : Mine(t) # Mine(s)
  /\ id'[s] \in Unclaimed /\ id' = [id EXCEPT ![s] = id'[s]]
  /\ pc' = [pc EXCEPT ![s] = "commit"]
  /\ UNCHANGED <<committed, user, name, num, walk>>

LEMMA InsertKinds ==
  ASSUME TypeOK, NEW s \in Sessions, Insert(s)
  PROVE  Steps(s) \/ Inserts(s)
  <1>1. CASE Refused(s)
    BY <1>1 DEF Insert, Steps
  <1>2. CASE ~Refused(s)
    <2>1. PICK i \in Unclaimed : id' = [id EXCEPT ![s] = i]
      BY <1>2 DEF Insert
    <2>2. id'[s] = i
      BY <2>1 DEF TypeOK
    <2> QED BY <1>2, <2>1, <2>2 DEF Insert, Inserts, Goto
  <1> QED BY <1>1, <1>2

LEMMA NextKinds ==
  ASSUME TypeOK, [Next]_vars
  PROVE  \/ \E s \in Sessions : Steps(s) \/ Inserts(s) \/ Commit(s)
         \/ \E u \in Users, i \in Ids : Join(u, i)
         \/ BeginWalk \/ NextPage \/ UNCHANGED vars
  <1>1. ASSUME NEW s \in Sessions,
               \/ BeginOnboard(s) \/ Lock(s) \/ CheckMember(s) \/ PickSlug(s) \/ Insert(s)
               \/ Commit(s) \/ CutShort(s) \/ BeginCreate(s)
        PROVE  Steps(s) \/ Inserts(s) \/ Commit(s)
    BY <1>1, InsertKinds DEF Steps
  <1> QED BY <1>1 DEF Next

(* What the other sessions hold is theirs. *)
LEMMA StepsFrame ==
  ASSUME TypeOK, Shape, NEW s \in Sessions, Steps(s)
  PROVE  /\ UNCHANGED <<committed, walk>>
         /\ \A t \in Sessions \ {s} : /\ pc'[t] = pc[t] /\ user'[t] = user[t] /\ name'[t] = name[t]
                                      /\ num'[t] = num[t] /\ id'[t] = id[t]
         /\ pc'[s] # "commit"
         /\ pc'[s] \in Held /\ user'[s] \in Users =>
              /\ user'[s] = user[s]
              /\ \/ pc[s] \in Held
                 \/ pc[s] = "lock" /\ pc'[s] = "member" /\ LockFree(s)
              /\ pc[s] = "member" => pc'[s] = "slug" /\ \A i \in Ids : <<user[s], i>> \notin members
  <1> USE DEF TypeOK, Shape, Goto, committed, Held
  <1>1. ASSUME End(s) PROVE /\ pc'[s] = "idle"
                            /\ \A t \in Sessions \ {s} : /\ pc'[t] = pc[t] /\ user'[t] = user[t]
                                 /\ name'[t] = name[t] /\ num'[t] = num[t] /\ id'[t] = id[t]
    BY <1>1 DEF End
  <1>2. CASE Abort(s)
    BY <1>1, <1>2 DEF Abort
  <1>3. CASE BeginOnboard(s)
    BY <1>3 DEF BeginOnboard
  <1>4. CASE Lock(s)
    BY <1>4 DEF Lock
  <1>5. CASE CheckMember(s)
    BY <1>2, <1>5 DEF CheckMember
  <1>6. CASE PickSlug(s)
    BY <1>6 DEF PickSlug
  <1>7. CASE CutShort(s)
    BY <1>2, <1>7 DEF CutShort
  <1>8. CASE BeginCreate(s)
    <2>1. user'[s] = Operator
      BY <1>8 DEF BeginCreate
    <2> QED BY <1>8, <2>1, Nobodies DEF BeginCreate
  <1> QED BY <1>2, <1>3, <1>4, <1>5, <1>6, <1>7, <1>8 DEF Steps

LEMMA CommitFrame ==
  ASSUME TypeOK, Shape, NEW s \in Sessions, Commit(s)
  PROVE  /\ pc[s] = "commit" /\ id[s] \in Ids /\ pc'[s] = "idle"
         /\ tenants' = [tenants EXCEPT ![id[s]] =
                          [name |-> name[s], num |-> num[s], by |-> user[s]]]
         /\ tenants'[id[s]] # Nobody /\ tenants'[id[s]].by = user[s]
         /\ tenants'[id[s]].name = name[s] /\ tenants'[id[s]].num = num[s]
         /\ \A i \in Ids \ {id[s]} : tenants'[i] = tenants[i]
         /\ members' = members \cup Joined(s) /\ UNCHANGED walk
         /\ \A t \in Sessions \ {s} : /\ pc'[t] = pc[t] /\ user'[t] = user[t] /\ name'[t] = name[t]
                                      /\ num'[t] = num[t] /\ id'[t] = id[t]
  <1>1. pc[s] = "commit" /\ id[s] \in Ids /\ End(s) /\ UNCHANGED walk
    BY DEF Commit, Inserted, Shape, TypeOK
  <1>2. /\ pc'[s] = "idle"
        /\ \A t \in Sessions \ {s} : /\ pc'[t] = pc[t] /\ user'[t] = user[t] /\ name'[t] = name[t]
                                     /\ num'[t] = num[t] /\ id'[t] = id[t]
    BY <1>1 DEF End, Goto, TypeOK
  <1> DEFINE new == [name |-> name[s], num |-> num[s], by |-> user[s]]
  <1>3. /\ tenants' = [tenants EXCEPT ![id[s]] = new]
        /\ members' = members \cup Joined(s)
    BY DEF Commit
  <1>4. new \in Tenant
    BY <1>1 DEF Tenant, Shape, TypeOK
  <1>5. tenants'[id[s]] = new /\ \A i \in Ids \ {id[s]} : tenants'[i] = tenants[i]
    BY <1>1, <1>3 DEF TypeOK
  <1> QED BY <1>1, <1>2, <1>3, <1>4, <1>5, Nobodies

----------------------------------------------------------------------------
(* One workspace for each user *)

LEMMA InitFounder == Init => FounderInv
  BY DEF Init, FounderInv, OneWorkspaceEach, Founder, Held

LEMMA StepsFounder ==
  ASSUME TypeOK, Shape, FounderInv, NEW s \in Sessions, Steps(s)
  PROVE  FounderInv'
  <1> USE DEF committed
  <1>1. UNCHANGED <<committed, walk>>
    BY StepsFrame
  <1>2. OneWorkspaceEach' /\ \A u \in Users, i \in Ids : Founder(u, i)' => <<u, i>> \in members'
    BY <1>1 DEF FounderInv, OneWorkspaceEach, Founder
  <1>3. \A t \in Sessions \ {s} : pc'[t] = pc[t] /\ user'[t] = user[t]
    BY StepsFrame
  <1>4. ASSUME NEW t \in Sessions \ {s}, user'[s] = user'[t], user'[s] \in Users,
               pc'[s] \in Held, pc'[t] \in Held
        PROVE  FALSE
    <2>1. user'[s] = user[s] /\ (pc[s] \in Held \/ LockFree(s))
      BY <1>4, StepsFrame
    <2>2. pc[t] \in Held /\ user[t] = user[s] /\ user[s] \in Users
      BY <1>3, <1>4, <2>1
    <2>3. CASE pc[s] \in Held
      BY <2>2, <2>3 DEF FounderInv
    <2>4. CASE LockFree(s)
      BY <2>2, <2>4 DEF LockFree, Others, Held
    <2> QED BY <2>1, <2>3, <2>4
  <1>5. \A t, r \in Sessions :
          user'[t] = user'[r] /\ user'[t] \in Users /\ pc'[t] \in Held /\ pc'[r] \in Held => t = r
    BY <1>3, <1>4 DEF FounderInv
  <1>6. ASSUME NEW i \in Ids, user'[s] \in Users, pc'[s] \in Held \ {"member"}
        PROVE  ~Founder(user'[s], i)
    <2>1. /\ user'[s] = user[s] /\ pc[s] \in Held
          /\ pc[s] = "member" => \A j \in Ids : <<user[s], j>> \notin members
      BY <1>6, StepsFrame
    <2> QED BY <1>6, <2>1 DEF FounderInv
  <1>7. \A t \in Sessions, i \in Ids :
          user'[t] \in Users /\ pc'[t] \in Held \ {"member"} => ~Founder(user'[t], i)
    BY <1>3, <1>6 DEF FounderInv
  <1>8. \A t \in Sessions, i \in Ids : Founder(user[t], i)' = Founder(user'[t], i)
    BY <1>1 DEF Founder
  <1> QED BY <1>2, <1>5, <1>7, <1>8 DEF FounderInv

LEMMA CommitFounder ==
  ASSUME TypeOK, Shape, FounderInv, NEW s \in Sessions, Commit(s)
  PROVE  FounderInv'
  <1>1. /\ pc[s] = "commit" /\ id[s] \in Ids /\ pc'[s] = "idle"
        /\ tenants'[id[s]] # Nobody /\ tenants'[id[s]].by = user[s]
        /\ \A i \in Ids \ {id[s]} : tenants'[i] = tenants[i]
        /\ members' = members \cup Joined(s)
        /\ \A t \in Sessions \ {s} : pc'[t] = pc[t] /\ user'[t] = user[t]
    BY CommitFrame
  <1>3. \A u : \A i \in Ids : Founder(u, i)' <=> IF i = id[s] THEN u = user[s] ELSE Founder(u, i)
    BY <1>1 DEF Founder
  <1>4. user[s] \in Users => \A i \in Ids : ~Founder(user[s], i)
    BY <1>1 DEF FounderInv, Held
  <1>5. OneWorkspaceEach'
    BY <1>3, <1>4 DEF FounderInv, OneWorkspaceEach
  <1>6. \A u \in Users, i \in Ids : Founder(u, i)' => <<u, i>> \in members'
    BY <1>1, <1>3, Nobodies DEF FounderInv, Joined
  <1>7. \A t, r \in Sessions :
          user'[t] = user'[r] /\ user'[t] \in Users /\ pc'[t] \in Held /\ pc'[r] \in Held => t = r
    BY <1>1 DEF FounderInv, Held
  <1>8. ASSUME NEW t \in Sessions, NEW i \in Ids,
               user'[t] \in Users, pc'[t] \in Held \ {"member"}
        PROVE  ~Founder(user[t], i)' /\ user'[t] = user[t]
    <2>1. t # s /\ user'[t] = user[t] /\ pc'[t] = pc[t] /\ pc[t] \in Held
      BY <1>1, <1>8 DEF Held
    <2>2. user[t] # user[s]
      BY <1>1, <1>8, <2>1 DEF FounderInv, Held
    <2>3. ~Founder(user[t], i)
      BY <1>8, <2>1 DEF FounderInv
    <2> DEFINE u == user[t]
    <2>4. Founder(u, i)' <=> tenants'[i] # Nobody /\ tenants'[i].by = u'
      BY DEF Founder
    <2>5. u' = u
      BY <2>1
    <2> QED BY <1>1, <2>1, <2>2, <2>3, <2>4, <2>5 DEF Founder
  <1> QED BY <1>5, <1>6, <1>7, <1>8 DEF FounderInv

LEMMA InsertsFounder ==
  ASSUME TypeOK, FounderInv, NEW s \in Sessions, Inserts(s)
  PROVE  FounderInv'
  <1>1. UNCHANGED <<committed, user>> /\ pc[s] = "insert" /\ pc' = [pc EXCEPT ![s] = "commit"]
    BY DEF Inserts
  <1>2. \A t \in Sessions : /\ pc'[t] \in Held <=> pc[t] \in Held
                            /\ pc'[t] \in Held \ {"member"} <=> pc[t] \in Held \ {"member"}
    BY <1>1 DEF TypeOK, Held
  <1> QED BY <1>1, <1>2 DEF FounderInv, OneWorkspaceEach, Founder, committed

LEMMA NextFounder == TypeOK /\ Shape /\ FounderInv /\ [Next]_vars => FounderInv'
  <1> SUFFICES ASSUME TypeOK, Shape, FounderInv, [Next]_vars PROVE FounderInv'
    OBVIOUS
  <1>1. ASSUME NEW s \in Sessions, Steps(s) \/ Inserts(s) \/ Commit(s) PROVE FounderInv'
    BY <1>1, StepsFounder, InsertsFounder, CommitFounder
  <1>2. ASSUME NEW u \in Users, NEW i \in Ids, Join(u, i) PROVE FounderInv'
    BY <1>2 DEF Join, FounderInv, OneWorkspaceEach, Founder, session
  <1>3. CASE BeginWalk \/ NextPage \/ UNCHANGED vars
    BY <1>3 DEF BeginWalk, NextPage, vars, FounderInv, OneWorkspaceEach, Founder,
                committed, session
  <1> QED BY <1>1, <1>2, <1>3, NextKinds

(* Under the advisory lock, which spans the check of the membership and    *)
(* the commit, no interleaving gives a user two workspaces.                *)
THEOREM OneWorkspaceHolds == Spec => []OneWorkspaceEach
  <1>1. FounderInv => OneWorkspaceEach
    BY DEF FounderInv
  <1> QED BY <1>1, InitType, InitShape, InitFounder, TypeNext, NextShape, NextFounder, PTL DEF Spec

----------------------------------------------------------------------------
(* One tenant for each slug *)

LEMMA InitSlug == Init => SlugInv
  BY Nobodies DEF Init, SlugInv, SlugsUnique, There, Inserted

LEMMA StepsSlug ==
  ASSUME TypeOK, Shape, SlugInv, NEW s \in Sessions, Steps(s)
  PROVE  SlugInv'
  <1>1. /\ UNCHANGED committed /\ pc'[s] # "commit"
        /\ \A t \in Sessions \ {s} : /\ pc'[t] = pc[t] /\ name'[t] = name[t]
                                     /\ num'[t] = num[t] /\ id'[t] = id[t]
    BY StepsFrame
  <1>2. Inserted' = Inserted \ {s}
    BY <1>1 DEF Inserted
  <1> QED BY <1>1, <1>2 DEF SlugInv, SlugsUnique, There, Slug, Mine, Inserted, committed

LEMMA InsertsSlug ==
  ASSUME TypeOK, Shape, SlugInv, NEW s \in Sessions, Inserts(s)
  PROVE  SlugInv'
  <1>1. /\ UNCHANGED <<committed, name, num>> /\ pc[s] = "insert"
        /\ id'[s] \in Unclaimed /\ id' = [id EXCEPT ![s] = id'[s]]
        /\ pc' = [pc EXCEPT ![s] = "commit"]
    BY DEF Inserts
  <1>2. Inserted' = Inserted \cup {s}
    BY <1>1 DEF Inserted, TypeOK
  <1>3. \A t \in Inserted : t # s /\ id'[t] = id[t] /\ Mine(t)' = Mine(t)
    BY <1>1 DEF Inserted, TypeOK, Mine
  <1>4. Mine(s)' = Mine(s) /\ (\A i \in There : Slug(i) # Mine(s))
    BY <1>1 DEF Inserts, Refused, Mine
  <1>5. \A t \in Inserted : Mine(t) # Mine(s) /\ id[t] # id'[s]
    BY <1>1, <1>3 DEF Inserts, Others, Unclaimed, Inserted
  <1>6. id'[s] \notin There
    BY <1>1 DEF Unclaimed
  <1>7. There' = There /\ SlugsUnique' /\ \A i \in Ids : Slug(i)' = Slug(i)
    BY <1>1 DEF There, SlugInv, SlugsUnique, Slug, committed
  <1>8. \A t, r \in Inserted \cup {s} : Mine(t)' = Mine(r)' \/ id'[t] = id'[r] => t = r
    BY <1>3, <1>4, <1>5 DEF SlugInv
  <1>9. \A t \in Inserted \cup {s} :
          id'[t] \notin There /\ \A i \in There : Slug(i) # Mine(t)'
    BY <1>3, <1>4, <1>6 DEF SlugInv
  <1> QED BY <1>2, <1>7, <1>8, <1>9 DEF SlugInv, There

LEMMA CommitSlug ==
  ASSUME TypeOK, Shape, SlugInv, NEW s \in Sessions, Commit(s)
  PROVE  SlugInv'
  <1>1. /\ pc[s] = "commit" /\ id[s] \in Ids /\ pc'[s] = "idle"
        /\ tenants'[id[s]] # Nobody
        /\ tenants'[id[s]].name = name[s] /\ tenants'[id[s]].num = num[s]
        /\ \A i \in Ids \ {id[s]} : tenants'[i] = tenants[i]
        /\ \A t \in Sessions \ {s} : /\ pc'[t] = pc[t] /\ name'[t] = name[t]
                                     /\ num'[t] = num[t] /\ id'[t] = id[t]
    BY CommitFrame
  <1>2. Inserted' = Inserted \ {s} /\ s \in Inserted /\ There' = There \cup {id[s]}
    BY <1>1 DEF Inserted, There
  <1>3. \A t \in Inserted' : Mine(t)' = Mine(t) /\ id'[t] = id[t]
    BY <1>1, <1>2 DEF Inserted, Mine
  <1> DEFINE New(i) == <<tenants'[i].name, tenants'[i].num>>
  <1>4. \A i \in Ids : New(i) = IF i = id[s] THEN Mine(s) ELSE Slug(i)
    BY <1>1 DEF Slug, Mine
  <1>5. id[s] \notin There /\ \A i \in There : Slug(i) # Mine(s)
    BY <1>2 DEF SlugInv
  <1>6. \A i, j \in There \cup {id[s]} : New(i) = New(j) => i = j
    BY <1>1, <1>4, <1>5 DEF SlugInv, SlugsUnique, There
  <1>7. \A t \in Inserted \ {s} : /\ id[t] \notin There \cup {id[s]}
                                  /\ \A i \in There \cup {id[s]} : New(i) # Mine(t)
    BY <1>1, <1>2, <1>4 DEF SlugInv, There
  <1>8. \A i : Slug(i)' = New(i)
    BY DEF Slug
  <1>9. SlugsUnique'
    BY <1>2, <1>6, <1>8 DEF SlugsUnique
  <1>10. \A t, r \in Inserted' : Mine(t)' = Mine(r)' \/ id'[t] = id'[r] => t = r
    BY <1>2, <1>3 DEF SlugInv
  <1>11. \A t \in Inserted' : id'[t] \notin There' /\ \A i \in There' : Slug(i)' # Mine(t)'
    BY <1>2, <1>3, <1>7, <1>8
  <1> QED BY <1>9, <1>10, <1>11 DEF SlugInv

LEMMA NextSlug == TypeOK /\ Shape /\ SlugInv /\ [Next]_vars => SlugInv'
  <1> SUFFICES ASSUME TypeOK, Shape, SlugInv, [Next]_vars PROVE SlugInv'
    OBVIOUS
  <1>1. ASSUME NEW s \in Sessions, Steps(s) \/ Inserts(s) \/ Commit(s) PROVE SlugInv'
    BY <1>1, StepsSlug, InsertsSlug, CommitSlug
  <1>2. ASSUME NEW u \in Users, NEW i \in Ids, Join(u, i) PROVE SlugInv'
    BY <1>2 DEF Join, SlugInv, SlugsUnique, There, Slug, Mine, Inserted, session
  <1>3. CASE BeginWalk \/ NextPage \/ UNCHANGED vars
    BY <1>3 DEF BeginWalk, NextPage, vars, SlugInv, SlugsUnique, There, Slug, Mine, Inserted,
                committed, session
  <1> QED BY <1>1, <1>2, <1>3, NextKinds

(* Whatever was read when a slug was chosen, and by whoever chose it, no   *)
(* two tenants come to have the same.                                      *)
THEOREM SlugsUniqueHolds == Spec => []SlugsUnique
  <1>1. SlugInv => SlugsUnique
    BY DEF SlugInv
  <1> QED BY <1>1, InitType, InitShape, InitSlug, TypeNext, NextShape, NextSlug, PTL DEF Spec

----------------------------------------------------------------------------
(* The pages *)

LEMMA InitWalk == Init => WalkInv
  BY DEF Init, WalkInv, NoWalk

LEMMA NextWalk == TypeOK /\ Shape /\ SlugInv /\ WalkInv /\ [Next]_vars => WalkInv'
  <1> SUFFICES ASSUME TypeOK, Shape, SlugInv, WalkInv, [Next]_vars PROVE WalkInv'
    OBVIOUS
  <1> USE DEF WalkInv, committed
  <1>1. ASSUME NEW s \in Sessions, Steps(s) \/ Inserts(s) PROVE WalkInv'
    BY <1>1, StepsFrame DEF Inserts, There
  <1>2. ASSUME NEW s \in Sessions, Commit(s) PROVE WalkInv'
    <2>1. UNCHANGED walk /\ There \subseteq There'
      BY <1>2, CommitFrame DEF There
    <2> QED BY <2>1
  <1>3. ASSUME NEW u \in Users, NEW i \in Ids, Join(u, i) PROVE WalkInv'
    BY <1>3 DEF Join, There
  <1>4. CASE BeginWalk
    <2>1. walk'.due = There /\ walk'.before = Top /\ walk'.seen = {} /\ There' = There
      BY <1>4 DEF BeginWalk, There
    <2>2. There \subseteq Ids
      BY DEF There
    <2>3. \A i \in There : i < Top
      BY <2>2, Sizes
    <2>4. \A i \in walk'.due : i \in There' /\ i < walk'.before
      BY <2>1, <2>3
    <2>5. \A i \in walk'.seen : walk'.before <= i
      BY <2>1
    <2> QED BY <2>4, <2>5
  <1>5. CASE NextPage
    <2>1. There' = There
      BY <1>5 DEF NextPage, There
    <2>2. CASE Cardinality(Older) > Limit
      <3>1. /\ Page \subseteq Older /\ Older \subseteq Ids /\ Cursor \in Page
            /\ \A i \in Page : Cursor <= i
            /\ \A i \in Older \ Page : i < Cursor
        BY <2>2, PageIs
      <3>2. walk' = [walk EXCEPT !.before = Cursor, !.seen = @ \cup Page, !.due = @ \ Page]
        BY <1>5, <2>2 DEF NextPage
      <3>3. /\ walk'.before = Cursor /\ walk'.seen = walk.seen \cup Page
            /\ walk'.due = walk.due \ Page
        BY <3>2 DEF TypeOK
      <3>4. walk.due \subseteq Older
        BY DEF Older
      <3>5. \A i \in walk.seen : Cursor <= i
        <4>1. Cursor < walk.before /\ Cursor \in Nat /\ walk.before \in Nat
          BY <3>1, Sizes DEF Older, TypeOK
        <4>2. walk.seen \subseteq Nat
          BY Sizes DEF TypeOK
        <4> QED BY <4>1, <4>2
      <3> QED BY <2>1, <3>1, <3>3, <3>4, <3>5
    <2>3. CASE ~(Cardinality(Older) > Limit)
      BY <1>5, <2>3 DEF NextPage, NoWalk
    <2> QED BY <2>2, <2>3
  <1>6. CASE UNCHANGED vars
    BY <1>6 DEF vars, There
  <1> QED BY <1>1, <1>2, <1>3, <1>4, <1>5, <1>6, NextKinds

(* Keyset pages neither repeat nor skip a tenant that was there when the   *)
(* walk began, whatever is created and committed between two of them.      *)
THEOREM WalksListAll == Spec => WalkListsAll
  <1> DEFINE Walk == TypeOK /\ Shape /\ SlugInv /\ WalkInv
  <1>1. Init => Walk
    BY InitType, InitShape, InitSlug, InitWalk
  <1>2. Walk /\ [Next]_vars => Walk'
    BY TypeNext, NextShape, NextSlug, NextWalk
  <1> DEFINE Lists == /\ walk.on /\ NextPage => Page \cap walk.seen = {}
                      /\ walk.on /\ ~walk'.on => walk.due \subseteq Page
  <1>3. Walk /\ [Next]_vars => [Lists]_vars
    <2> SUFFICES ASSUME Walk, [Next]_vars, walk.on PROVE Lists
      OBVIOUS
    <2>1. Page \cap walk.seen = {}
      <3>1. Page \subseteq Older /\ Older \subseteq Ids
        BY DEF Page, Newest, Older, There
      <3> SUFFICES ASSUME NEW i \in Page, i \in walk.seen PROVE FALSE
        OBVIOUS
      <3>2. i < walk.before /\ walk.before <= i /\ i \in Nat /\ walk.before \in Nat
        BY <3>1, Sizes DEF Older, WalkInv, TypeOK
      <3> QED BY <3>2
    <2>2. ASSUME ~walk'.on PROVE walk.due \subseteq Page
      <3>1. NextPage
        <4>1. UNCHANGED walk => walk'.on
          OBVIOUS
        <4>2. \A s \in Sessions : Commit(s) => UNCHANGED walk
          BY DEF Commit
        <4>3. \A s \in Sessions : Inserts(s) \/ Steps(s) => UNCHANGED walk
          BY StepsFrame DEF Inserts
        <4>4. \A u \in Users, i \in Ids : Join(u, i) => UNCHANGED walk
          BY DEF Join
        <4>5. ~BeginWalk /\ (UNCHANGED vars => UNCHANGED walk)
          BY DEF BeginWalk, vars
        <4> QED BY <2>2, <4>1, <4>2, <4>3, <4>4, <4>5, NextKinds
      <3>2. ~(Cardinality(Older) > Limit)
        BY <2>2, <3>1 DEF NextPage, TypeOK
      <3>3. walk.due \subseteq Older
        BY DEF WalkInv, Older
      <3> QED BY <3>2, <3>3, LastPage
    <2> QED BY <2>1, <2>2
  <1> HIDE DEF Walk, Lists
  <1>4. Spec => [][Lists]_vars
    BY <1>1, <1>2, <1>3, PTL DEF Spec
  <1> QED BY <1>4 DEF WalkListsAll, Lists
=============================================================================
