----------------------------- MODULE Valkey_proofs -----------------------------
(***************************************************************************)
(* For every number of requests, scopes, permissions and all times: the    *)
(* types of Valkey, that /me shows recent lists, that refusals end, and    *)
(* how many requests of an address pass within a window.                   *)
(***************************************************************************)
EXTENDS Valkey, FiniteSetTheorems, FunctionTheorems, TLAPS

USE DEF Me!cached, Me!session, Up!throttle, Up!session

(* An entry was held when it was read, at most ReadTime before it was      *)
(* stored; a request shows entries of its lookup, and what it read itself. *)
HeldInv == \A c \in Scopes : ago[c][held[c]] = 0
EntryInv == \A c \in Scopes : left[c] > 0 => ago[c][entry[c]] + left[c] <= TTL + ReadTime
Reads(s) == mePc[s] \in {"query", "store", "respond"}
ReadInv ==
  \A s \in Sessions :
    /\ ~Reads(s) => spent[s] = 0
    /\ Reads(s) =>
         \A c \in Scopes \ scope[s] : ago[c][shown[s][c]] < TTL + ReadTime + spent[s]
    /\ Reads(s) /\ mePc[s] # "query" => \A c \in scope[s] : ago[c][shown[s][c]] <= spent[s]
MeInv == HeldInv /\ EntryInv /\ ReadInv

(* A counter that is not there has no time to live. *)
CounterInv == count = 0 => ttl = 0

----------------------------------------------------------------------------
(* Types *)

LEMMA Times ==
  /\ TTL \in Nat \ {0} /\ ReadTime \in Nat /\ Long \in Nat /\ TTL + 2 * ReadTime <= Long
  /\ Granted \subseteq Perms /\ Me!Horizon = TTL + 2 * ReadTime
  /\ Most \in Nat \ {0} /\ Many \in Nat /\ 2 * Most < Many /\ Most < Many
  /\ Window \in Nat \ {0} /\ ArmTime \in Nat /\ ArmTime < Window
  BY ValkeyAssumption DEF Me!Horizon

LEMMA ListsType == {} \in Me!Lists /\ Granted \in Me!Lists
  BY Times DEF Me!Lists

LEMMA BlankType == Me!Blank \in [Scopes -> Me!Lists]
  BY ListsType DEF Me!Blank

LEMMA InitType == Init => TypeOK
  <1> SUFFICES ASSUME Init PROVE Me!TypeOK /\ Up!TypeOK
    BY DEF TypeOK
  <1>1. Me!TypeOK
    BY Times, ListsType DEF Init, Me!Init, Me!TypeOK, Me!Blank, Me!Points
  <1>2. Up!TypeOK
    <2>1. count \in 0..Many /\ ttl \in Up!Endless..Window /\ recent \in [Up!Ages -> 0..Many]
      BY Times DEF Init, Up!Init, Up!Endless
    <2>2. /\ signupPc \in [Sessions -> Up!Points] /\ kind \in [Sessions -> Up!Kinds]
          /\ read \in [Sessions -> 0..Many] /\ waited \in [Sessions -> 0..ArmTime]
      BY Times DEF Init, Up!Init, Up!Points, Up!Kinds
    <2>3. open \in BOOLEAN /\ account \in {"none", "late", "there"}
      BY DEF Init, Up!Init
    <2> QED BY <2>1, <2>2, <2>3 DEF Up!TypeOK
  <1> QED BY <1>1, <1>2

LEMMA MeType ==
  ASSUME Me!TypeOK, NEW s \in Sessions, Me!Begin(s) \/ Me!Step(s)
  PROVE  Me!TypeOK'
  <1> USE ListsType DEF Me!TypeOK, Me!Points
  <1>1. CASE Me!Lookup(s)
    BY <1>1 DEF Me!Lookup, Me!Hits
  <1>2. ASSUME NEW c \in Scopes, Me!Change(s, c) PROVE Me!TypeOK'
    BY <1>2 DEF Me!Change
  <1>3. CASE Me!Query(s)
    BY <1>3 DEF Me!Query
  <1>4. CASE Me!Store(s)
    BY <1>4, Times DEF Me!Store, Me!Lifetime
  <1>5. CASE Me!Respond(s) \/ Me!Rollback(s)
    <2>1. /\ mePc' = [mePc EXCEPT ![s] = "idle"] /\ scope' = [scope EXCEPT ![s] = {}]
          /\ shown' = [shown EXCEPT ![s] = Me!Blank] /\ spent' = [spent EXCEPT ![s] = 0]
      BY <1>5 DEF Me!Respond, Me!Rollback, Me!Finish
    <2>2. mePc' \in [Sessions -> Me!Points] /\ scope' \in [Sessions -> SUBSET Scopes]
      BY <2>1
    <2>3. shown' \in [Sessions -> [Scopes -> Me!Lists]]
      BY <2>1, BlankType
    <2>4. spent' \in [Sessions -> 0..ReadTime]
      BY <2>1, Times
    <2>5. UNCHANGED <<held, ago, entry, left>>
      BY <1>5 DEF Me!Respond, Me!Rollback
    <2> QED BY <2>2, <2>3, <2>4, <2>5
  <1>6. CASE Me!Invalidate(s)
    <2>1. entry' \in [Scopes -> Me!Lists] /\ left' \in [Scopes -> 0..TTL]
      <3>1. CASE UNCHANGED <<entry, left>>
        BY <3>1
      <3>2. CASE /\ left' = [c \in Scopes |-> IF c \in scope[s] THEN 0 ELSE left[c]]
                 /\ entry' = [c \in Scopes |-> IF c \in scope[s] THEN {} ELSE entry[c]]
        <4>1. left' \in [Scopes -> 0..TTL]
          BY <3>2, Times
        <4>2. entry' \in [Scopes -> Me!Lists]
          BY <3>2
        <4> QED BY <4>1, <4>2
      <3> QED BY <1>6, <3>1, <3>2 DEF Me!Invalidate
    <2>2. mePc' \in [Sessions -> Me!Points] /\ UNCHANGED <<held, ago, scope, shown, spent>>
      BY <1>6 DEF Me!Invalidate
    <2> QED BY <2>1, <2>2
  <1>7. CASE Me!Commit(s)
    BY <1>7, Times DEF Me!Commit, Me!Becomes, Me!Finish, Me!Blank
  <1> QED BY <1>1, <1>2, <1>3, <1>4, <1>5, <1>6, <1>7 DEF Me!Begin, Me!Step

LEMMA UpType ==
  ASSUME Up!TypeOK, NEW s \in Sessions, Up!Begin(s) \/ Up!Step(s)
  PROVE  Up!TypeOK'
  <1> USE DEF Up!TypeOK, Up!Points, Up!Kinds, Up!Endless, Up!Goto, Up!End
  <1>1. Up!Incremented \in 0..Many
    BY Times DEF Up!Incremented
  <1>2. Up!Passed \in [Up!Ages -> 0..Many]
    BY Times DEF Up!Passed, Up!Ages
  <1>3. ASSUME NEW n \in 0..Many, Up!Decide(s, n)
        PROVE  /\ read' \in [Sessions -> 0..Many] /\ signupPc' \in [Sessions -> Up!Points]
               /\ waited' \in [Sessions -> 0..ArmTime]
               /\ recent' \in [Up!Ages -> 0..Many]
    BY <1>2, <1>3, Times DEF Up!Decide
  <1>4. ASSUME NEW k \in {"signup", "resend"}, Up!Count(s, k) PROVE Up!TypeOK'
    BY <1>1, <1>3, <1>4, Times DEF Up!Count, Up!Incr
  <1>5. ASSUME NEW k \in Up!Kinds, Up!FailOpen(s, k) PROVE Up!TypeOK'
    BY <1>1, <1>5, Times DEF Up!FailOpen, Up!Incr, Up!Expire
  <1>6. ASSUME NEW k \in {"open", "close"}, Up!ReadSettings(s, k) PROVE Up!TypeOK'
    BY <1>6, Times DEF Up!ReadSettings
  <1>7. CASE Up!Arm(s)
    BY <1>3, <1>7, Times DEF Up!Arm, Up!Expire
  <1>8. CASE Up!Refuse(s) \/ Up!Gate(s) \/ Up!Lookup(s) \/ Up!CutShort(s)
    BY <1>8, Times DEF Up!Refuse, Up!Gate, Up!Lookup, Up!CutShort
  <1>9. CASE Up!Call(s) \/ Up!SaveSettings(s)
    <2>1. /\ signupPc' \in [Sessions -> Up!Points] /\ kind' \in [Sessions -> Up!Kinds]
          /\ read' \in [Sessions -> 0..Many] /\ waited' \in [Sessions -> 0..ArmTime]
          /\ UNCHANGED <<count, ttl, recent>>
      BY <1>9, Times DEF Up!Call, Up!SaveSettings
    <2>2. open' \in BOOLEAN
      BY <1>9 DEF Up!Call, Up!SaveSettings
    <2>3. account' \in {"none", "late", "there"}
      BY <1>9 DEF Up!Call, Up!SaveSettings
    <2> QED BY <2>1, <2>2, <2>3
  <1> QED BY <1>4, <1>5, <1>6, <1>7, <1>8, <1>9 DEF Up!Begin, Up!Step

LEMMA ElapseType ==
  ASSUME TypeOK, Me!Elapse, Up!Elapse
  PROVE  TypeOK'
  <1> USE DEF TypeOK, Me!TypeOK, Up!TypeOK
  <1>1. /\ spent' \in [Sessions -> 0..ReadTime] /\ left' \in [Scopes -> 0..TTL]
    BY Times DEF Me!Elapse, Me!Readers
  <1>2. ago' \in [Scopes -> [Me!Lists -> 0..Long]]
    BY Times DEF Me!Elapse, Me!Older
  <1>3. entry' \in [Scopes -> Me!Lists]
    BY ListsType DEF Me!Elapse
  <1>4. Me!TypeOK'
    BY <1>1, <1>2, <1>3 DEF Me!Elapse
  <1>5. recent' \in [Up!Ages -> 0..Many]
    <2>1. \A a \in Up!Ages : a # 0 => a - 1 \in Up!Ages
      BY Times DEF Up!Ages
    <2> QED BY <2>1, Times DEF Up!Elapse
  <1>6. ttl' \in Up!Endless..Window /\ count' \in 0..Many
    BY Times DEF Up!Elapse, Up!Endless
  <1>7. waited' \in [Sessions -> 0..ArmTime]
    BY Times DEF Up!Elapse, Up!Arming
  <1>8. Up!TypeOK'
    BY <1>5, <1>6, <1>7 DEF Up!Elapse
  <1> QED BY <1>4, <1>8

LEMMA NextType == TypeOK /\ [Next]_vars => TypeOK'
  <1> SUFFICES ASSUME TypeOK, [Next]_vars PROVE TypeOK'
    OBVIOUS
  <1> USE DEF TypeOK, meVars, signupVars
  <1>1. ASSUME UNCHANGED meVars PROVE Me!TypeOK'
    BY <1>1 DEF Me!TypeOK
  <1>2. ASSUME UNCHANGED signupVars PROVE Up!TypeOK'
    BY <1>2 DEF Up!TypeOK
  <1>3. ASSUME NEW s \in Sessions, Me!Begin(s) \/ Me!Step(s), UNCHANGED signupVars PROVE TypeOK'
    BY <1>2, <1>3, MeType
  <1>4. ASSUME NEW s \in Sessions, Up!Begin(s) \/ Up!Step(s), UNCHANGED meVars PROVE TypeOK'
    BY <1>1, <1>4, UpType
  <1>5. ASSUME NEW c \in Scopes, Me!EditRole(c), UNCHANGED signupVars PROVE TypeOK'
    <2>1. Me!TypeOK'
      BY <1>5, Times DEF Me!EditRole, Me!Becomes, Me!TypeOK
    <2> QED BY <1>2, <1>5, <2>1
  <1>6. ASSUME Up!Lands, UNCHANGED meVars PROVE TypeOK'
    <2>1. Up!TypeOK'
      BY <1>6 DEF Up!Lands, Up!TypeOK
    <2> QED BY <1>1, <1>6, <2>1
  <1>7. CASE Me!Elapse /\ Up!Elapse
    BY <1>7, ElapseType
  <1>8. CASE UNCHANGED vars
    BY <1>1, <1>2, <1>8 DEF vars
  <1> QED BY <1>3, <1>4, <1>5, <1>6, <1>7, <1>8 DEF Next, Me!Edit

(* What is cached, counted and under way is well typed; no entry has more  *)
(* left than its time to live, no window is longer than it is set.         *)
THEOREM TypeCorrect == Spec => []TypeOK
  BY InitType, NextType, PTL DEF Spec

----------------------------------------------------------------------------
(* Refusals end *)

LEMMA InitCounter == Init => CounterInv
  BY DEF Init, Up!Init, CounterInv

LEMMA NextCounter == TypeOK /\ CounterInv /\ [Next]_vars => CounterInv'
  <1> SUFFICES ASSUME TypeOK, CounterInv, [Next]_vars PROVE CounterInv'
    OBVIOUS
  <1> USE DEF CounterInv
  <1>1. ASSUME UNCHANGED <<count, ttl>> PROVE CounterInv'
    BY <1>1
  <1>2. ASSUME Up!Incr PROVE CounterInv'
    <2>1. count' # 0
      BY <1>2, Times DEF Up!Incr, Up!Incremented, TypeOK, Up!TypeOK
    <2> QED BY <2>1
  <1>3. ASSUME Up!Expire PROVE CounterInv'
    BY <1>3 DEF Up!Expire
  <1>4. CASE Me!Elapse /\ Up!Elapse
    BY <1>4, Times DEF Up!Elapse, TypeOK, Up!TypeOK, Up!Endless
  <1>5. ASSUME NEW s \in Sessions, Up!Begin(s) \/ Up!Step(s) PROVE CounterInv'
    BY <1>1, <1>2, <1>3, <1>5
    DEF Up!Begin, Up!Step, Up!Count, Up!Arm, Up!FailOpen, Up!ReadSettings, Up!Refuse, Up!Gate, Up!Lookup,
        Up!Call, Up!SaveSettings, Up!CutShort
  <1>6. UNCHANGED signupVars \/ Up!Lands \/ UNCHANGED vars => UNCHANGED <<count, ttl>>
    BY DEF signupVars, vars, Up!Lands
  <1> QED BY <1>1, <1>4, <1>5, <1>6 DEF Next

LEMMA RefusedByArmed ==
  ASSUME TypeOK, CounterInv, NEW s \in Sessions, Up!Begin(s) \/ Up!Step(s), NEW t \in Sessions,
         signupPc[t] # "refused", signupPc'[t] = "refused"
  PROVE  ttl' # Up!Endless
  <1> USE DEF TypeOK, Up!TypeOK, Up!Goto, Up!End
  <1>1. ASSUME NEW k \in {"signup", "resend"}, Up!Count(s, k) PROVE ttl' # Up!Endless
    <2>1. CASE Up!Unarmed(Up!Incremented)
      BY <1>1, <2>1 DEF Up!Count, Up!Incr
    <2>2. CASE ~Up!Unarmed(Up!Incremented)
      <3>1. count # 0 /\ ttl # Up!Endless
        BY <2>2, Times DEF Up!Unarmed, Up!Incremented
      <3> QED BY <1>1, <3>1 DEF Up!Count, Up!Incr
    <2> QED BY <2>1, <2>2
  <1>2. CASE Up!Arm(s)
    BY <1>2, Times DEF Up!Arm, Up!Expire, CounterInv, Up!Endless
  <1>3. ASSUME NEW k, Up!FailOpen(s, k) PROVE FALSE
    BY <1>3 DEF Up!FailOpen
  <1>4. ASSUME NEW k, Up!ReadSettings(s, k) PROVE FALSE
    BY <1>4 DEF Up!ReadSettings
  <1>5. CASE Up!Refuse(s) \/ Up!Gate(s) \/ Up!Lookup(s)
    BY <1>5 DEF Up!Refuse, Up!Gate, Up!Lookup
  <1>6. CASE Up!Call(s) \/ Up!SaveSettings(s) \/ Up!CutShort(s)
    BY <1>6 DEF Up!Call, Up!SaveSettings, Up!CutShort
  <1> QED BY <1>1, <1>2, <1>3, <1>4, <1>5, <1>6 DEF Up!Begin, Up!Step

(* Whoever is refused is so by a counter with a time to live, whichever    *)
(* request armed it and whatever became of the one that made it.           *)
THEOREM RefusalsEndAll == Spec => RefusalsEnd
  <1> DEFINE Armed == \A s \in Sessions :
               signupPc[s] # "refused" /\ signupPc'[s] = "refused" => ttl' # Up!Endless
  <1>1. TypeOK /\ CounterInv /\ [Next]_vars => Armed
    <2> SUFFICES ASSUME TypeOK, CounterInv, [Next]_vars, NEW t \in Sessions,
                        signupPc[t] # "refused", signupPc'[t] = "refused"
                 PROVE  ttl' # Up!Endless
      OBVIOUS
    <2>1. ~UNCHANGED signupPc
      OBVIOUS
    <2>2. PICK s \in Sessions : Up!Begin(s) \/ Up!Step(s)
      BY <2>1 DEF Next, Up!Lands, Up!Elapse, signupVars, vars
    <2> QED BY <2>2, RefusedByArmed
  <1>2. TypeOK /\ CounterInv /\ [Next]_vars => [Armed]_(Up!vars)
    BY <1>1
  <1> HIDE DEF Armed
  <1>3. Spec => [][Armed]_(Up!vars)
    BY <1>2, InitType, NextType, InitCounter, NextCounter, PTL DEF Spec
  <1> QED BY <1>3 DEF RefusalsEnd, Up!RefusalsEnd, Armed

----------------------------------------------------------------------------
(* /me shows recent lists *)

LEMMA InitMe == Init => MeInv
  <1> SUFFICES ASSUME Init PROVE HeldInv /\ EntryInv /\ ReadInv
    BY DEF MeInv
  <1> USE DEF Init, Me!Init
  <1>1. HeldInv
    BY ListsType DEF HeldInv
  <1>2. EntryInv
    BY DEF EntryInv
  <1>3. ReadInv
    BY DEF ReadInv, Reads
  <1> QED BY <1>1, <1>2, <1>3

(* A change makes what it grants the latest list, and none older. *)
LEMMA BecomesYounger ==
  ASSUME Me!TypeOK, NEW c \in Scopes, NEW l \in Me!Lists, Me!Becomes(c, l), HeldInv
  PROVE  /\ HeldInv'
         /\ \A d \in Scopes, m \in Me!Lists : ago'[d][m] <= ago[d][m] /\ ago'[d][m] \in Nat
  <1> USE Times DEF Me!TypeOK, Me!Becomes
  <1>1. HeldInv'
    BY DEF HeldInv
  <1>2. ASSUME NEW d \in Scopes, NEW m \in Me!Lists
        PROVE  ago'[d][m] <= ago[d][m] /\ ago'[d][m] \in Nat
    <2>1. ago[d][m] \in 0..Long /\ (ago'[d][m] = ago[d][m] \/ ago'[d][m] = 0)
      BY <1>2
    <2> QED BY <2>1
  <1> QED BY <1>1, <1>2

(* Where lists are no older, what was cached and read stays recent. *)
LEMMA YoungerKeeps ==
  ASSUME Me!TypeOK, EntryInv, UNCHANGED <<entry, left>>,
         \A d \in Scopes, m \in Me!Lists : ago'[d][m] <= ago[d][m] /\ ago'[d][m] \in Nat
  PROVE  /\ EntryInv'
         /\ \A s \in Sessions, d \in Scopes :
              ago'[d][shown[s][d]] <= ago[d][shown[s][d]] /\ ago'[d][shown[s][d]] \in Nat
              /\ ago[d][shown[s][d]] \in Nat
  <1> USE Times DEF Me!TypeOK
  <1>1. EntryInv'
    <2> SUFFICES ASSUME NEW c \in Scopes, left[c] > 0
                 PROVE  ago'[c][entry[c]] + left[c] <= TTL + ReadTime
      BY DEF EntryInv
    <2>1. entry[c] \in Me!Lists /\ left[c] \in Nat
      BY Times
    <2>2. ago[c][entry[c]] \in Nat /\ ago[c][entry[c]] + left[c] <= TTL + ReadTime
      BY <2>1 DEF EntryInv
    <2>3. ago'[c][entry[c]] <= ago[c][entry[c]] /\ ago'[c][entry[c]] \in Nat
      BY <2>1
    <2> QED BY <2>1, <2>2, <2>3, Times
  <1>2. \A s \in Sessions, d \in Scopes : shown[s][d] \in Me!Lists
    OBVIOUS
  <1> QED BY <1>1, <1>2

LEMMA StepMe ==
  ASSUME Me!TypeOK, MeInv, NEW s \in Sessions, Me!Begin(s) \/ Me!Step(s)
  PROVE  MeInv'
  <1> USE Times DEF Me!TypeOK, MeInv
  <1>1. CASE Me!Lookup(s)
    <2>1. HeldInv' /\ EntryInv'
      BY <1>1 DEF Me!Lookup, HeldInv, EntryInv
    <2>2. ReadInv'
      <3>1. PICK H \in {Me!Hits, {}} :
              /\ mePc' = [mePc EXCEPT ![s] = IF H = Scopes THEN "respond" ELSE "query"]
              /\ scope' = [scope EXCEPT ![s] = Scopes \ H]
              /\ shown' = [shown EXCEPT ![s] = [c \in Scopes |-> IF c \in H THEN entry[c] ELSE {}]]
        BY <1>1 DEF Me!Lookup
      <3>2. \A c \in H : c \in Scopes /\ left[c] > 0
        BY <3>1 DEF Me!Hits
      <3>3. \A c \in H : ago[c][entry[c]] < TTL + ReadTime
        BY <3>2 DEF EntryInv
      <3>4. spent[s] = 0 /\ UNCHANGED <<ago, spent>>
        BY <1>1 DEF Me!Lookup, ReadInv, Reads
      <3>5. \A t \in Sessions : t # s =>
              mePc'[t] = mePc[t] /\ scope'[t] = scope[t] /\ shown'[t] = shown[t]
        BY <3>1
      <3>6. /\ scope'[s] = Scopes \ H
            /\ \A c \in H : shown'[s][c] = entry[c]
            /\ mePc'[s] = IF H = Scopes THEN "respond" ELSE "query"
        BY <3>1, <3>2
      <3>7. \A c \in Scopes \ scope'[s] : ago[c][shown'[s][c]] < TTL + ReadTime + spent[s]
        BY <3>3, <3>4, <3>6
      <3>8. Reads(s)'
        BY <3>6 DEF Reads
      <3>9. mePc'[s] # "query" => scope'[s] = {}
        BY <3>6
      <3> QED BY <3>4, <3>5, <3>7, <3>8, <3>9 DEF ReadInv, Reads
    <2> QED BY <2>1, <2>2
  <1>2. ASSUME NEW c \in Scopes, Me!Change(s, c) PROVE MeInv'
    BY <1>2 DEF Me!Change, HeldInv, EntryInv, ReadInv, Reads
  <1>3. CASE Me!Query(s)
    <2>1. HeldInv' /\ EntryInv'
      BY <1>3 DEF Me!Query, HeldInv, EntryInv
    <2>2. ReadInv'
      <3>1. \A c \in Scopes : shown'[s][c] = IF c \in scope[s] THEN held[c] ELSE shown[s][c]
        BY <1>3 DEF Me!Query
      <3>2. \A c \in scope[s] : c \in Scopes /\ ago[c][held[c]] = 0
        BY DEF HeldInv
      <3>3. /\ Reads(s) /\ mePc'[s] = "store" /\ UNCHANGED <<ago, scope, spent>>
            /\ \A t \in Sessions : t # s => mePc'[t] = mePc[t] /\ shown'[t] = shown[t]
        BY <1>3 DEF Me!Query, Reads
      <3>4. \A c \in scope[s] : ago[c][shown'[s][c]] <= spent[s]
        BY <3>1, <3>2
      <3>5. \A c \in Scopes \ scope[s] : ago[c][shown'[s][c]] < TTL + ReadTime + spent[s]
        BY <3>1, <3>3 DEF ReadInv
      <3> SUFFICES ASSUME NEW t \in Sessions
                   PROVE  /\ ~Reads(t)' => spent[t] = 0
                          /\ Reads(t)' => \A d \in Scopes \ scope[t] :
                                ago[d][shown'[t][d]] < TTL + ReadTime + spent[t]
                          /\ Reads(t)' /\ mePc'[t] # "query" =>
                                \A d \in scope[t] : ago[d][shown'[t][d]] <= spent[t]
        BY <3>3 DEF ReadInv, Reads
      <3>6. CASE t = s
        BY <3>3, <3>4, <3>5, <3>6 DEF Reads
      <3>7. CASE t # s
        BY <3>3, <3>7 DEF ReadInv, Reads
      <3> QED BY <3>6, <3>7
    <2> QED BY <2>1, <2>2
  <1>4. CASE Me!Store(s)
    <2>1. HeldInv'
      BY <1>4 DEF Me!Store, HeldInv
    <2>2. EntryInv'
      <3>1. PICK W \in SUBSET scope[s] :
              /\ entry' = [c \in Scopes |-> IF c \in W THEN shown[s][c] ELSE entry[c]]
              /\ left' = [c \in Scopes |-> IF c \in W THEN TTL ELSE left[c]]
        BY <1>4 DEF Me!Store, Me!Lifetime
      <3>2. \A c \in W : c \in Scopes /\ ago[c][shown[s][c]] <= spent[s]
        BY <1>4 DEF Me!Store, ReadInv, Reads
      <3>3. UNCHANGED ago /\ spent[s] \in 0..ReadTime
        BY <1>4 DEF Me!Store
      <3> SUFFICES ASSUME NEW c \in Scopes, left'[c] > 0
                   PROVE  ago[c][entry'[c]] + left'[c] <= TTL + ReadTime
        BY <3>3 DEF EntryInv
      <3>4. CASE c \in W
        <4>1. ago[c][shown[s][c]] \in Nat /\ ago[c][shown[s][c]] <= spent[s]
          BY <3>2, <3>4
        <4>2. entry'[c] = shown[s][c] /\ left'[c] = TTL
          BY <3>1, <3>4
        <4> QED BY <3>3, <4>1, <4>2
      <3>5. CASE c \notin W
        BY <3>1, <3>5 DEF EntryInv
      <3> QED BY <3>4, <3>5
    <2>3. ReadInv'
      <3>1. /\ mePc[s] = "store" /\ mePc' = [mePc EXCEPT ![s] = "respond"]
            /\ UNCHANGED <<ago, scope, shown, spent>>
        BY <1>4 DEF Me!Store
      <3> QED BY <3>1 DEF ReadInv, Reads
    <2> QED BY <2>1, <2>2, <2>3
  <1>5. ASSUME Me!Finish(s), UNCHANGED <<held, ago, entry, left>> PROVE MeInv'
    BY <1>5 DEF Me!Finish, HeldInv, EntryInv, ReadInv, Reads
  <1>6. CASE Me!Invalidate(s)
    <2>1. HeldInv' /\ ReadInv'
      BY <1>6 DEF Me!Invalidate, HeldInv, ReadInv, Reads
    <2>2. EntryInv'
      <3>1. CASE UNCHANGED <<entry, left>>
        BY <1>6, <3>1 DEF Me!Invalidate, EntryInv
      <3>2. CASE /\ left' = [c \in Scopes |-> IF c \in scope[s] THEN 0 ELSE left[c]]
                 /\ entry' = [c \in Scopes |-> IF c \in scope[s] THEN {} ELSE entry[c]]
        BY <1>6, <3>2 DEF Me!Invalidate, EntryInv
      <3> QED BY <1>6, <3>1, <3>2 DEF Me!Invalidate
    <2> QED BY <2>1, <2>2
  <1>7. CASE Me!Commit(s)
    <2>1. PICK c \in scope[s], l \in Me!Lists : Me!Becomes(c, l)
      BY <1>7 DEF Me!Commit
    <2>2. /\ HeldInv'
          /\ \A d \in Scopes, m \in Me!Lists : ago'[d][m] <= ago[d][m] /\ ago'[d][m] \in Nat
      BY <2>1, BecomesYounger
    <2>3. /\ EntryInv'
          /\ \A t \in Sessions, d \in Scopes :
               ago'[d][shown[t][d]] <= ago[d][shown[t][d]] /\ ago'[d][shown[t][d]] \in Nat
               /\ ago[d][shown[t][d]] \in Nat
      BY <1>7, <2>2, YoungerKeeps DEF Me!Commit
    <2>4. ReadInv'
      <3> SUFFICES ASSUME NEW t \in Sessions
                   PROVE  /\ ~Reads(t)' => spent'[t] = 0
                          /\ Reads(t)' => \A d \in Scopes \ scope'[t] :
                                ago'[d][shown'[t][d]] < TTL + ReadTime + spent'[t]
                          /\ Reads(t)' /\ mePc'[t] # "query" =>
                                \A d \in scope'[t] : ago'[d][shown'[t][d]] <= spent'[t]
        BY DEF ReadInv, Reads
      <3>1. CASE t = s
        BY <1>7, <3>1 DEF Me!Commit, Me!Finish, Reads
      <3>2. CASE t # s
        <4>1. /\ mePc'[t] = mePc[t] /\ scope'[t] = scope[t] /\ shown'[t] = shown[t]
              /\ spent'[t] = spent[t] /\ spent[t] \in Nat /\ scope[t] \subseteq Scopes
          BY <1>7, <3>2 DEF Me!Commit, Me!Finish
        <4> QED BY <2>3, <4>1 DEF ReadInv, Reads
      <3> QED BY <3>1, <3>2
    <2> QED BY <2>2, <2>3, <2>4
  <1> QED BY <1>1, <1>2, <1>3, <1>4, <1>5, <1>6, <1>7 DEF Me!Begin, Me!Step, Me!Respond, Me!Rollback

LEMMA ElapseMe ==
  ASSUME Me!TypeOK, MeInv, Me!Elapse
  PROVE  MeInv'
  <1> USE Times DEF Me!TypeOK, MeInv
  <1>1. \A c \in Scopes, l \in Me!Lists :
          /\ ago[c][l] \in Nat /\ ago'[c][l] \in Nat /\ ago'[c][l] <= ago[c][l] + 1
    BY DEF Me!Elapse, Me!Older
  <1>2. HeldInv'
    BY DEF Me!Elapse, HeldInv
  <1>3. EntryInv'
    <2> SUFFICES ASSUME NEW c \in Scopes, left'[c] > 0
                 PROVE  ago'[c][entry'[c]] + left'[c] <= TTL + ReadTime
      BY DEF EntryInv
    <2>1. /\ left[c] \in Nat /\ left[c] > 1 /\ left'[c] = left[c] - 1 /\ entry'[c] = entry[c]
          /\ entry[c] \in Me!Lists
      BY DEF Me!Elapse
    <2>2. ago[c][entry[c]] + left[c] <= TTL + ReadTime
      BY <2>1 DEF EntryInv
    <2> QED BY <1>1, <2>1, <2>2
  <1>4. ReadInv'
    <2> SUFFICES ASSUME NEW t \in Sessions
                 PROVE  /\ ~Reads(t)' => spent'[t] = 0
                        /\ Reads(t)' => \A d \in Scopes \ scope'[t] :
                              ago'[d][shown'[t][d]] < TTL + ReadTime + spent'[t]
                        /\ Reads(t)' /\ mePc'[t] # "query" =>
                              \A d \in scope'[t] : ago'[d][shown'[t][d]] <= spent'[t]
      BY DEF ReadInv, Reads
    <2>1. UNCHANGED <<mePc, scope, shown>>
      BY DEF Me!Elapse
    <2>2. /\ Reads(t) => spent'[t] = spent[t] + 1
          /\ ~Reads(t) => spent'[t] = spent[t]
      BY DEF Me!Elapse, Me!Readers, Reads
    <2>3. spent[t] \in Nat /\ \A d \in Scopes : shown[t][d] \in Me!Lists
      OBVIOUS
    <2>4. scope[t] \subseteq Scopes
      OBVIOUS
    <2>5. ~Reads(t)' => spent'[t] = 0
      BY <2>1, <2>2 DEF ReadInv, Reads
    <2>6. ASSUME Reads(t), NEW d \in Scopes \ scope[t]
          PROVE  ago'[d][shown[t][d]] < TTL + ReadTime + spent'[t]
      <3>1. ago[d][shown[t][d]] < TTL + ReadTime + spent[t]
        BY <2>6 DEF ReadInv
      <3> QED BY <1>1, <2>2, <2>3, <2>6, <3>1
    <2>7. ASSUME Reads(t), mePc[t] # "query", NEW d \in scope[t]
          PROVE  ago'[d][shown[t][d]] <= spent'[t]
      <3>1. ago[d][shown[t][d]] <= spent[t] /\ d \in Scopes
        BY <2>4, <2>7 DEF ReadInv
      <3> QED BY <1>1, <2>2, <2>3, <2>7, <3>1
    <2> QED BY <2>1, <2>5, <2>6, <2>7 DEF Reads
  <1> QED BY <1>2, <1>3, <1>4

LEMMA NextMe == TypeOK /\ MeInv /\ [Next]_vars => MeInv'
  <1> SUFFICES ASSUME TypeOK, Me!TypeOK, MeInv, [Next]_vars PROVE MeInv'
    BY DEF TypeOK
  <1>1. ASSUME UNCHANGED meVars PROVE MeInv'
    BY <1>1 DEF meVars, MeInv, HeldInv, EntryInv, ReadInv, Reads
  <1>2. ASSUME NEW s \in Sessions, Me!Begin(s) \/ Me!Step(s) PROVE MeInv'
    BY <1>2, StepMe
  <1>3. ASSUME NEW c \in Scopes, Me!EditRole(c) PROVE MeInv'
    <2>1. PICK l \in Me!Lists : Me!Becomes(c, l)
      BY <1>3 DEF Me!EditRole
    <2>2. UNCHANGED <<entry, left, mePc, scope, shown, spent>>
      BY <1>3 DEF Me!EditRole
    <2>3. /\ HeldInv'
          /\ \A d \in Scopes, m \in Me!Lists : ago'[d][m] <= ago[d][m] /\ ago'[d][m] \in Nat
      BY <2>1, BecomesYounger DEF MeInv
    <2>4. /\ EntryInv'
          /\ \A t \in Sessions, d \in Scopes :
               ago'[d][shown[t][d]] <= ago[d][shown[t][d]] /\ ago'[d][shown[t][d]] \in Nat
               /\ ago[d][shown[t][d]] \in Nat
      BY <2>2, <2>3, YoungerKeeps DEF MeInv
    <2>5. \A t \in Sessions : spent[t] \in Nat /\ scope[t] \subseteq Scopes
      BY Times DEF Me!TypeOK
    <2>6. ReadInv'
      BY <2>2, <2>4, <2>5, Times DEF ReadInv, Reads, MeInv
    <2> QED BY <2>3, <2>4, <2>6 DEF MeInv
  <1>4. CASE Me!Elapse
    BY <1>4, ElapseMe
  <1> QED BY <1>1, <1>2, <1>3, <1>4 DEF Next, Me!Edit, vars

(* What /me answers was held less than the time to live and two requests   *)
(* ago, whichever grants, invalidations and failures of Valkey came        *)
(* between.                                                                *)
THEOREM MeShowsRecentAll == Spec => MeShowsRecent
  <1> DEFINE Recent == \A s \in Sessions : mePc[s] = "respond" /\ mePc'[s] = "idle" =>
               \A c \in Scopes : ago[c][shown[s][c]] < Me!Horizon
  <1>1. TypeOK /\ MeInv => Recent
    <2> SUFFICES ASSUME TypeOK, MeInv, NEW s \in Sessions, mePc[s] = "respond", NEW c \in Scopes
                 PROVE  ago[c][shown[s][c]] < TTL + 2 * ReadTime
      BY Times
    <2>1. spent[s] \in Nat /\ spent[s] <= ReadTime /\ ago[c][shown[s][c]] \in Nat
      BY Times DEF TypeOK, Me!TypeOK
    <2>2. \/ ago[c][shown[s][c]] < TTL + ReadTime + spent[s]
          \/ ago[c][shown[s][c]] <= spent[s]
      BY DEF MeInv, ReadInv, Reads
    <2> QED BY <2>1, <2>2, Times
  <1>2. TypeOK /\ MeInv => [Recent]_(Me!vars)
    BY <1>1
  <1> HIDE DEF Recent
  <1>3. Spec => [][Recent]_(Me!vars)
    BY <1>2, InitType, NextType, InitMe, NextMe, PTL DEF Spec
  <1> QED BY <1>3 DEF MeShowsRecent, Me!MeShowsRecent, Recent

----------------------------------------------------------------------------
(* What the windows let pass.  k is the time since the key of the counter  *)
(* was last gone: what passed since is young, what passed before is old,   *)
(* and either is bounded by the counter of its own window.                 *)

Pending == {s \in Sessions : signupPc[s] = "arm" /\ read[s] <= Most}
Young(k) == {x \in Up!Passes : x[1] < k}
Old(k) == {x \in Up!Passes : x[1] >= k}

Bounded(k) ==
  /\ IsFiniteSet(Pending)
  /\ Cardinality(Young(k)) + Cardinality(Pending) <= count
  /\ Cardinality(Young(k)) + Cardinality(Pending) <= Most
  /\ Cardinality(Old(k)) <= Most

(* The window lasts Window from the key on, or longer; and no request arms *)
(* a key that is gone, for it would have waited too long.                  *)
Clocked(k) ==
  /\ count # 0 /\ ttl # Up!Endless => k + ttl > Window
  /\ \A s \in Sessions : signupPc[s] = "arm" =>
       count # 0 /\ (ttl = Up!Endless \/ ttl + waited[s] >= Window)

WindowInv == \E k \in 1..Window : Bounded(k) /\ Clocked(k)

LEMMA PassSets ==
  ASSUME Up!TypeOK, NEW k
  PROVE  /\ IsFiniteSet(Up!Passes) /\ IsFiniteSet(Young(k)) /\ IsFiniteSet(Old(k))
         /\ Cardinality(Young(k)) \in Nat /\ Cardinality(Old(k)) \in Nat
  <1>1. IsFiniteSet(Up!Ages) /\ IsFiniteSet(1..Many)
    BY Times, FS_Interval DEF Up!Ages
  <1>2. IsFiniteSet(Up!Ages \X (1..Many))
    BY <1>1, FS_Product
  <1>3. IsFiniteSet(Up!Passes)
    BY <1>2, FS_Subset DEF Up!Passes
  <1>4. Young(k) \in SUBSET Up!Passes /\ Old(k) \in SUBSET Up!Passes
    BY DEF Young, Old
  <1>5. IsFiniteSet(Young(k)) /\ IsFiniteSet(Old(k))
    BY <1>3, <1>4, FS_Subset
  <1> QED BY <1>3, <1>5, FS_CardinalityType

LEMMA InitWindow == Init => WindowInv
  <1> SUFFICES ASSUME Init PROVE Bounded(1) /\ Clocked(1)
    BY Times DEF WindowInv
  <1>1. Pending = {}
    BY DEF Init, Up!Init, Pending
  <1>2. Young(1) = {} /\ Old(1) = {}
    BY DEF Init, Up!Init, Young, Old, Up!Passes
  <1>3. Bounded(1)
    BY <1>1, <1>2, FS_EmptySet, Times DEF Bounded, Init, Up!Init
  <1>4. Clocked(1)
    BY DEF Clocked, Init, Up!Init
  <1> QED BY <1>3, <1>4

(* A step that lets no request pass, and leaves no more to be armed. *)
LEMMA KeepsBounded ==
  ASSUME Up!TypeOK, NEW k \in 1..Window, Bounded(k), UNCHANGED recent,
         Pending' \subseteq Pending, count' \in Nat, count <= count'
  PROVE  Bounded(k)'
  <1>1. Young(k)' = Young(k) /\ Old(k)' = Old(k)
    BY DEF Young, Old, Up!Passes
  <1>2. /\ IsFiniteSet(Pending') /\ Cardinality(Pending') \in Nat /\ Cardinality(Pending) \in Nat
        /\ Cardinality(Pending') <= Cardinality(Pending)
    BY FS_Subset, FS_CardinalityType DEF Bounded
  <1>3. Cardinality(Young(k)) \in Nat /\ count \in Nat
    BY PassSets, Times DEF Up!TypeOK
  <1> QED BY <1>1, <1>2, <1>3, Times DEF Bounded

LEMMA KeepsClocked ==
  ASSUME NEW k \in 1..Window, Clocked(k), UNCHANGED <<count, ttl>>,
         \A s \in Sessions : signupPc'[s] = "arm" => signupPc[s] = "arm" /\ waited'[s] = waited[s]
  PROVE  Clocked(k)'
  BY DEF Clocked

(* A request that passes is one more, and a young one. *)
LEMMA PassOne ==
  ASSUME Up!TypeOK, NEW k \in 1..Window, recent' = Up!Passed
  PROVE  /\ Cardinality(Young(k)') <= Cardinality(Young(k)) + 1
         /\ Cardinality(Young(k)') \in Nat /\ Cardinality(Young(k)) \in Nat
         /\ Old(k)' = Old(k)
  <1> USE DEF Up!TypeOK
  <1> DEFINE new == <<0, recent'[0]>>
  <1>1. 0 \in Up!Ages /\ \A a \in Up!Ages : a # 0 => recent'[a] = recent[a]
    BY Times DEF Up!Passed, Up!Ages
  <1>2. recent[0] \in Nat /\ (recent'[0] = recent[0] \/ recent'[0] = recent[0] + 1)
    BY <1>1, Times DEF Up!Passed
  <1>3. \A n \in 1..Many : n <= recent'[0] => n <= recent[0] \/ n = recent'[0]
    BY <1>2
  <1>4. ASSUME NEW x \in Up!Passes' PROVE x \in Up!Passes \/ x = new
    <2>1. PICK a \in Up!Ages, n \in 1..Many : x = <<a, n>> /\ n <= recent'[a]
      BY <1>4 DEF Up!Passes
    <2>2. CASE a = 0
      BY <1>1, <1>3, <2>1, <2>2 DEF Up!Passes
    <2>3. CASE a # 0
      BY <1>1, <2>1, <2>3 DEF Up!Passes
    <2> QED BY <2>2, <2>3
  <1>5. ASSUME NEW x \in Up!Passes PROVE x \in Up!Passes'
    <2>1. PICK a \in Up!Ages, n \in 1..Many : x = <<a, n>> /\ n <= recent[a]
      BY <1>5 DEF Up!Passes
    <2>2. n <= recent'[a]
      <3>1. CASE a = 0
        BY <1>2, <2>1, <3>1
      <3>2. CASE a # 0
        BY <1>1, <2>1, <3>2
      <3> QED BY <3>1, <3>2
    <2> QED BY <2>1, <2>2 DEF Up!Passes
  <1>6. Young(k)' \in SUBSET (Young(k) \cup {new})
    BY <1>4 DEF Young
  <1>7. Old(k)' = Old(k)
    <2>1. ~(new[1] >= k)
      OBVIOUS
    <2> HIDE DEF new
    <2> QED BY <1>4, <1>5, <2>1 DEF Old
  <1> HIDE DEF new
  <1>8. /\ IsFiniteSet(Young(k)) /\ Cardinality(Young(k)) \in Nat
    BY PassSets
  <1>9. /\ IsFiniteSet(Young(k) \cup {new}) /\ Cardinality(Young(k) \cup {new}) \in Nat
        /\ Cardinality(Young(k) \cup {new}) <= Cardinality(Young(k)) + 1
    <2> DEFINE Y == Young(k)
    <2> HIDE DEF Y
    <2>1. /\ IsFiniteSet(Y \cup {new})
          /\ Cardinality(Y \cup {new}) = IF new \in Y THEN Cardinality(Y) ELSE Cardinality(Y) + 1
      BY <1>8, FS_AddElement DEF Y
    <2>2. Cardinality(Y) \in Nat
      BY <1>8 DEF Y
    <2>3. Cardinality(Y \cup {new}) \in Nat /\ Cardinality(Y \cup {new}) <= Cardinality(Y) + 1
      BY <2>1, <2>2
    <2> QED BY <2>1, <2>3 DEF Y
  <1>10. IsFiniteSet(Young(k)') /\ Cardinality(Young(k)') <= Cardinality(Young(k) \cup {new})
    BY <1>6, <1>9, FS_Subset
  <1>11. Cardinality(Young(k)') \in Nat
    BY <1>10, FS_CardinalityType
  <1> QED BY <1>7, <1>8, <1>9, <1>10, <1>11

(* What a step does to a set of requests that are to be armed. *)
LEMMA PendingSets ==
  ASSUME IsFiniteSet(Pending), NEW s
  PROVE  /\ IsFiniteSet(Pending \cup {s}) /\ IsFiniteSet(Pending \ {s})
         /\ Cardinality(Pending) \in Nat /\ Cardinality(Pending \cup {s}) \in Nat
         /\ Cardinality(Pending \ {s}) \in Nat
         /\ Cardinality(Pending \cup {s}) <= Cardinality(Pending) + 1
         /\ s \in Pending => Cardinality(Pending \ {s}) = Cardinality(Pending) - 1
  BY FS_AddElement, FS_RemoveElement, FS_CardinalityType

LEMMA SubPending ==
  ASSUME IsFiniteSet(Pending), NEW S \in SUBSET Pending
  PROVE  IsFiniteSet(S) /\ Cardinality(S) \in Nat /\ Cardinality(S) <= Cardinality(Pending)
  BY FS_Subset, FS_CardinalityType

(* INCR, by a request whose key was not armed, or by one that passes or    *)
(* not.                                                                    *)
LEMMA CountWindow ==
  ASSUME Up!TypeOK, Up!TypeOK', CounterInv, NEW k \in 1..Window, Bounded(k), Clocked(k),
         NEW s \in Sessions, NEW c \in {"signup", "resend"}, Up!Count(s, c)
  PROVE  Bounded(k)' /\ Clocked(k)'
  <1> USE DEF Up!TypeOK
  <1> DEFINE n == Up!Incremented
  <1>1. /\ n \in Nat /\ count \in Nat /\ count' = n /\ count <= n /\ n # 0
        /\ n <= Most => n = count + 1
    BY Times DEF Up!Count, Up!Incr, Up!Incremented
  <1>2. /\ signupPc[s] = "idle" /\ ttl' = IF count = 0 THEN Up!Endless ELSE ttl
        /\ s \notin Pending
    BY DEF Up!Count, Up!Incr, Pending
  <1>3. \A t \in Sessions : t # s =>
          signupPc'[t] = signupPc[t] /\ read'[t] = read[t] /\ waited'[t] = waited[t]
    BY DEF Up!Count, Up!Decide, Up!Goto
  <1>4. CASE Up!Unarmed(n)
    <2>1. /\ signupPc'[s] = "arm" /\ read'[s] = n /\ UNCHANGED <<recent, waited>>
          /\ ttl' = Up!Endless
      <3>1. signupPc'[s] = "arm" /\ read'[s] = n /\ UNCHANGED <<recent, waited>>
        BY <1>4 DEF Up!Count, Up!Goto
      <3>2. n = 1 => count = 0
        BY Times DEF Up!Incremented
      <3> QED BY <1>2, <1>4, <3>1, <3>2 DEF Up!Unarmed
    <2>2. Pending' \in SUBSET (Pending \cup {s}) /\ (n > Most => Pending' \in SUBSET Pending)
      BY <1>1, <1>3, <2>1, Times DEF Pending
    <2>3. Young(k)' = Young(k) /\ Old(k)' = Old(k)
      BY <2>1 DEF Young, Old, Up!Passes
    <2>4. Clocked(k)'
      BY <1>1, <1>3, <2>1 DEF Clocked
    <2>5. IsFiniteSet(Pending') /\ Cardinality(Pending') \in Nat
          /\ Cardinality(Pending') <= Cardinality(Pending) + 1
          /\ (n > Most => Cardinality(Pending') <= Cardinality(Pending))
          /\ Cardinality(Pending) \in Nat
      <3>1. /\ IsFiniteSet(Pending \cup {s}) /\ Cardinality(Pending) \in Nat
            /\ Cardinality(Pending \cup {s}) <= Cardinality(Pending) + 1
            /\ Cardinality(Pending \cup {s}) \in Nat
        BY PendingSets DEF Bounded
      <3>2. /\ IsFiniteSet(Pending') /\ Cardinality(Pending') \in Nat
            /\ Cardinality(Pending') <= Cardinality(Pending \cup {s})
        BY <2>2, <3>1, FS_Subset, FS_CardinalityType
      <3>3. n > Most => Cardinality(Pending') <= Cardinality(Pending)
        BY <2>2, SubPending DEF Bounded
      <3> QED BY <3>1, <3>2, <3>3
    <2>6. Cardinality(Young(k)) \in Nat
      BY PassSets
    <2> HIDE DEF n
    <2> QED BY <1>1, <2>3, <2>4, <2>5, <2>6, Times DEF Bounded
  <1>5. CASE ~Up!Unarmed(n)
    <2>1. Up!Decide(s, n) /\ count # 0 /\ ttl # Up!Endless /\ UNCHANGED ttl
      <3>1. count # 0
        BY <1>5, Times DEF Up!Unarmed, Up!Incremented
      <3> QED BY <1>2, <1>5, <3>1 DEF Up!Count, Up!Unarmed
    <2>2. signupPc'[s] # "arm"
      BY <2>1 DEF Up!Decide, Up!Goto
    <2>3. Pending' = Pending
      BY <1>2, <1>3, <2>2 DEF Pending
    <2>4. Clocked(k)'
      BY <1>1, <1>3, <2>1, <2>2 DEF Clocked
    <2>5. CASE Up!Over(n)
      <3>1. UNCHANGED recent
        BY <2>1, <2>5 DEF Up!Decide
      <3> QED BY <1>1, <2>3, <2>4, <3>1, KeepsBounded
    <2>6. CASE ~Up!Over(n)
      <3>1. recent' = Up!Passed
        BY <2>1, <2>6 DEF Up!Decide
      <3>2. n = count + 1 /\ n <= Most
        BY <1>1, <2>6, Times DEF Up!Over
      <3>3. Cardinality(Pending) \in Nat
        BY FS_CardinalityType DEF Bounded
      <3> HIDE DEF n
      <3>4. Bounded(k)'
        BY <1>1, <2>3, <3>1, <3>2, <3>3, PassOne, Times DEF Bounded
      <3> QED BY <2>4, <3>4
    <2> QED BY <2>5, <2>6
  <1> QED BY <1>4, <1>5

(* EXPIRE, and the answer to the request that sent it. *)
LEMMA ArmWindow ==
  ASSUME Up!TypeOK, Up!TypeOK', NEW k \in 1..Window, Bounded(k), Clocked(k),
         NEW s \in Sessions, Up!Arm(s)
  PROVE  Bounded(k)' /\ Clocked(k)'
  <1> USE DEF Up!TypeOK
  <1>1. /\ signupPc[s] = "arm" /\ signupPc'[s] # "arm" /\ count # 0 /\ UNCHANGED count
        /\ ttl' = Window /\ Up!Decide(s, read[s]) /\ count \in Nat
    BY DEF Up!Arm, Up!Expire, Clocked, Up!Decide, Up!Goto
  <1>2. \A t \in Sessions : t # s =>
          signupPc'[t] = signupPc[t] /\ read'[t] = read[t] /\ waited'[t] = waited[t]
    BY <1>1 DEF Up!Decide, Up!Goto
  <1>3. Clocked(k)'
    <2>1. k + ttl' > Window
      BY <1>1, Times
    <2>2. \A t \in Sessions : ttl' + waited'[t] >= Window
      BY <1>1, Times
    <2> QED BY <1>1, <2>1, <2>2 DEF Clocked
  <1>4. Pending' = Pending \ {s}
    BY <1>1, <1>2 DEF Pending
  <1>5. CASE Up!Over(read[s])
    <2>1. UNCHANGED recent
      BY <1>1, <1>5 DEF Up!Decide
    <2> QED BY <1>1, <1>3, <1>4, <2>1, KeepsBounded
  <1>6. CASE ~Up!Over(read[s])
    <2>1. recent' = Up!Passed
      BY <1>1, <1>6 DEF Up!Decide
    <2>2. s \in Pending
      BY <1>1, <1>6, Times DEF Up!Over, Pending
    <2>3. /\ IsFiniteSet(Pending') /\ Cardinality(Pending) \in Nat
          /\ Cardinality(Pending') = Cardinality(Pending) - 1
      BY <1>4, <2>2, PendingSets DEF Bounded
    <2>4. Bounded(k)'
      BY <1>1, <2>1, <2>3, PassOne, Times DEF Bounded
    <2> QED BY <1>3, <2>4
  <1> QED BY <1>5, <1>6

(* A command that fails, done or not. *)
LEMMA FailWindow ==
  ASSUME Up!TypeOK, Up!TypeOK', CounterInv, NEW k \in 1..Window, Bounded(k), Clocked(k),
         NEW s \in Sessions, NEW c, Up!FailOpen(s, c)
  PROVE  Bounded(k)' /\ Clocked(k)'
  <1> USE DEF Up!TypeOK
  <1>1. /\ signupPc'[s] = "gate" /\ UNCHANGED recent
        /\ \A t \in Sessions : t # s =>
             signupPc'[t] = signupPc[t] /\ read'[t] = read[t] /\ waited'[t] = waited[t]
    BY DEF Up!FailOpen, Up!Goto
  <1>2. Pending' \subseteq Pending
    BY <1>1 DEF Pending
  <1>3. count \in Nat /\ count' \in Nat /\ count <= count'
    BY Times DEF Up!FailOpen, Up!Incr, Up!Incremented, Up!Expire
  <1>4. Bounded(k)'
    BY <1>1, <1>2, <1>3, KeepsBounded
  <1>5. Clocked(k)'
    <2>1. CASE UNCHANGED <<count, ttl>>
      BY <1>1, <2>1 DEF Clocked
    <2>2. CASE Up!Incr
      <3>1. /\ ttl' = IF count = 0 THEN Up!Endless ELSE ttl
            /\ count' # 0
        BY <2>2, Times DEF Up!Incr, Up!Incremented
      <3> QED BY <1>1, <3>1 DEF Clocked
    <2>3. CASE Up!Expire /\ signupPc[s] = "arm"
      <3>1. count # 0 /\ UNCHANGED count /\ ttl' = Window
        BY <2>3 DEF Up!Expire, Clocked
      <3>2. k + ttl' > Window /\ \A t \in Sessions : ttl' + waited'[t] >= Window
        BY <3>1, Times
      <3> QED BY <3>1, <3>2 DEF Clocked
    <2> QED BY <2>1, <2>2, <2>3 DEF Up!FailOpen
  <1> QED BY <1>4, <1>5

(* Time makes each pass one older. *)
LEMMA Shifted ==
  ASSUME Up!TypeOK, Up!Elapse, NEW x \in Up!Passes'
  PROVE  /\ x \in Nat \X Nat /\ x[1] \in Nat /\ x[1] >= 1 /\ x[1] < Window
         /\ <<x[1] - 1, x[2]>> \in Up!Passes
  <1>1. PICK a \in Up!Ages, n \in 1..Many : x = <<a, n>> /\ n <= recent'[a]
    BY DEF Up!Passes
  <1>2. a # 0 /\ recent'[a] = recent[a - 1] /\ a - 1 \in Up!Ages /\ a \in 1..(Window - 1)
    <2>1. a # 0
      BY <1>1 DEF Up!Elapse
    <2>2. a \in 1..(Window - 1)
      BY <2>1, Times DEF Up!Ages
    <2>3. a - 1 \in Up!Ages
      BY <2>2, Times DEF Up!Ages
    <2> QED BY <2>1, <2>2, <2>3 DEF Up!Elapse
  <1>3. x[1] = a /\ x[2] = n /\ x \in Nat \X Nat
    BY <1>1, <1>2
  <1>4. <<a - 1, n>> \in Up!Passes
    BY <1>1, <1>2 DEF Up!Passes
  <1> QED BY <1>2, <1>3, <1>4, Times

LEMMA ShiftedCount ==
  ASSUME NEW T, NEW U, IsFiniteSet(U), T \subseteq Nat \X Nat,
         \A x \in T : <<x[1] - 1, x[2]>> \in U
  PROVE  IsFiniteSet(T) /\ Cardinality(T) \in Nat /\ Cardinality(T) <= Cardinality(U)
  <1> DEFINE f == [x \in T |-> <<x[1] - 1, x[2]>>]
  <1>1. f \in [T -> U]
    OBVIOUS
  <1>2. ASSUME NEW x \in T, NEW y \in T, f[x] = f[y] PROVE x = y
    <2>1. x[1] - 1 = y[1] - 1 /\ x[2] = y[2]
      BY <1>2
    <2>2. x \in Nat \X Nat /\ y \in Nat \X Nat
      OBVIOUS
    <2>3. x = <<x[1], x[2]>> /\ y = <<y[1], y[2]>> /\ x[1] \in Nat /\ y[1] \in Nat
      BY <2>2
    <2>4. x[1] = y[1]
      BY <2>1, <2>3
    <2> QED BY <2>1, <2>3, <2>4
  <1> HIDE DEF f
  <1>3. f \in Injection(T, U)
    BY <1>1, <1>2, Fun_IsInj
  <1> QED BY <1>3, FS_Injection, FS_CardinalityType

(* Until the key is gone its window grows older with what passed in it;    *)
(* when it goes no request is left to be armed, and what was old is out of *)
(* sight, so that what was young becomes all that is old.                  *)
LEMMA ElapseWindow ==
  ASSUME Up!TypeOK, Up!TypeOK', CounterInv, NEW k \in 1..Window, Bounded(k), Clocked(k), Up!Elapse
  PROVE  WindowInv'
  <1> USE DEF Up!TypeOK
  <1>1. \A x \in Up!Passes' : x[1] \in Nat /\ x[1] >= 1 /\ x[1] < Window
    BY Shifted
  <1>2. \A x \in Up!Passes' : <<x[1] - 1, x[2]>> \in Up!Passes
    BY Shifted
  <1>3. Up!Passes' \subseteq Nat \X Nat
    BY Shifted
  <1>4. UNCHANGED <<signupPc, read>> /\ \A s \in Sessions : signupPc[s] = "arm" =>
          waited[s] < ArmTime /\ waited'[s] = waited[s] + 1
    BY DEF Up!Elapse, Up!Arming
  <1>5. Pending' = Pending
    BY <1>4 DEF Pending
  <1>6. /\ count \in Nat /\ ttl \in Int /\ \A s \in Sessions : waited[s] \in Nat
        /\ Cardinality(Young(k)) \in Nat /\ Cardinality(Pending) \in Nat
    BY Times, PassSets, FS_CardinalityType DEF Bounded, Up!Endless
  <1>7. CASE ttl = 1
    <2>1. count' = 0 /\ ttl' = 0
      BY <1>7 DEF Up!Elapse
    <2>2. count # 0 /\ k = Window
      BY <1>6, <1>7, Times DEF Clocked, CounterInv, Up!Endless
    <2>3. \A s \in Sessions : signupPc[s] # "arm"
      <3> SUFFICES ASSUME NEW s \in Sessions, signupPc[s] = "arm" PROVE FALSE
        OBVIOUS
      <3>1. 1 + waited[s] >= Window
        BY <1>7 DEF Clocked, Up!Endless
      <3> QED BY <1>4, <1>6, <3>1, Times
    <2>4. Clocked(1)'
      BY <1>4, <2>1, <2>3 DEF Clocked
    <2>5. Pending' = {} /\ Young(1)' = {}
      BY <1>1, <1>4, <2>3 DEF Pending, Young
    <2>6. Cardinality(Old(1)') \in Nat /\ Cardinality(Old(1)') <= Cardinality(Young(k))
      <3>1. ASSUME NEW x \in Old(1)' PROVE <<x[1] - 1, x[2]>> \in Young(k)
        <4>1. x \in Up!Passes' /\ x[1] \in Nat /\ x[1] >= 1 /\ x[1] < Window
          BY <1>1, <3>1 DEF Young, Old
        <4>2. x[1] - 1 < k
          BY <2>2, <4>1, Times
        <4>3. <<x[1] - 1, x[2]>>[1] = x[1] - 1 /\ <<x[1] - 1, x[2]>> \in Up!Passes
          BY <1>2, <4>1
        <4> QED BY <4>2, <4>3 DEF Young, Old
      <3>2. Old(1)' \subseteq Nat \X Nat
        BY <1>3 DEF Young, Old
      <3> QED BY <3>1, <3>2, PassSets, ShiftedCount
    <2>7. Bounded(1)'
      <3>1. /\ IsFiniteSet(Pending') /\ Cardinality(Pending') = 0
            /\ Cardinality(Young(1)') = 0
        BY <2>5, FS_EmptySet
      <3>2. Cardinality(Young(k)) <= Most
        BY <1>6, Times DEF Bounded
      <3>3. Cardinality(Old(1)') <= Most
        BY <1>6, <2>6, <3>2, Times
      <3> QED BY <2>1, <3>1, <3>3, Times DEF Bounded
    <2> QED BY <2>4, <2>7, Times DEF WindowInv
  <1>8. CASE ttl # 1
    <2> DEFINE j == IF k < Window THEN k + 1 ELSE Window
    <2>1. j \in 1..Window /\ j <= k + 1 /\ (j = k + 1 \/ (j = Window /\ k = Window))
      BY Times
    <2>2. /\ UNCHANGED count
          /\ ttl' = IF ttl > 1 THEN ttl - 1 ELSE ttl
      BY <1>8 DEF Up!Elapse
    <2> HIDE DEF j
    <2>3. Clocked(j)'
      <3>1. ASSUME count # 0, ttl' # Up!Endless PROVE j + ttl' > Window
        <4>1. k + ttl > Window /\ ttl # Up!Endless
          BY <1>6, <2>2, <3>1 DEF Clocked, Up!Endless
        <4>2. ttl > 1
          BY <1>6, <1>8, <4>1, Times
        <4> QED BY <1>6, <2>1, <2>2, <4>1, <4>2, Times
      <3>2. ASSUME NEW s \in Sessions, signupPc[s] = "arm"
            PROVE  count # 0 /\ (ttl' = Up!Endless \/ ttl' + waited'[s] >= Window)
        <4>1. count # 0 /\ (ttl = Up!Endless \/ ttl + waited[s] >= Window)
          BY <3>2 DEF Clocked
        <4>2. CASE ttl = Up!Endless
          BY <2>2, <4>1, <4>2 DEF Up!Endless
        <4>3. CASE ttl # Up!Endless
          BY <1>4, <1>6, <2>2, <3>2, <4>1, <4>3, Times DEF Up!Endless
        <4> QED BY <4>2, <4>3
      <3> QED BY <1>4, <2>2, <3>1, <3>2 DEF Clocked
    <2>4. Cardinality(Young(j)') \in Nat /\ Cardinality(Young(j)') <= Cardinality(Young(k))
      <3>1. ASSUME NEW x \in Young(j)' PROVE <<x[1] - 1, x[2]>> \in Young(k)
        <4>1. x \in Up!Passes' /\ x[1] \in Nat /\ x[1] < j /\ x[1] < Window
          BY <1>1, <3>1 DEF Young, Old
        <4>2. x[1] - 1 < k
          BY <2>1, <4>1, Times
        <4>3. <<x[1] - 1, x[2]>>[1] = x[1] - 1 /\ <<x[1] - 1, x[2]>> \in Up!Passes
          BY <1>2, <4>1
        <4> QED BY <4>2, <4>3 DEF Young, Old
      <3>2. Young(j)' \subseteq Nat \X Nat
        BY <1>3 DEF Young, Old
      <3> QED BY <3>1, <3>2, PassSets, ShiftedCount
    <2>5. Cardinality(Old(j)') \in Nat /\ Cardinality(Old(j)') <= Cardinality(Old(k))
      <3>1. ASSUME NEW x \in Old(j)' PROVE <<x[1] - 1, x[2]>> \in Old(k)
        <4>1. x \in Up!Passes' /\ x[1] \in Nat /\ x[1] >= j /\ x[1] < Window
          BY <1>1, <3>1 DEF Young, Old
        <4>2. x[1] - 1 >= k
          BY <2>1, <4>1, Times
        <4>3. <<x[1] - 1, x[2]>>[1] = x[1] - 1 /\ <<x[1] - 1, x[2]>> \in Up!Passes
          BY <1>2, <4>1
        <4> QED BY <4>2, <4>3 DEF Young, Old
      <3>2. Old(j)' \subseteq Nat \X Nat
        BY <1>3 DEF Young, Old
      <3> QED BY <3>1, <3>2, PassSets, ShiftedCount
    <2>6. Cardinality(Old(k)) \in Nat
      BY PassSets
    <2>7. Bounded(j)'
      BY <1>5, <1>6, <2>2, <2>4, <2>5, <2>6, Times DEF Bounded
    <2> QED BY <2>1, <2>3, <2>7 DEF WindowInv
  <1> QED BY <1>7, <1>8

LEMMA StepWindow ==
  ASSUME Up!TypeOK, Up!TypeOK', CounterInv, NEW k \in 1..Window, Bounded(k), Clocked(k),
         NEW s \in Sessions, Up!Begin(s) \/ Up!Step(s)
  PROVE  Bounded(k)' /\ Clocked(k)'
  <1>1. ASSUME UNCHANGED <<count, ttl, recent>>,
               \A t \in Sessions : signupPc'[t] = "arm" =>
                 signupPc[t] = "arm" /\ read'[t] = read[t] /\ waited'[t] = waited[t]
        PROVE  Bounded(k)' /\ Clocked(k)'
    <2>1. Pending' \subseteq Pending
      BY <1>1 DEF Pending
    <2>2. count \in Nat
      BY Times DEF Up!TypeOK
    <2>3. count' \in Nat /\ count <= count'
      BY <1>1, <2>2
    <2> QED BY <1>1, <2>1, <2>3, KeepsBounded, KeepsClocked
  <1>2. ASSUME NEW c \in {"open", "close"}, Up!ReadSettings(s, c) PROVE Bounded(k)' /\ Clocked(k)'
    BY <1>1, <1>2 DEF Up!ReadSettings, Up!Goto, Up!TypeOK
  <1>3. CASE Up!Refuse(s) \/ Up!Gate(s) \/ Up!Lookup(s)
    BY <1>1, <1>3 DEF Up!Refuse, Up!Gate, Up!Lookup, Up!Goto, Up!End, Up!TypeOK
  <1>4. CASE Up!Call(s) \/ Up!SaveSettings(s) \/ Up!CutShort(s)
    BY <1>1, <1>4 DEF Up!Call, Up!SaveSettings, Up!CutShort, Up!Goto, Up!End, Up!TypeOK
  <1> QED BY <1>2, <1>3, <1>4, CountWindow, ArmWindow, FailWindow DEF Up!Begin, Up!Step

LEMMA NextWindow == TypeOK /\ CounterInv /\ WindowInv /\ [Next]_vars => WindowInv'
  <1> SUFFICES ASSUME TypeOK, CounterInv, WindowInv, [Next]_vars PROVE WindowInv'
    OBVIOUS
  <1>1. TypeOK'
    BY NextType
  <1>2. Up!TypeOK /\ Up!TypeOK'
    BY <1>1 DEF TypeOK
  <1>3. PICK k \in 1..Window : Bounded(k) /\ Clocked(k)
    BY DEF WindowInv
  <1>4. CASE \E s \in Sessions : Up!Begin(s) \/ Up!Step(s)
    BY <1>2, <1>3, <1>4, StepWindow DEF WindowInv
  <1>5. CASE Up!Elapse
    BY <1>2, <1>3, <1>5, ElapseWindow
  <1>6. CASE UNCHANGED signupVars \/ Up!Lands
    <2>1. UNCHANGED <<count, ttl, recent, signupPc, read, waited>>
      BY <1>6 DEF signupVars, Up!Lands
    <2>2. Bounded(k)' /\ Clocked(k)'
      BY <1>3, <2>1 DEF Bounded, Clocked, Pending, Young, Old, Up!Passes
    <2> QED BY <2>2 DEF WindowInv
  <1> QED BY <1>4, <1>5, <1>6 DEF Next, vars

(* Whatever requests overlap, are refused, die or find Valkey failing,     *)
(* the throttle lets at most twice its number pass within any window.      *)
THEOREM TwiceInAWindowAll == Spec => []TwiceInAWindow
  <1>1. TypeOK /\ WindowInv => TwiceInAWindow
    <2> SUFFICES ASSUME TypeOK, WindowInv PROVE Cardinality(Up!Passes) <= 2 * Most
      BY DEF TwiceInAWindow
    <2>1. PICK k \in 1..Window : Bounded(k)
      BY DEF WindowInv
    <2>2. Up!Passes = Young(k) \cup Old(k) /\ Young(k) \cap Old(k) = {}
      <3>1. \A x \in Up!Passes : x[1] \in Int
        BY Times DEF Up!Passes, Up!Ages
      <3> QED BY <3>1 DEF Young, Old
    <2>3. /\ IsFiniteSet(Young(k)) /\ IsFiniteSet(Old(k))
          /\ Cardinality(Young(k)) \in Nat /\ Cardinality(Old(k)) \in Nat
      BY PassSets DEF TypeOK
    <2>4. Cardinality(Pending) \in Nat
      BY <2>1, FS_CardinalityType DEF Bounded
    <2>5. Cardinality(Up!Passes) = Cardinality(Young(k)) + Cardinality(Old(k)) - Cardinality({})
      BY <2>2, <2>3, FS_Union
    <2>6. Cardinality(Young(k)) <= Most /\ Cardinality(Old(k)) <= Most
      BY <2>1, <2>3, <2>4, Times DEF Bounded
    <2> QED BY <2>3, <2>5, <2>6, FS_EmptySet, Times
  <1> QED BY <1>1, InitType, NextType, InitCounter, NextCounter, InitWindow, NextWindow, PTL DEF Spec
=============================================================================
