-------------------------- MODULE InviteOutbox_proofs --------------------------
(***************************************************************************)
(* For every number of rows and workers, batch size and timeouts: the      *)
(* types of InviteOutbox and that a row is marked sent only when it was;   *)
(* and, if the lease covers a batch, that no row is claimed twice. Where   *)
(* none is, for this reason or because there is one worker, the workers    *)
(* implement the ledger and the runs they record add up.                   *)
(***************************************************************************)
EXTENDS InviteOutbox, Integers, FiniteSetTheorems, FunctionTheorems, TLAPS

Quiet == {"poll", "claim", "next", "record"}
Hands(w) == batch[w] \cup cur[w]

(* What a worker has of its batch: the rows to come, the one it is at, and *)
(* the count of those it has sent are within what it claimed.              *)
OneBatch(w) ==
  /\ IsFiniteSet(batch[w])
  /\ pc[w] \in {"poll", "record"} => batch[w] = {}
  /\ IF pc[w] \in Quiet THEN cur[w] = {} ELSE \E c : cur[w] = {c}
  /\ tally[w].sent + Cardinality(batch[w]) + Cardinality(cur[w]) <= tally[w].claimed
  /\ \A c \in Hands(w) : c.id \in queued /\ c.attempts < MaxAttempts
(* A row out of attempts waits for ever. *)
RowsInv ==
  /\ \A w \in Workers : OneBatch(w)
  /\ \A r \in Rows : attempts[r] >= MaxAttempts => wait[r] = Never

----------------------------------------------------------------------------
(* Constants and numbers *)

LEMMA Constants ==
  /\ Limit \in Nat \ {0} /\ MaxAttempts \in Nat \ {0} /\ Crashes \in Nat
  /\ LeaseTime \in Nat /\ CallTime \in Nat /\ MarkTime \in Nat
  /\ BackoffBase \in Nat /\ BackoffCap \in Nat
  /\ Never \in Nat /\ LeaseTime < Never /\ BackoffCap < Never
  /\ Anonymous \subseteq Rows /\ IsFiniteSet(Rows)
  BY OutboxAssumption

LEMMA LeastOf ==
  ASSUME NEW x \in Nat, NEW y \in Nat
  PROVE  Least(x, y) \in Nat /\ Least(x, y) <= x /\ Least(x, y) <= y
  BY DEF Least

LEMMA NextTryType ==
  ASSUME NEW n \in 1..MaxAttempts
  PROVE  NextTry(n) \in Nat /\ (n >= MaxAttempts => NextTry(n) = Never)
  <1>1. BackoffBase * 2 ^ n \in Nat
    BY OutboxAssumption
  <1>2. Backoff(n) \in Nat
    BY <1>1, Constants, LeastOf DEF Backoff
  <1> QED BY <1>2, Constants DEF NextTry

LEMMA SmallSets ==
  /\ Cardinality({}) = 0 /\ IsFiniteSet({})
  /\ \A c : Cardinality({c}) = 1 /\ IsFiniteSet({c})
  BY FS_EmptySet, FS_Singleton

(* What a claim holds of the rows S. *)
LEMMA ClaimIs ==
  ASSUME TypeOK, NEW S \in SUBSET Due, Cardinality(S) = Least(Limit, Cardinality(Due))
  PROVE  /\ {CopyOf(r) : r \in S} \in SUBSET Copy
         /\ IsFiniteSet({CopyOf(r) : r \in S})
         /\ Cardinality({CopyOf(r) : r \in S}) <= Cardinality(S)
         /\ Cardinality(S) \in 0..Limit
         /\ Cardinality({CopyOf(r) : r \in S}) \in Nat
  <1>1. S \in SUBSET Rows /\ Due \in SUBSET Rows
    BY DEF Due, TypeOK
  <1>2. IsFiniteSet(S) /\ IsFiniteSet(Due) /\ Cardinality(S) \in Nat /\ Cardinality(Due) \in Nat
    BY <1>1, Constants, FS_Subset, FS_CardinalityType
  <1>3. Cardinality(S) \in 0..Limit
    BY <1>2, Constants, LeastOf
  <1> DEFINE Copies == {CopyOf(r) : r \in S}
             f == [r \in S |-> CopyOf(r)]
  <1>4. f \in Surjection(S, Copies)
    BY DEF Surjection
  <1>5. IsFiniteSet(Copies) /\ Cardinality(Copies) <= Cardinality(S)
    <2> HIDE DEF Copies, f
    <2> QED BY <1>2, <1>4, FS_Surjection
  <1>6. Copies \in SUBSET Copy
    BY <1>1, Constants DEF CopyOf, Copy, TypeOK
  <1>7. Cardinality(Copies) \in Nat
    <2> HIDE DEF Copies
    <2> QED BY <1>5, FS_CardinalityType
  <1> QED BY <1>3, <1>5, <1>6, <1>7

----------------------------------------------------------------------------
(* Types, and the batches *)

LEMMA InitRows == Init => TypeOK /\ RowsInv
  <1> SUFFICES ASSUME Init PROVE TypeOK /\ RowsInv
    OBVIOUS
  <1>1. TypeOK
    BY Constants, SmallSets DEF Init, TypeOK, Steps, Accounts, NoRows
  <1>2. RowsInv
    BY Constants, SmallSets DEF Init, RowsInv, OneBatch, Quiet, NoRows, Hands
  <1> QED BY <1>1, <1>2

(* The others' batches stay as they are. *)
LEMMA OthersBatch ==
  ASSUME TypeOK, RowsInv, NEW w \in Workers, queued \subseteq queued', OneBatch(w)',
         \A v \in Workers \ {w} :
           pc'[v] = pc[v] /\ batch'[v] = batch[v] /\ cur'[v] = cur[v] /\ tally'[v] = tally[v]
  PROVE  \A v \in Workers : OneBatch(v)'
  BY ZenonT(30) DEF RowsInv, OneBatch, Hands

LEMMA ClaimType ==
  ASSUME TypeOK, RowsInv, NEW w \in Workers, Claim(w)
  PROVE  TypeOK' /\ RowsInv'
  <1>1. PICK S \in SUBSET Due :
          /\ Cardinality(S) = Least(Limit, Cardinality(Due))
          /\ batch' = [batch EXCEPT ![w] = {CopyOf(r) : r \in S}]
          /\ wait' = [r \in Rows |-> IF r \in S THEN LeaseTime ELSE wait[r]]
          /\ tally' = [tally EXCEPT ![w] = [claimed |-> Cardinality(S), sent |-> 0]]
    BY DEF Claim
  <1>2. /\ pc[w] = "poll" /\ pc' = [pc EXCEPT ![w] = "claim"]
        /\ left' = [left EXCEPT ![w] = MarkTime]
        /\ UNCHANGED <<queued, succeeded, attempts, cur, supabase, runs, cuts>>
    BY DEF Claim
  <1> DEFINE Copies == {CopyOf(r) : r \in S}
  <1>3. /\ Copies \in SUBSET Copy /\ IsFiniteSet(Copies) /\ Cardinality(Copies) <= Cardinality(S)
        /\ Cardinality(S) \in 0..Limit /\ Cardinality(Copies) \in Nat
    BY <1>1, ClaimIs
  <1>4. \A c \in Copies : c.id \in queued /\ c.attempts < MaxAttempts
    <2>1. \A r \in S : r \in Rows /\ r \in queued /\ wait[r] = 0
      BY DEF Due, TypeOK
    <2>2. \A r \in S : attempts[r] < MaxAttempts
      BY <2>1, Constants DEF RowsInv, TypeOK
    <2> QED BY <2>1, <2>2 DEF CopyOf
  <1> HIDE DEF Copies
  <1>5. /\ batch'[w] = Copies /\ cur'[w] = {} /\ pc'[w] = "claim"
        /\ tally'[w] = [claimed |-> Cardinality(S), sent |-> 0] /\ queued' = queued
    BY <1>1, <1>2 DEF TypeOK, RowsInv, OneBatch, Quiet, Copies
  <1>6. OneBatch(w)'
    BY <1>3, <1>4, <1>5, SmallSets DEF OneBatch, Quiet, Hands
  <1>7. \A v \in Workers : OneBatch(v)'
    <2>1. \A v \in Workers \ {w} :
            pc'[v] = pc[v] /\ batch'[v] = batch[v] /\ cur'[v] = cur[v] /\ tally'[v] = tally[v]
      BY <1>1, <1>2 DEF TypeOK
    <2> QED BY <1>5, <1>6, <2>1, OthersBatch
  <1>8. \A r \in Rows : attempts'[r] >= MaxAttempts => wait'[r] = Never
    <2>1. \A r \in S : r \in Rows /\ wait[r] = 0
      BY DEF Due, TypeOK
    <2> QED BY <1>1, <1>2, <2>1, Constants DEF RowsInv, TypeOK
  <1>9. TypeOK'
    <2>1. wait' \in [Rows -> Nat] /\ left' \in [Workers -> Nat]
      BY <1>1, <1>2, Constants DEF TypeOK
    <2>2. batch' \in [Workers -> SUBSET Copy]
      BY <1>1, <1>3 DEF TypeOK, Copies
    <2>3. tally' \in [Workers -> [claimed : 0..Limit, sent : 0..Limit]]
      BY <1>1, <1>3, Constants DEF TypeOK
    <2>4. /\ pc' \in [Workers -> Steps]
          /\ \A v \in Workers :
               /\ pc'[v] = "poll" => batch'[v] = {} /\ cur'[v] = {}
               /\ Cardinality(cur'[v]) = IF pc'[v] \in {"poll", "claim", "next", "record"} THEN 0 ELSE 1
      BY <1>1, <1>2, <1>5, SmallSets DEF TypeOK, Steps
    <2> QED BY <1>2, <2>1, <2>2, <2>3, <2>4 DEF TypeOK, supabase
  <1> QED BY <1>7, <1>8, <1>9 DEF RowsInv

(* Steps of one worker that leave the rows alone. *)
LEMMA BatchSteps ==
  ASSUME TypeOK, RowsInv, NEW w \in Workers,
         Claimed(w) \/ StartRow(w) \/ EndBatch(w) \/ Answered(w) \/ CallFails(w)
  PROVE  TypeOK' /\ RowsInv'
  <1> USE DEF supabase, Goto
  <1>1. UNCHANGED <<table, tally, runs, cuts>>
    BY DEF Claimed, StartRow, EndBatch, Answered, CallFails
  <1>2. \A r \in Rows : attempts'[r] >= MaxAttempts => wait'[r] = Never
    BY <1>1 DEF table, RowsInv
  <1>3. OneBatch(w) /\ tally[w] \in [claimed : 0..Limit, sent : 0..Limit]
    BY DEF RowsInv, TypeOK
  <1>4. CASE Claimed(w) \/ EndBatch(w)
    <2>1. /\ pc' = [pc EXCEPT ![w] = pc'[w]] /\ pc'[w] \in {"next", "record"}
          /\ left' = [left EXCEPT ![w] = left'[w]] /\ left'[w] \in Nat
          /\ UNCHANGED <<batch, cur, supabase>> /\ pc[w] \in {"claim", "next"}
          /\ pc'[w] = "record" => batch[w] = {}
      BY <1>4, Constants DEF Claimed, EndBatch, TypeOK
    <2>2. OneBatch(w)'
      BY <1>1, <1>3, <2>1 DEF OneBatch, Quiet, Hands, table
    <2>3. \A v \in Workers : OneBatch(v)'
      BY <1>1, <2>1, <2>2, OthersBatch DEF TypeOK, table
    <2>4. TypeOK'
      BY SMTT(30), <1>1, <2>1 DEF TypeOK, table, Steps
    <2> QED BY <1>2, <2>3, <2>4 DEF RowsInv
  <1>5. CASE StartRow(w)
    <2>1. PICK c \in batch[w] : /\ cur' = [cur EXCEPT ![w] = {c}]
                                /\ batch' = [batch EXCEPT ![w] = @ \ {c}]
      BY <1>5 DEF StartRow
    <2>2. /\ pc[w] = "next" /\ pc' = [pc EXCEPT ![w] = "invite"]
          /\ left' = [left EXCEPT ![w] = CallTime] /\ UNCHANGED supabase
      BY <1>5 DEF StartRow
    <2>3. /\ batch'[w] = batch[w] \ {c} /\ cur'[w] = {c} /\ cur[w] = {} /\ pc'[w] = "invite"
          /\ c \in Copy /\ batch[w] \subseteq Copy /\ IsFiniteSet(batch[w])
      BY <1>3, <2>1, <2>2 DEF TypeOK, OneBatch, Quiet
    <2>4. /\ IsFiniteSet(batch'[w]) /\ Cardinality(batch'[w]) = Cardinality(batch[w]) - 1
          /\ Cardinality(batch[w]) \in Nat
      BY <2>1, <2>3, FS_RemoveElement, FS_CardinalityType
    <2>5. OneBatch(w)'
      <3>1. tally'[w].sent + Cardinality(batch'[w]) + Cardinality(cur'[w]) <= tally'[w].claimed
        <4>1. tally[w].sent + Cardinality(batch[w]) + 0 <= tally[w].claimed
          BY <1>3, <2>3, SmallSets DEF OneBatch
        <4>2. Cardinality(cur'[w]) = 1 /\ tally' = tally /\ tally[w].sent \in Nat
          <5>1. Cardinality({c}) = 1
            BY SmallSets
          <5> QED BY <1>1, <1>3, <2>3, <5>1, Constants
        <4>3. tally[w].sent + (Cardinality(batch[w]) - 1) + 1 <= tally[w].claimed
          BY <2>4, <4>1, <4>2
        <4> QED BY <2>4, <4>2, <4>3
      <3>2. \A d \in batch'[w] \cup cur'[w] : d.id \in queued /\ d.attempts < MaxAttempts
        BY <1>3, <2>1, <2>3 DEF OneBatch, Hands
      <3> QED BY <1>1, <2>3, <2>4, <3>1, <3>2 DEF OneBatch, Quiet, Hands, table
    <2>6. \A v \in Workers : OneBatch(v)'
      BY <1>1, <2>1, <2>2, <2>5, OthersBatch DEF TypeOK, table
    <2>7. TypeOK'
      BY <1>1, <2>1, <2>2, <2>3, Constants, SmallSets DEF TypeOK, table, Steps
    <2> QED BY <1>2, <2>6, <2>7 DEF RowsInv
  <1>6. CASE Answered(w) \/ CallFails(w)
    <2>1. /\ pc[w] \in Calls /\ pc' = [pc EXCEPT ![w] = pc'[w]]
          /\ pc'[w] \in {"update", "success", "failure"}
          /\ left' = [left EXCEPT ![w] = left'[w]] /\ left'[w] \in Nat
          /\ UNCHANGED <<batch, cur>>
      BY <1>6, Constants DEF Answered, CallFails, AfterAnswer, TypeOK
    <2>2. OneBatch(w)'
      BY <1>1, <1>3, <2>1 DEF OneBatch, Quiet, Hands, table, Calls
    <2>3. \A v \in Workers : OneBatch(v)'
      BY <1>1, <2>1, <2>2, OthersBatch DEF TypeOK, table
    <2>4. \A c \in cur[w] : c.id \in Rows
      BY DEF TypeOK, Copy
    <2>5. account' \in [Rows -> Accounts] /\ tagged' \subseteq Rows /\ late' \subseteq Calls \X Rows
      <3>1. CASE Answered(w)
        <4>1. PICK c \in cur[w] : Effect(pc[w], c.id)
          BY <3>1 DEF Answered
        <4>2. account' \in [Rows -> Accounts] /\ tagged' \subseteq Rows
          BY <2>4, <4>1 DEF Effect, TypeOK, Accounts
        <4> QED BY <3>1, <4>2 DEF Answered, TypeOK
      <3>2. CASE CallFails(w)
        <4>1. {<<pc[w], c.id>> : c \in cur[w]} \subseteq Calls \X Rows
          BY <2>1, <2>4
        <4> QED BY <3>2, <4>1 DEF CallFails, TypeOK
      <3> QED BY <1>6, <3>1, <3>2
    <2>6. TypeOK'
      BY ZenonT(30), <1>1, <2>1, <2>5 DEF TypeOK, table, Steps, Calls
    <2> QED BY <1>2, <2>3, <2>6 DEF RowsInv
  <1> QED BY <1>4, <1>5, <1>6

(* The outcome of a row, the record of a batch, and its end by force. *)
LEMMA OutcomeType ==
  ASSUME TypeOK, RowsInv, NEW w \in Workers, Finishes(w)
  PROVE  TypeOK' /\ RowsInv'
  <1>1. PICK c : cur[w] = {c}
    BY DEF Finishes, MarkSuccess, MarkFailure, RowsInv, OneBatch, Quiet
  <1>2. /\ c \in Copy /\ c.id \in queued /\ c.attempts < MaxAttempts /\ c.id \in Rows
        /\ c.attempts \in Nat /\ OneBatch(w)
        /\ tally[w] \in [claimed : 0..Limit, sent : 0..Limit]
    <2>1. OneBatch(w) /\ tally[w] \in [claimed : 0..Limit, sent : 0..Limit] /\ c \in Copy
      BY <1>1 DEF TypeOK, RowsInv
    <2>2. c \in Hands(w)
      BY <1>1 DEF Hands
    <2> QED BY <2>1, <2>2 DEF OneBatch, Copy
  <1>3. /\ pc[w] \in {"success", "failure"} /\ pc' = [pc EXCEPT ![w] = "next"]
        /\ left' = [left EXCEPT ![w] = 0] /\ cur' = [cur EXCEPT ![w] = {}]
        /\ UNCHANGED <<queued, batch, supabase, runs, cuts>>
    BY DEF Finishes, MarkSuccess, MarkFailure, Done, Goto
  <1>4. Cardinality(cur[w]) = 1 /\ Cardinality(batch[w]) \in Nat
    BY <1>1, <1>2, SmallSets, FS_CardinalityType DEF OneBatch
  <1>5. /\ tally' = [tally EXCEPT ![w] = tally'[w]]
        /\ tally'[w] \in [claimed : 0..Limit, sent : 0..Limit]
        /\ tally'[w].claimed = tally[w].claimed /\ tally'[w].sent <= tally[w].sent + 1
    <2>1. tally[w].sent + 1 <= tally[w].claimed
      BY <1>2, <1>4 DEF OneBatch
    <2>2. CASE MarkSuccess(w)
      <3>1. tally' = [tally EXCEPT ![w].sent = @ + 1]
        BY <2>2 DEF MarkSuccess
      <3>2. tally'[w] = [tally[w] EXCEPT !.sent = @ + 1]
        BY <3>1 DEF TypeOK
      <3>3. tally' = [tally EXCEPT ![w] = tally'[w]]
        BY <3>1 DEF TypeOK
      <3>4. tally[w].sent \in Nat /\ tally[w].claimed \in 0..Limit /\ Limit \in Nat
        BY <1>2, Constants
      <3> QED BY <1>2, <2>1, <3>2, <3>3, <3>4
    <2>3. CASE MarkFailure(w)
      BY <1>2, <2>3 DEF MarkFailure, TypeOK
    <2> QED BY <2>2, <2>3 DEF Finishes
  <1>6. OneBatch(w)'
    <2>1. batch'[w] = batch[w] /\ cur'[w] = {} /\ pc'[w] = "next"
      BY <1>3 DEF TypeOK
    <2> QED BY <1>2, <1>3, <1>4, <1>5, <2>1, SmallSets DEF OneBatch, Quiet, Hands
  <1>7. \A v \in Workers : OneBatch(v)'
    BY <1>3, <1>5, <1>6, OthersBatch DEF TypeOK
  <1>8. /\ succeeded' \subseteq queued /\ attempts' \in [Rows -> 0..MaxAttempts]
        /\ wait' \in [Rows -> Nat]
        /\ \A r \in Rows : attempts'[r] >= MaxAttempts => wait'[r] = Never
    <2>1. CASE MarkSuccess(w)
      BY <1>1, <1>2, <2>1 DEF MarkSuccess, TypeOK, RowsInv
    <2>2. CASE MarkFailure(w)
      <3>1. /\ attempts' = [attempts EXCEPT ![c.id] = c.attempts + 1]
            /\ wait' = [wait EXCEPT ![c.id] = NextTry(c.attempts + 1)] /\ UNCHANGED succeeded
        BY <1>1, <2>2 DEF MarkFailure
      <3>2. c.attempts + 1 \in 1..MaxAttempts
        BY <1>2, Constants
      <3>3. /\ NextTry(c.attempts + 1) \in Nat
            /\ c.attempts + 1 >= MaxAttempts => NextTry(c.attempts + 1) = Never
        BY <3>2, NextTryType
      <3> QED BY <1>2, <3>1, <3>2, <3>3 DEF TypeOK, RowsInv
    <2> QED BY <2>1, <2>2 DEF Finishes
  <1>9. TypeOK'
    BY <1>3, <1>5, <1>8, SmallSets DEF TypeOK, Steps, supabase
  <1> QED BY <1>7, <1>8, <1>9 DEF RowsInv

LEMMA EndType ==
  ASSUME TypeOK, RowsInv, NEW w \in Workers, RecordRun(w) \/ CutShort(w)
  PROVE  TypeOK' /\ RowsInv'
  <1>1. /\ pc' = [pc EXCEPT ![w] = "poll"] /\ left' = [left EXCEPT ![w] = 0]
        /\ tally' = [tally EXCEPT ![w] = NoRows]
        /\ UNCHANGED <<table, account, tagged>>
    BY DEF RecordRun, CutShort, Goto, supabase
  <1>2. /\ batch' = [batch EXCEPT ![w] = {}] /\ cur' = [cur EXCEPT ![w] = {}]
    BY DEF RecordRun, CutShort, TypeOK, RowsInv, OneBatch, Quiet
  <1>3. /\ batch'[w] = {} /\ cur'[w] = {} /\ tally'[w] = NoRows /\ pc'[w] = "poll"
    BY <1>1, <1>2 DEF TypeOK
  <1>4. OneBatch(w)'
    BY <1>3, SmallSets DEF OneBatch, Quiet, Hands, NoRows
  <1>5. \A v \in Workers : OneBatch(v)'
    BY <1>1, <1>2, <1>4, OthersBatch DEF TypeOK, table
  <1>6. /\ cuts' \in 0..Crashes /\ late' \subseteq Calls \X Rows
        /\ runs' \in [sent : Nat, failed : Nat]
    <2>1. CASE CutShort(w)
      <3>1. InFlight(w) \subseteq Calls \X Rows
        BY DEF InFlight, TypeOK, Copy
      <3> QED BY <2>1, <3>1, Constants DEF CutShort, TypeOK
    <2>2. CASE RecordRun(w)
      <3>1. /\ tally[w] \in [claimed : 0..Limit, sent : 0..Limit]
            /\ Cardinality(batch[w]) \in Nat /\ Cardinality(cur[w]) \in Nat /\ OneBatch(w)
        BY FS_CardinalityType, SmallSets DEF TypeOK, RowsInv, OneBatch
      <3>2. tally[w].claimed - tally[w].sent \in Nat
        BY <3>1 DEF OneBatch
      <3> QED BY <2>2, <3>1, <3>2, Constants DEF RecordRun, Recorded, TypeOK, supabase
    <2> QED BY <2>1, <2>2
  <1>7. tally' \in [Workers -> [claimed : 0..Limit, sent : 0..Limit]]
    BY <1>1, Constants DEF TypeOK, NoRows
  <1>8. TypeOK'
    BY <1>1, <1>2, <1>6, <1>7, SmallSets DEF TypeOK, table, Steps
  <1>9. \A r \in Rows : attempts'[r] >= MaxAttempts => wait'[r] = Never
    BY <1>1 DEF table, RowsInv
  <1> QED BY <1>5, <1>8, <1>9 DEF RowsInv

LEMMA NextRows == TypeOK /\ RowsInv /\ [Next]_vars => TypeOK' /\ RowsInv'
  <1> SUFFICES ASSUME TypeOK, RowsInv, [Next]_vars PROVE TypeOK' /\ RowsInv'
    OBVIOUS
  <1>1. ASSUME NEW w \in Workers, Claim(w) \/ Step(w) \/ CutShort(w) PROVE TypeOK' /\ RowsInv'
    BY <1>1, ClaimType, BatchSteps, OutcomeType, EndType DEF Step
  <1> USE DEF worker, supabase, table
  <1>2. ASSUME NEW r \in Rows, Enqueue(r) PROVE TypeOK' /\ RowsInv'
    BY <1>2 DEF Enqueue, TypeOK, RowsInv, OneBatch, Hands
  <1>3. ASSUME NEW r \in Rows, Confirm(r) PROVE TypeOK' /\ RowsInv'
    BY <1>3 DEF Confirm, TypeOK, RowsInv, OneBatch, Hands, Accounts
  <1>4. ASSUME NEW c \in Calls \X Rows, Land(c) \/ Lost(c) PROVE TypeOK' /\ RowsInv'
    <2>1. /\ UNCHANGED <<table, worker, runs, cuts>> /\ late' \subseteq Calls \X Rows
          /\ account' \in [Rows -> Accounts] /\ tagged' \subseteq Rows
      BY <1>4 DEF Land, Lost, Effect, TypeOK, Accounts
    <2> QED BY <2>1 DEF TypeOK, RowsInv, OneBatch, Hands
  <1>5. CASE Tick
    <2>1. /\ UNCHANGED <<queued, succeeded, attempts, pc, batch, cur, tally, supabase, runs, cuts>>
          /\ left' = [w \in Workers |-> IF left[w] > 0 THEN left[w] - 1 ELSE 0]
          /\ wait' = [r \in Rows |-> IF wait[r] \in 1 .. Never - 1 THEN wait[r] - 1 ELSE wait[r]]
      BY <1>5 DEF Tick
    <2>2. /\ left' \in [Workers -> Nat] /\ wait' \in [Rows -> Nat]
          /\ \A r \in Rows : wait[r] = Never => wait'[r] = Never
      BY <2>1, Constants DEF TypeOK
    <2> QED BY <2>1, <2>2 DEF TypeOK, RowsInv, OneBatch, Hands
  <1>6. CASE UNCHANGED vars
    BY <1>6 DEF vars, TypeOK, RowsInv, OneBatch, Hands
  <1> QED BY <1>1, <1>2, <1>3, <1>4, <1>5, <1>6 DEF Next

(* Every column and every worker is as the code can make it: attempts stay *)
(* within _MAX_ATTEMPTS, and no batch reports more than it claimed.        *)
THEOREM TypeCorrect == Spec => []TypeOK
  BY InitRows, NextRows, PTL DEF Spec

----------------------------------------------------------------------------
(* Sent means tagged *)

(* What the answers so far have shown of the row a worker is at. *)
SentInv ==
  /\ SentMeansTagged
  /\ \A w \in Workers : \A c \in cur[w] :
       /\ pc[w] \in {"update", "success"} => account[c.id] # "none"
       /\ pc[w] = "success" => c.id \in Anonymous \cup tagged

LEMMA InitSent == Init => SentInv
  BY DEF Init, SentInv, SentMeansTagged

(* Accounts and tags, once there, stay. *)
LEMMA EffectGrows ==
  ASSUME TypeOK, NEW kind, NEW r \in Rows, Effect(kind, r)
  PROVE  /\ \A q \in Rows : account[q] # "none" => account'[q] # "none"
         /\ tagged \subseteq tagged'
         /\ kind = "invite" => account'[r] # "none"
         /\ kind # "invite" => r \in tagged'
  BY DEF Effect, TypeOK

LEMMA NextGrows ==
  ASSUME TypeOK, [Next]_vars
  PROVE  /\ \A q \in Rows : account[q] # "none" => account'[q] # "none"
         /\ tagged \subseteq tagged'
  <1> DEFINE Grows == /\ \A q \in Rows : account[q] # "none" => account'[q] # "none"
                      /\ tagged \subseteq tagged'
  <1> SUFFICES Grows
    OBVIOUS
  <1>1. ASSUME NEW w \in Workers, Answered(w) PROVE Grows
    <2>1. PICK c \in cur[w] : Effect(pc[w], c.id)
      BY <1>1 DEF Answered
    <2>2. c.id \in Rows
      BY DEF TypeOK, Copy
    <2> QED BY <2>1, <2>2, EffectGrows
  <1>2. ASSUME NEW c \in Calls \X Rows, Land(c) \/ Lost(c) PROVE Grows
    BY <1>2, EffectGrows DEF Land, Lost
  <1>3. ASSUME NEW r \in Rows, Enqueue(r) \/ Confirm(r) PROVE Grows
    BY <1>3 DEF Enqueue, Confirm, supabase, TypeOK
  <1>4. ASSUME NEW w \in Workers,
               \/ Claim(w) \/ Claimed(w) \/ StartRow(w) \/ EndBatch(w) \/ CallFails(w)
               \/ Finishes(w) \/ RecordRun(w) \/ CutShort(w)
        PROVE  Grows
    BY <1>4 DEF Claim, Claimed, StartRow, EndBatch, CallFails, Finishes, MarkSuccess, MarkFailure,
                RecordRun, CutShort, supabase
  <1>5. CASE Tick \/ UNCHANGED vars
    BY <1>5 DEF Tick, vars, supabase
  <1> QED BY <1>1, <1>2, <1>3, <1>4, <1>5 DEF Next, Step

(* A worker comes to "update" and "success" by an answer, and only there   *)
(* marks a row.                                                            *)
LEMMA NextSent == TypeOK /\ RowsInv /\ SentInv /\ [Next]_vars => SentInv'
  <1> SUFFICES ASSUME TypeOK, RowsInv, SentInv, [Next]_vars PROVE SentInv'
    OBVIOUS
  <1> DEFINE Shown(w) == \A c \in cur'[w] :
               /\ pc'[w] \in {"update", "success"} => account'[c.id] # "none"
               /\ pc'[w] = "success" => c.id \in Anonymous \cup tagged'
  <1>1. ASSUME NEW w \in Workers, pc'[w] = pc[w], cur'[w] = cur[w] PROVE Shown(w)
    <2>1. \A c \in cur[w] : c.id \in Rows
      BY DEF TypeOK, Copy
    <2> QED BY <1>1, <2>1, NextGrows DEF SentInv
  <1>2. ASSUME succeeded' = succeeded PROVE SentMeansTagged'
    BY <1>2, NextGrows DEF SentInv, SentMeansTagged, TypeOK
  <1>3. ASSUME NEW w \in Workers, Answered(w) PROVE SentInv'
    <2>1. PICK c \in cur[w] : Effect(pc[w], c.id) /\ AfterAnswer(w, c.id)
      BY <1>3 DEF Answered
    <2>2. /\ pc[w] \in Calls /\ UNCHANGED <<succeeded, cur>>
          /\ \A v \in Workers \ {w} : pc'[v] = pc[v]
      BY <1>3, <2>1 DEF Answered, AfterAnswer, Goto, table, TypeOK
    <2>3. cur[w] = {c} /\ c.id \in Rows
      <3>1. PICK d : cur[w] = {d}
        BY <2>2 DEF RowsInv, OneBatch, Quiet, Calls
      <3> QED BY <3>1 DEF TypeOK, Copy
    <2>4. /\ pc[w] = "invite" => account'[c.id] # "none"
          /\ pc[w] = "update" => c.id \in tagged'
      BY <2>1, <2>3, EffectGrows
    <2>5. /\ pc'[w] \in {"update", "success"}
          /\ pc'[w] = "success" => pc[w] = "update" \/ c.id \in Anonymous
      BY <2>1, <2>2 DEF AfterAnswer, Goto, TypeOK, Calls
    <2>6. pc[w] = "update" => account'[c.id] # "none"
      BY <2>3, NextGrows DEF SentInv
    <2>7. Shown(w)
      BY <2>2, <2>3, <2>4, <2>5, <2>6 DEF Calls
    <2>8. \A v \in Workers \ {w} : Shown(v)
      BY <1>1, <2>2
    <2> QED BY <1>2, <2>2, <2>7, <2>8 DEF SentInv
  <1>4. ASSUME NEW w \in Workers,
               \/ Claim(w) \/ Claimed(w) \/ StartRow(w) \/ EndBatch(w) \/ CallFails(w)
               \/ Finishes(w) \/ RecordRun(w) \/ CutShort(w)
        PROVE  SentInv'
    <2>1. /\ pc'[w] \notin {"update", "success"}
          /\ \A v \in Workers \ {w} : pc'[v] = pc[v] /\ cur'[v] = cur[v]
      BY <1>4 DEF Claim, Claimed, StartRow, EndBatch, CallFails, Finishes, MarkSuccess, MarkFailure,
                  RecordRun, CutShort, Done, Goto, TypeOK
    <2>2. \A v \in Workers : Shown(v)
      BY <1>1, <2>1
    <2>3. CASE MarkSuccess(w)
      <3>1. pc[w] = "success" /\ succeeded' = succeeded \cup {c.id : c \in cur[w]}
        BY <2>3 DEF MarkSuccess
      <3>2. \A c \in cur[w] : account[c.id] # "none" /\ c.id \in Anonymous \cup tagged
                              /\ c.id \in Rows
        BY <3>1 DEF SentInv, TypeOK, Copy
      <3>3. SentMeansTagged'
        BY <3>1, <3>2, NextGrows DEF SentInv, SentMeansTagged, TypeOK
      <3> QED BY <2>2, <3>3 DEF SentInv
    <2>4. CASE ~MarkSuccess(w)
      <3>1. succeeded' = succeeded
        BY <1>4, <2>4 DEF Claim, Claimed, StartRow, EndBatch, CallFails, Finishes, MarkFailure,
                          RecordRun, CutShort, table
      <3> QED BY <1>2, <2>2, <3>1 DEF SentInv
    <2> QED BY <2>3, <2>4
  <1>5. ASSUME UNCHANGED <<succeeded, pc, cur>> PROVE SentInv'
    BY <1>1, <1>2, <1>5 DEF SentInv
  <1>6. ASSUME NEW r \in Rows, Enqueue(r) \/ Confirm(r) PROVE SentInv'
    BY <1>5, <1>6 DEF Enqueue, Confirm, table, worker
  <1>7. ASSUME NEW c \in Calls \X Rows, Land(c) \/ Lost(c) PROVE SentInv'
    BY <1>5, <1>7 DEF Land, Lost, table, worker
  <1>8. CASE Tick \/ UNCHANGED vars
    BY <1>5, <1>8 DEF Tick, vars, table, worker
  <1> QED BY <1>3, <1>4, <1>6, <1>7, <1>8 DEF Next, Step

(* Only what Supabase answered, for the very row, leads to succeeded_at;   *)
(* no lease is needed for that.                                            *)
THEOREM SentMeansTaggedHolds == Spec => []SentMeansTagged
  <1>1. SentInv => SentMeansTagged
    BY DEF SentInv
  <1> QED BY <1>1, InitRows, NextRows, InitSent, NextSent, PTL DEF Spec

----------------------------------------------------------------------------
(* The lease *)

(* What one row can take, with both calls and its outcome at their limit;  *)
(* and a lease that is longer than a batch can take.                       *)
Cost == 2 * CallTime + MarkTime
LeaseCoversBatch == LeaseTime > MarkTime + Limit * Cost

(* What a worker may yet need for its batch when its step has timed out. *)
Ahead(w) ==
  IF pc[w] = "invite" THEN CallTime + MarkTime ELSE IF pc[w] = "update" THEN MarkTime ELSE 0
Rest(w) == Ahead(w) + Cardinality(batch[w]) * Cost

(* A row in hand is in no other hand and not settled, as its claim read    *)
(* it, and leased for longer than its worker can need.                     *)
InHand(w) == \A c \in Hands(w) :
  /\ c.id \notin succeeded /\ c.attempts = attempts[c.id]
  /\ wait[c.id] > left[w] + Rest(w)
LeaseInv ==
  /\ \A w \in Workers : cur[w] \cap batch[w] = {} /\ InHand(w)
  /\ \A v, w \in Workers : \A c \in Hands(v), d \in Hands(w) : c.id = d.id => v = w /\ c = d

LEMMA CostType == Cost \in Nat /\ Cost = 2 * CallTime + MarkTime
  BY Constants DEF Cost

LEMMA Product ==
  ASSUME NEW m \in Nat, NEW n \in Nat, m <= n
  PROVE  m * Cost \in Nat /\ m * Cost <= n * Cost /\ (m + 1) * Cost = m * Cost + Cost
  BY CostType

LEMMA RestType ==
  ASSUME TypeOK, RowsInv, NEW w \in Workers
  PROVE  Cardinality(batch[w]) \in Nat /\ Ahead(w) \in Nat /\ Rest(w) \in Nat
  <1>1. Cardinality(batch[w]) \in Nat
    BY FS_CardinalityType DEF RowsInv, OneBatch
  <1>2. Cardinality(batch[w]) * Cost \in Nat
    BY <1>1, Product
  <1> QED BY <1>1, <1>2, Constants DEF Rest, Ahead

LEMMA HandsType ==
  ASSUME TypeOK, NEW w \in Workers, NEW c \in Hands(w)
  PROVE  c \in Copy /\ c.id \in Rows /\ c.attempts \in Nat /\ pc[w] # "poll"
  BY DEF TypeOK, Hands, Copy

LEMMA InitLease == Init => LeaseInv
  BY DEF Init, LeaseInv, InHand, Hands

(* A step of w that takes no row and settles none, within its time. *)
LEMMA LocalLease ==
  ASSUME TypeOK, RowsInv, LeaseInv, NEW w \in Workers,
         UNCHANGED table, Hands(w)' \subseteq Hands(w), cur'[w] \cap batch'[w] = {},
         Hands(w)' # {} => left'[w] + Rest(w)' <= left[w] + Rest(w) /\ left'[w] + Rest(w)' \in Nat,
         \A v \in Workers \ {w} :
           pc'[v] = pc[v] /\ batch'[v] = batch[v] /\ cur'[v] = cur[v] /\ left'[v] = left[v]
  PROVE  LeaseInv'
  <1>1. \A v \in Workers \ {w} : Hands(v)' = Hands(v) /\ Rest(v)' = Rest(v)
    BY DEF Hands, Rest, Ahead
  <1>2. \A v \in Workers \ {w} : InHand(v)'
    BY <1>1 DEF LeaseInv, InHand, table
  <1>3. InHand(w)'
    <2> SUFFICES ASSUME NEW c \in Hands(w)'
                 PROVE  /\ c.id \notin succeeded /\ c.attempts = attempts[c.id]
                        /\ wait[c.id] > left'[w] + Rest(w)'
      BY DEF InHand, table
    <2>1. /\ c.id \notin succeeded /\ c.attempts = attempts[c.id]
          /\ wait[c.id] > left[w] + Rest(w)
      BY DEF LeaseInv, InHand
    <2>2. wait[c.id] \in Nat /\ left[w] + Rest(w) \in Nat
      BY HandsType, RestType DEF TypeOK
    <2> QED BY <2>1, <2>2
  <1>4. \A v \in Workers : Hands(v)' \subseteq Hands(v)
    BY <1>1
  <1>5. \A v \in Workers : cur'[v] \cap batch'[v] = {}
    BY DEF LeaseInv
  <1>6. \A v, u \in Workers : \A c \in Hands(v)', d \in Hands(u)' : c.id = d.id => v = u /\ c = d
    BY <1>4 DEF LeaseInv
  <1> QED BY <1>2, <1>3, <1>5, <1>6 DEF LeaseInv

LEMMA BatchLease ==
  ASSUME TypeOK, RowsInv, LeaseInv, NEW w \in Workers,
         \/ Claimed(w) \/ StartRow(w) \/ EndBatch(w) \/ Answered(w) \/ CallFails(w)
         \/ RecordRun(w) \/ CutShort(w)
  PROVE  LeaseInv'
  <1> USE DEF Goto
  <1>1. /\ UNCHANGED table
        /\ \A v \in Workers \ {w} :
             pc'[v] = pc[v] /\ batch'[v] = batch[v] /\ cur'[v] = cur[v] /\ left'[v] = left[v]
    BY DEF Claimed, StartRow, EndBatch, Answered, AfterAnswer, CallFails, RecordRun, CutShort, TypeOK
  <1>2. /\ Cardinality(batch[w]) \in Nat /\ Cardinality(batch[w]) * Cost \in Nat
        /\ left[w] \in Nat /\ cur[w] \cap batch[w] = {}
    BY RestType, Product DEF TypeOK, LeaseInv
  <1>3. CASE EndBatch(w) \/ RecordRun(w) \/ CutShort(w)
    <2>1. batch'[w] = {} /\ cur'[w] = {}
      BY <1>3 DEF EndBatch, RecordRun, CutShort, TypeOK, RowsInv, OneBatch, Quiet
    <2> QED BY <1>1, <2>1, LocalLease DEF Hands
  <1>4. CASE StartRow(w)
    <2>1. PICK c \in batch[w] : cur' = [cur EXCEPT ![w] = {c}] /\ batch' = [batch EXCEPT ![w] = @ \ {c}]
      BY <1>4 DEF StartRow
    <2>2. /\ pc[w] = "next" /\ pc'[w] = "invite" /\ left'[w] = CallTime
          /\ cur'[w] = {c} /\ batch'[w] = batch[w] \ {c} /\ IsFiniteSet(batch[w])
      BY <1>4, <2>1 DEF StartRow, TypeOK, RowsInv, OneBatch
    <2>3. Hands(w)' \subseteq Hands(w) /\ cur'[w] \cap batch'[w] = {}
      BY <2>1, <2>2 DEF Hands
    <2>4. Cardinality(batch'[w]) \in Nat /\ Cardinality(batch[w]) = Cardinality(batch'[w]) + 1
      <3>1. IsFiniteSet(batch[w] \ {c}) /\ Cardinality(batch[w] \ {c}) = Cardinality(batch[w]) - 1
        BY <2>1, <2>2, FS_RemoveElement
      <3>2. Cardinality(batch[w] \ {c}) \in Nat
        BY <3>1, FS_CardinalityType
      <3> QED BY <1>2, <2>2, <3>1, <3>2
    <2>5. /\ Cardinality(batch[w]) * Cost = Cardinality(batch'[w]) * Cost + Cost
          /\ Cardinality(batch'[w]) * Cost \in Nat
      BY <2>4, Product
    <2>6. /\ Rest(w)' = CallTime + MarkTime + Cardinality(batch'[w]) * Cost
          /\ Rest(w) = 0 + Cardinality(batch[w]) * Cost
      BY <2>2 DEF Rest, Ahead
    <2>7. left'[w] + Rest(w)' <= left[w] + Rest(w) /\ left'[w] + Rest(w)' \in Nat
      <3> DEFINE n == Cardinality(batch'[w]) * Cost
      <3>1. left'[w] + Rest(w)' = CallTime + (CallTime + MarkTime + n) /\ n \in Nat
        BY <2>2, <2>5, <2>6
      <3>2. left[w] + Rest(w) = left[w] + (0 + (n + Cost))
        BY <2>5, <2>6
      <3> HIDE DEF n
      <3> QED BY <1>2, <3>1, <3>2, CostType, Constants
    <2> QED BY <1>1, <2>3, <2>7, LocalLease
  <1>5. CASE Claimed(w) \/ Answered(w) \/ CallFails(w)
    <2>1. UNCHANGED <<batch, cur>> /\ Hands(w)' = Hands(w)
      BY <1>5 DEF Claimed, Answered, CallFails, Hands
    <2>2. left'[w] \in Nat /\ left'[w] + Ahead(w)' <= Ahead(w)
      <3>1. CASE Claimed(w)
        <4>1. pc[w] = "claim" /\ pc'[w] = "next" /\ left'[w] = 0
          BY <3>1 DEF Claimed, TypeOK
        <4> QED BY <4>1 DEF Ahead
      <3>2. CASE Answered(w) \/ CallFails(w)
        <4>1. /\ pc[w] \in {"invite", "update"}
              /\ \/ pc[w] = "invite" /\ pc'[w] = "update" /\ left'[w] = CallTime
                 \/ pc'[w] \in {"success", "failure"} /\ left'[w] = MarkTime
          BY <3>2 DEF Answered, CallFails, AfterAnswer, Calls, TypeOK
        <4> QED BY <4>1, Constants DEF Ahead
      <3> QED BY <1>5, <3>1, <3>2
    <2>3. /\ Ahead(w) \in Nat /\ Ahead(w)' \in Nat
          /\ Rest(w) = Ahead(w) + Cardinality(batch[w]) * Cost
          /\ Rest(w)' = Ahead(w)' + Cardinality(batch[w]) * Cost
      BY <2>1, Constants DEF Rest, Ahead
    <2>4. left'[w] + Rest(w)' <= left[w] + Rest(w) /\ left'[w] + Rest(w)' \in Nat
      <3> DEFINE n == Cardinality(batch[w]) * Cost
                 a == Ahead(w)
                 b == Ahead(w)'
      <3>1. n \in Nat /\ a \in Nat /\ b \in Nat /\ Rest(w) = a + n /\ Rest(w)' = b + n
        BY <1>2, <2>3
      <3>2. left'[w] \in Nat /\ left'[w] + b <= a /\ left[w] \in Nat
        BY <1>2, <2>2
      <3> HIDE DEF n, a, b
      <3> QED BY <3>1, <3>2
    <2> QED BY <1>1, <1>2, <2>1, <2>4, LocalLease
  <1> QED BY <1>3, <1>4, <1>5

(* Who is leased is not due. *)
LEMMA ClaimLease ==
  ASSUME LeaseCoversBatch, TypeOK, RowsInv, LeaseInv, NEW w \in Workers, Claim(w)
  PROVE  LeaseInv'
  <1>1. PICK S \in SUBSET Due :
          /\ Cardinality(S) = Least(Limit, Cardinality(Due))
          /\ batch' = [batch EXCEPT ![w] = {CopyOf(r) : r \in S}]
          /\ wait' = [r \in Rows |-> IF r \in S THEN LeaseTime ELSE wait[r]]
    BY DEF Claim
  <1>2. /\ pc[w] = "poll" /\ pc' = [pc EXCEPT ![w] = "claim"]
        /\ left' = [left EXCEPT ![w] = MarkTime]
        /\ UNCHANGED <<succeeded, attempts, cur>>
    BY DEF Claim
  <1> DEFINE Copies == {CopyOf(r) : r \in S}
  <1>3. /\ batch'[w] = Copies /\ cur'[w] = {} /\ cur[w] = {} /\ pc'[w] = "claim" /\ left'[w] = MarkTime
        /\ \A v \in Workers \ {w} :
             pc'[v] = pc[v] /\ batch'[v] = batch[v] /\ cur'[v] = cur[v] /\ left'[v] = left[v]
    BY <1>1, <1>2 DEF TypeOK, RowsInv, OneBatch, Quiet
  <1>4. /\ Hands(w)' = Copies
        /\ \A v \in Workers \ {w} : Hands(v)' = Hands(v) /\ Rest(v)' = Rest(v)
    BY <1>3 DEF Hands, Rest, Ahead
  <1>5. \A r \in S : r \in Rows /\ wait[r] = 0 /\ r \notin succeeded
    BY DEF Due, TypeOK
  <1>6. \A v \in Workers : \A d \in Hands(v) : d.id \notin S
    <2> SUFFICES ASSUME NEW v \in Workers, NEW d \in Hands(v), d.id \in S PROVE FALSE
      OBVIOUS
    <2>1. wait[d.id] > left[v] + Rest(v) /\ wait[d.id] = 0
      BY <1>5 DEF LeaseInv, InHand
    <2>2. left[v] \in Nat /\ Rest(v) \in Nat
      BY RestType DEF TypeOK
    <2> QED BY <2>1, <2>2
  <1>7. \A v \in Workers \ {w} : InHand(v)'
    <2> SUFFICES ASSUME NEW v \in Workers \ {w}, NEW d \in Hands(v)
                 PROVE  wait'[d.id] = wait[d.id] /\ InHand(v)
      BY <1>2, <1>3, <1>4 DEF InHand
    <2> QED BY <1>1, <1>6, HandsType DEF LeaseInv
  <1>8. LeaseTime > MarkTime + Rest(w)'
    <2>1. Cardinality(Copies) \in Nat /\ Cardinality(Copies) <= Limit
      <3>1. /\ Cardinality(Copies) <= Cardinality(S) /\ Cardinality(S) \in 0..Limit
            /\ Cardinality(Copies) \in Nat
        BY <1>1, ClaimIs
      <3> HIDE DEF Copies
      <3> QED BY <3>1, Constants
    <2>2. Rest(w)' = 0 + Cardinality(Copies) * Cost
      BY <1>3 DEF Rest, Ahead
    <2> HIDE DEF Copies
    <2>3. /\ Cardinality(Copies) * Cost <= Limit * Cost
          /\ Cardinality(Copies) * Cost \in Nat
      BY <2>1, Product, Constants
    <2>4. Limit * Cost \in Nat
      BY Product, Constants
    <2> DEFINE n == Cardinality(Copies) * Cost
               m == Limit * Cost
    <2>5. n \in Nat /\ m \in Nat /\ n <= m /\ LeaseTime > MarkTime + m /\ Rest(w)' = 0 + n
      BY <2>2, <2>3, <2>4 DEF LeaseCoversBatch
    <2> HIDE DEF n, m
    <2> QED BY <2>5, Constants
  <1>9. InHand(w)'
    <2>1. \A r \in S : CopyOf(r).id = r /\ CopyOf(r).attempts = attempts[r] /\ wait'[r] = LeaseTime
      BY <1>1, <1>5 DEF CopyOf
    <2>2. \A c \in Copies : /\ c.id \notin succeeded /\ c.attempts = attempts[c.id]
                            /\ wait'[c.id] = LeaseTime
      BY <1>5, <2>1
    <2> HIDE DEF Copies
    <2> QED BY <1>2, <1>3, <1>4, <1>8, <2>2 DEF InHand
  <1>10. \A c \in Copies : c.id \in S /\ c = CopyOf(c.id)
    BY DEF CopyOf
  <1>11. \A v, u \in Workers : \A c \in Hands(v)', d \in Hands(u)' : c.id = d.id => v = u /\ c = d
    <2> HIDE DEF Copies
    <2>1. \A v \in Workers \ {w} : \A c \in Hands(v)' : c.id \notin S
      BY <1>4, <1>6
    <2> QED BY <1>4, <1>10, <2>1 DEF LeaseInv
  <1>12. \A v \in Workers : cur'[v] \cap batch'[v] = {}
    BY <1>3 DEF LeaseInv
  <1> QED BY <1>7, <1>9, <1>11, <1>12 DEF LeaseInv

(* The row whose outcome is recorded is in no other hand: what happens to  *)
(* its columns concerns nobody.                                            *)
LEMMA OutcomeLease ==
  ASSUME TypeOK, RowsInv, LeaseInv, NEW w \in Workers, Finishes(w)
  PROVE  LeaseInv'
  <1>1. PICK c : cur[w] = {c}
    BY DEF Finishes, MarkSuccess, MarkFailure, RowsInv, OneBatch, Quiet
  <1>2. /\ pc[w] \in {"success", "failure"} /\ pc' = [pc EXCEPT ![w] = "next"]
        /\ left' = [left EXCEPT ![w] = 0] /\ cur' = [cur EXCEPT ![w] = {}] /\ UNCHANGED batch
    BY DEF Finishes, MarkSuccess, MarkFailure, Done, Goto
  <1>3. /\ pc'[w] = "next" /\ left'[w] = 0 /\ cur'[w] = {} /\ batch' = batch
        /\ \A v \in Workers \ {w} : pc'[v] = pc[v] /\ cur'[v] = cur[v] /\ left'[v] = left[v]
    BY <1>2 DEF TypeOK
  <1>4. c \in Hands(w) /\ c.id \in Rows /\ Hands(w)' = Hands(w) \ {c}
    <2>1. c \in Hands(w) /\ c \notin batch[w]
      BY <1>1 DEF Hands, LeaseInv
    <2> QED BY <1>1, <1>3, <2>1, HandsType DEF Hands
  <1>5. \A v \in Workers \ {w} : Hands(v)' = Hands(v) /\ Rest(v)' = Rest(v)
    BY <1>3 DEF Hands, Rest, Ahead
  <1>6. Rest(w)' = Rest(w)
    BY <1>2, <1>3 DEF Rest, Ahead
  <1>7. \A q \in Rows \ {c.id} :
          (q \in succeeded' <=> q \in succeeded) /\ attempts'[q] = attempts[q] /\ wait'[q] = wait[q]
    BY <1>1, <1>4 DEF Finishes, MarkSuccess, MarkFailure, TypeOK
  <1>8. \A v \in Workers : \A d \in Hands(v)' : d \in Hands(v) /\ d.id # c.id /\ d.id \in Rows
    BY <1>4, <1>5, HandsType DEF LeaseInv
  <1>9. \A v \in Workers : left'[v] <= left[v] /\ left'[v] \in Nat /\ left[v] \in Nat
    BY <1>3 DEF TypeOK
  <1>10. ASSUME NEW v \in Workers PROVE InHand(v)'
    <2> SUFFICES ASSUME NEW d \in Hands(v)'
                 PROVE  /\ d.id \notin succeeded' /\ d.attempts = attempts'[d.id]
                        /\ wait'[d.id] > left'[v] + Rest(v)'
      BY DEF InHand
    <2>1. d.id \notin succeeded /\ d.attempts = attempts[d.id] /\ wait[d.id] > left[v] + Rest(v)
      BY <1>8 DEF LeaseInv, InHand
    <2>2. /\ d.id \notin succeeded' /\ attempts'[d.id] = attempts[d.id]
          /\ wait'[d.id] = wait[d.id]
      BY <1>7, <1>8, <2>1
    <2>3. Rest(v)' = Rest(v) /\ Rest(v) \in Nat /\ wait[d.id] \in Nat
      BY <1>5, <1>6, <1>8, RestType DEF TypeOK
    <2> QED BY <1>9, <2>1, <2>2, <2>3
  <1>11. \A v, u \in Workers : \A a \in Hands(v)', d \in Hands(u)' : a.id = d.id => v = u /\ a = d
    BY <1>8 DEF LeaseInv
  <1>12. \A v \in Workers : cur'[v] \cap batch'[v] = {}
    BY <1>3 DEF LeaseInv
  <1> QED BY <1>10, <1>11, <1>12 DEF LeaseInv

(* Time passes for the lease and for the step alike. *)
LEMMA TickLease ==
  ASSUME TypeOK, RowsInv, LeaseInv, Tick
  PROVE  LeaseInv'
  <1>1. /\ UNCHANGED <<succeeded, attempts, pc, batch, cur>>
        /\ \A w \in Workers : pc[w] # "poll" => left[w] > 0
        /\ left' = [w \in Workers |-> IF left[w] > 0 THEN left[w] - 1 ELSE 0]
        /\ wait' = [r \in Rows |-> IF wait[r] \in 1 .. Never - 1 THEN wait[r] - 1 ELSE wait[r]]
    BY DEF Tick
  <1>2. \A w \in Workers : Hands(w)' = Hands(w) /\ Rest(w)' = Rest(w)
    BY <1>1 DEF Hands, Rest, Ahead
  <1>3. ASSUME NEW w \in Workers PROVE InHand(w)'
    <2> SUFFICES ASSUME NEW c \in Hands(w)
                 PROVE  /\ c.id \notin succeeded /\ c.attempts = attempts[c.id]
                        /\ wait'[c.id] > left'[w] + Rest(w)
      BY <1>1, <1>2 DEF InHand
    <2>1. /\ c.id \notin succeeded /\ c.attempts = attempts[c.id]
          /\ wait[c.id] > left[w] + Rest(w) /\ c.id \in Rows /\ pc[w] # "poll"
      BY HandsType DEF LeaseInv, InHand
    <2>2. left'[w] = left[w] - 1 /\ wait'[c.id] >= wait[c.id] - 1
      BY <1>1, <2>1, Constants DEF TypeOK
    <2>3. left[w] \in Nat /\ Rest(w) \in Nat /\ wait[c.id] \in Nat /\ wait'[c.id] \in Nat
      BY <1>1, <2>1, RestType, Constants DEF TypeOK
    <2> QED BY <2>1, <2>2, <2>3
  <1> QED BY <1>1, <1>2, <1>3 DEF LeaseInv

LEMMA NextLease ==
  ASSUME LeaseCoversBatch, TypeOK, RowsInv, LeaseInv, [Next]_vars
  PROVE  LeaseInv'
  <1>1. ASSUME NEW w \in Workers, Claim(w) \/ Step(w) \/ CutShort(w) PROVE LeaseInv'
    BY <1>1, ClaimLease, BatchLease, OutcomeLease DEF Step
  <1>2. CASE Tick
    BY <1>2, TickLease
  <1>3. ASSUME UNCHANGED <<succeeded, attempts, wait, worker>> PROVE LeaseInv'
    <2>1. \A w \in Workers : Hands(w)' = Hands(w) /\ Rest(w)' = Rest(w)
      BY <1>3 DEF worker, Hands, Rest, Ahead
    <2> QED BY <1>3, <2>1 DEF worker, LeaseInv, InHand
  <1>4. ASSUME NEW r \in Rows, Enqueue(r) \/ Confirm(r) PROVE LeaseInv'
    BY <1>3, <1>4 DEF Enqueue, Confirm, table
  <1>5. ASSUME NEW c \in Calls \X Rows, Land(c) \/ Lost(c) PROVE LeaseInv'
    BY <1>3, <1>5 DEF Land, Lost, table
  <1>6. CASE UNCHANGED vars
    BY <1>3, <1>6 DEF vars, table
  <1> QED BY <1>1, <1>2, <1>4, <1>5, <1>6 DEF Next

(* If the lease is longer than a full batch can take with every call and   *)
(* every outcome at its timeout, no row is ever in two workers' hands; by  *)
(* how much the shipped constants exceed or miss this bound is arithmetic. *)
THEOREM ClaimsAreDisjoint ==
  ASSUME LeaseCoversBatch
  PROVE  Spec => []ClaimsDisjoint
  <1>1. LeaseInv => ClaimsDisjoint
    <2> SUFFICES ASSUME LeaseInv, NEW v \in Workers, NEW w \in Workers, v # w,
                        NEW r \in Held(v) \cap Held(w)
                 PROVE  FALSE
      BY DEF ClaimsDisjoint
    <2>1. PICK c \in Hands(v), d \in Hands(w) : c.id = r /\ d.id = r
      BY DEF Held, Hands
    <2> QED BY <2>1 DEF LeaseInv
  <1>2. TypeOK /\ RowsInv /\ LeaseInv /\ [Next]_vars => LeaseInv'
    BY NextLease
  <1> QED BY <1>1, <1>2, InitRows, NextRows, InitLease, PTL DEF Spec

----------------------------------------------------------------------------
(* Rows in hand, when no row is in two workers' hands                      *)

(* A row in hand is not settled, as its claim read it, and there once.     *)
HandInv ==
  \A w \in Workers :
    /\ cur[w] \cap batch[w] = {}
    /\ \A c \in Hands(w) :
         /\ c.id \notin succeeded /\ c.attempts = attempts[c.id]
         /\ \A d \in Hands(w) : c.id = d.id => c = d

LEMMA InitHand == Init => HandInv
  BY DEF Init, HandInv, Hands

(* What a step takes from a worker, and leaves of the columns it read.     *)
LEMMA LessInHand ==
  ASSUME HandInv, \A w \in Workers : Hands(w)' \subseteq Hands(w),
         \A w \in Workers : cur'[w] \cap batch'[w] = {},
         \A w \in Workers : \A c \in Hands(w)' :
           (c.id \in succeeded' => c.id \in succeeded) /\ attempts'[c.id] = attempts[c.id]
  PROVE  HandInv'
  BY DEF HandInv

LEMMA ClaimHand ==
  ASSUME TypeOK, RowsInv, HandInv, NEW w \in Workers, Claim(w)
  PROVE  HandInv'
  <1>1. PICK S \in SUBSET Due : batch' = [batch EXCEPT ![w] = {CopyOf(r) : r \in S}]
    BY DEF Claim
  <1>2. pc[w] = "poll" /\ UNCHANGED <<succeeded, attempts, cur>>
    BY DEF Claim
  <1> DEFINE Copies == {CopyOf(r) : r \in S}
  <1>3. \A c \in Copies : c.id \notin succeeded /\ c.attempts = attempts[c.id] /\ c = CopyOf(c.id)
    BY DEF CopyOf, Due
  <1>4. /\ batch'[w] = Copies /\ cur'[w] = {}
        /\ \A v \in Workers \ {w} : batch'[v] = batch[v] /\ cur'[v] = cur[v]
    BY <1>1, <1>2 DEF TypeOK, RowsInv, OneBatch, Quiet
  <1> HIDE DEF Copies
  <1>5. Hands(w)' = Copies /\ \A v \in Workers \ {w} : Hands(v)' = Hands(v)
    BY <1>4 DEF Hands
  <1> QED BY <1>2, <1>3, <1>4, <1>5 DEF HandInv

LEMMA OutcomeHand ==
  ASSUME TypeOK, RowsInv, HandInv, ClaimsDisjoint, NEW w \in Workers, Finishes(w)
  PROVE  HandInv'
  <1>1. PICK c : cur[w] = {c}
    BY DEF Finishes, MarkSuccess, MarkFailure, RowsInv, OneBatch, Quiet
  <1>2. /\ batch' = batch /\ cur'[w] = {} /\ \A v \in Workers \ {w} : cur'[v] = cur[v]
    BY DEF Finishes, MarkSuccess, MarkFailure, Done, TypeOK
  <1>3. c \in Hands(w) /\ c.id \in Rows /\ Hands(w)' = Hands(w) \ {c}
    <2>1. c \in Hands(w) /\ c \notin batch[w]
      BY <1>1 DEF Hands, HandInv
    <2> QED BY <1>1, <1>2, <2>1, HandsType DEF Hands
  <1>4. \A v \in Workers \ {w} : Hands(v)' = Hands(v) /\ \A d \in Hands(v) : d.id # c.id
    <2>1. \A v \in Workers \ {w} : Hands(v)' = Hands(v)
      BY <1>2 DEF Hands
    <2>2. \A v \in Workers : Held(v) = {d.id : d \in Hands(v)}
      BY DEF Held, Hands
    <2> QED BY <1>3, <2>1, <2>2 DEF ClaimsDisjoint
  <1>5. \A v \in Workers : \A d \in Hands(v)' : d \in Hands(v) /\ d.id # c.id /\ d.id \in Rows
    BY <1>3, <1>4, HandsType DEF HandInv
  <1>6. \A q \in Rows \ {c.id} : (q \in succeeded' <=> q \in succeeded) /\ attempts'[q] = attempts[q]
    BY <1>1, <1>3 DEF Finishes, MarkSuccess, MarkFailure, TypeOK
  <1>7. \A v \in Workers : cur'[v] \cap batch'[v] = {}
    BY <1>2 DEF HandInv
  <1> QED BY <1>5, <1>6, <1>7, LessInHand

LEMMA NextHand ==
  ASSUME TypeOK, RowsInv, HandInv, ClaimsDisjoint, [Next]_vars
  PROVE  HandInv'
  <1>1. ASSUME NEW w \in Workers,
               \/ Claimed(w) \/ StartRow(w) \/ EndBatch(w) \/ Answered(w) \/ CallFails(w)
               \/ RecordRun(w) \/ CutShort(w)
        PROVE  HandInv'
    <2>1. /\ UNCHANGED <<succeeded, attempts>>
          /\ \A v \in Workers \ {w} : batch'[v] = batch[v] /\ cur'[v] = cur[v]
      BY <1>1 DEF Claimed, StartRow, EndBatch, Answered, CallFails, RecordRun, CutShort, table, TypeOK
    <2>2. Hands(w)' \subseteq Hands(w) /\ cur'[w] \cap batch'[w] = {}
      <3>1. CASE StartRow(w)
        BY <3>1 DEF StartRow, TypeOK, Hands
      <3>2. CASE CutShort(w)
        BY <3>2 DEF CutShort, TypeOK, Hands
      <3>3. CASE Claimed(w) \/ EndBatch(w) \/ Answered(w) \/ CallFails(w) \/ RecordRun(w)
        BY <3>3 DEF Claimed, EndBatch, Answered, CallFails, RecordRun, Hands, HandInv
      <3> QED BY <1>1, <3>1, <3>2, <3>3
    <2>3. \A v \in Workers : Hands(v)' \subseteq Hands(v) /\ cur'[v] \cap batch'[v] = {}
      BY <2>1, <2>2 DEF Hands, HandInv
    <2> QED BY <2>1, <2>3, LessInHand
  <1>2. ASSUME UNCHANGED <<succeeded, attempts, batch, cur>> PROVE HandInv'
    BY <1>2 DEF HandInv, Hands
  <1>3. CASE \E w \in Workers : Claim(w) \/ Step(w) \/ CutShort(w)
    BY <1>1, <1>3, ClaimHand, OutcomeHand DEF Step
  <1>4. CASE \E r \in Rows : Enqueue(r) \/ Confirm(r)
    BY <1>2, <1>4 DEF Enqueue, Confirm, table, worker
  <1>5. CASE \E c \in Calls \X Rows : Land(c) \/ Lost(c)
    BY <1>2, <1>5 DEF Land, Lost, table, worker
  <1>6. CASE Tick \/ UNCHANGED vars
    BY <1>2, <1>6 DEF Tick, vars, table, worker
  <1> QED BY <1>3, <1>4, <1>5, <1>6 DEF Next

----------------------------------------------------------------------------
(* The workers implement the ledger *)

LEMMA InitLedger == Init => Ledger!Init
  BY DEF Init, Ledger!Init

LEMMA NextLedger ==
  ASSUME TypeOK, RowsInv, HandInv, [Next]_vars
  PROVE  [Ledger!Next]_<<queued, succeeded, attempts>>
  <1> DEFINE Ok == [Ledger!Next]_<<queued, succeeded, attempts>>
  <1>1. ASSUME NEW r \in Rows, Enqueue(r) PROVE Ok
    BY <1>1 DEF Enqueue, Ledger!Next, Ledger!Enqueue
  <1>2. ASSUME NEW w \in Workers, Finishes(w) PROVE Ok
    <2>1. PICK c : cur[w] = {c}
      BY <1>2 DEF Finishes, MarkSuccess, MarkFailure, RowsInv, OneBatch, Quiet
    <2>2. /\ c \in Hands(w) /\ c.id \in Rows /\ c.id \in queued /\ c.attempts < MaxAttempts
          /\ c.id \notin succeeded /\ c.attempts = attempts[c.id]
      BY <2>1, HandsType DEF Hands, RowsInv, OneBatch, HandInv
    <2>3. Ledger!Open(c.id)
      BY <2>2 DEF Ledger!Open
    <2>4. CASE MarkSuccess(w)
      <3>1. succeeded' = succeeded \cup {c.id} /\ UNCHANGED <<queued, attempts>>
        BY <2>1, <2>4 DEF MarkSuccess
      <3> QED BY <2>2, <2>3, <3>1 DEF Ledger!Next, Ledger!Send
    <2>5. CASE MarkFailure(w)
      <3>1. /\ attempts' = [attempts EXCEPT ![c.id] = c.attempts + 1]
            /\ UNCHANGED <<queued, succeeded>>
        BY <2>1, <2>5 DEF MarkFailure
      <3> QED BY <2>2, <2>3, <3>1 DEF Ledger!Next, Ledger!Fail
    <2> QED BY <1>2, <2>4, <2>5 DEF Finishes
  <1>3. ASSUME UNCHANGED <<queued, succeeded, attempts>> PROVE Ok
    BY <1>3
  <1>4. ASSUME NEW w \in Workers,
               \/ Claim(w) \/ Claimed(w) \/ StartRow(w) \/ EndBatch(w) \/ Answered(w)
               \/ CallFails(w) \/ RecordRun(w) \/ CutShort(w)
        PROVE  Ok
    BY <1>3, <1>4 DEF Claim, Claimed, StartRow, EndBatch, Answered, CallFails, RecordRun, CutShort,
                      table
  <1>5. CASE \E r \in Rows : Enqueue(r) \/ Confirm(r)
    BY <1>1, <1>3, <1>5 DEF Confirm, table
  <1>6. CASE \E w \in Workers : Claim(w) \/ Step(w) \/ CutShort(w)
    BY <1>2, <1>4, <1>6 DEF Step
  <1>7. CASE \E c \in Calls \X Rows : Land(c) \/ Lost(c)
    BY <1>3, <1>7 DEF Land, Lost, table
  <1>8. CASE Tick \/ UNCHANGED vars
    BY <1>3, <1>8 DEF Tick, vars, table
  <1> QED BY <1>5, <1>6, <1>7, <1>8 DEF Next

(* As long as no row is in two workers' hands an email is sent once, tried *)
(* at most MaxAttempts times, and no try is forgotten, whatever fails or   *)
(* is cut short: what the ledger promises.                                 *)
THEOREM DisjointClaimsImplementLedger == Spec /\ []ClaimsDisjoint => ImplementsLedger
  <1>1. TypeOK /\ RowsInv /\ HandInv /\ ClaimsDisjoint /\ [Next]_vars => HandInv'
    BY NextHand
  <1>2. TypeOK /\ RowsInv /\ HandInv /\ [Next]_vars => [Ledger!Next]_<<queued, succeeded, attempts>>
    BY NextLedger
  <1> QED
    BY <1>1, <1>2, InitRows, NextRows, InitHand, InitLedger, PTL DEF Spec, ImplementsLedger, Ledger!Spec

(* So they do if the lease covers a batch.                                 *)
THEOREM LedgerImplemented ==
  ASSUME LeaseCoversBatch
  PROVE  Spec => ImplementsLedger
  BY ClaimsAreDisjoint, DisjointClaimsImplementLedger, PTL

(* And so does a single worker, however short its lease: a claim cannot    *)
(* meet its own batch.                                                     *)
THEOREM LoneWorkerImplementsLedger ==
  ASSUME \A v, w \in Workers : v = w
  PROVE  Spec => ImplementsLedger
  <1>1. ClaimsDisjoint
    BY DEF ClaimsDisjoint
  <1> QED BY <1>1, DisjointClaimsImplementLedger, PTL

----------------------------------------------------------------------------
(* Counts *)

(* As many pairs with d as g says of d: a sum, as the number of a set.     *)
Below(D, m, g) == {x \in D \X (1..m) : x[2] <= g[x[1]]}

LEMMA BelowFinite ==
  ASSUME NEW D, IsFiniteSet(D), NEW m \in Nat, NEW g
  PROVE  IsFiniteSet(Below(D, m, g))
  <1>1. IsFiniteSet(D \X (1..m))
    <2>1. IsFiniteSet(1..m)
      BY FS_Interval
    <2> QED BY <2>1, FS_Product
  <1> QED BY <1>1, FS_Subset DEF Below

LEMMA BelowZero ==
  ASSUME NEW D, NEW m \in Nat, NEW g, \A d \in D : g[d] = 0
  PROVE  Below(D, m, g) = {}
  BY DEF Below

LEMMA BelowOneFinite ==
  ASSUME NEW D, NEW m \in Nat, NEW g \in [D -> 0..m], NEW d \in D,
         NEW k \in 1..m, NEW h, h = [g EXCEPT ![d] = k], IsFiniteSet(Below(D, m, g))
  PROVE  IsFiniteSet(Below(D, m, h))
  <1>1. Below(D, m, h) \subseteq Below(D, m, g) \cup {d} \X (1..k)
    <2>1. ASSUME NEW e \in D, NEW n \in 1..m, n <= h[e]
          PROVE  n <= g[e] \/ (e = d /\ n \in 1..k)
      BY <2>1
    <2> QED BY <2>1 DEF Below
  <1> DEFINE d1 == {d}
             I == 1..k
             B == Below(D, m, g)
  <1>2. IsFiniteSet(d1) /\ IsFiniteSet(I) /\ IsFiniteSet(B)
    <2>1. IsFiniteSet(1..k)
      BY FS_Interval
    <2> QED BY <2>1, FS_Singleton
  <1>3. Below(D, m, h) \subseteq B \cup (d1 \X I)
    BY <1>1
  <1> HIDE DEF d1, I, B
  <1>4. IsFiniteSet(d1 \X I)
    BY <1>2, FS_Product
  <1>5. IsFiniteSet(B \cup (d1 \X I))
    BY <1>2, <1>4, FS_Union
  <1> QED BY <1>3, <1>5, FS_Subset

LEMMA BelowOne ==
  ASSUME NEW D, NEW m \in Nat, NEW g \in [D -> 0..m], NEW d \in D,
         NEW k \in 1..m, NEW h, h = [g EXCEPT ![d] = k], h[d] = g[d] + 1,
         IsFiniteSet(Below(D, m, g))
  PROVE  Cardinality(Below(D, m, h)) = Cardinality(Below(D, m, g)) + 1
  <1> DEFINE new == <<d, k>>
  <1>1. new \notin Below(D, m, g)
    BY DEF Below
  <1>2. Below(D, m, h) = Below(D, m, g) \cup {new}
    <2>1. ASSUME NEW e \in D, NEW n \in 1..m
          PROVE  n <= h[e] <=> n <= g[e] \/ (e = d /\ n = k)
      OBVIOUS
    <2> QED BY <2>1 DEF Below
  <1> DEFINE B == Below(D, m, g)
  <1> HIDE DEF new, B
  <1>3. IsFiniteSet(B \cup {new}) /\ Cardinality(B \cup {new}) = Cardinality(B) + 1
    BY <1>1, FS_AddElement DEF B
  <1> QED BY <1>2, <1>3 DEF B

LEMMA BelowNone ==
  ASSUME NEW D, NEW m \in Nat, NEW g \in [D -> 0..m], NEW d \in D,
         NEW h, h = [g EXCEPT ![d] = 0], IsFiniteSet(Below(D, m, g))
  PROVE  /\ IsFiniteSet(Below(D, m, h)) /\ Cardinality(Below(D, m, h)) \in Nat
         /\ Cardinality(Below(D, m, g)) = Cardinality(Below(D, m, h)) + g[d]
  <1> DEFINE Own == {d} \X (1..g[d])
             Kept == Below(D, m, h)
  <1>1. Below(D, m, g) = Kept \cup Own /\ Kept \cap Own = {}
    <2>1. ASSUME NEW e \in D, NEW n \in 1..m
          PROVE  n <= h[e] <=> n <= g[e] /\ e # d
      OBVIOUS
    <2>2. \A n : n \in 1..g[d] <=> n \in 1..m /\ n <= g[d]
      OBVIOUS
    <2> QED BY <2>1, <2>2 DEF Below
  <1>2. IsFiniteSet(Own) /\ Cardinality(Own) = g[d]
    <2>1. IsFiniteSet(1..g[d]) /\ Cardinality(1..g[d]) = g[d]
      BY FS_Interval
    <2>2. IsFiniteSet({d}) /\ Cardinality({d}) = 1
      BY FS_Singleton
    <2> DEFINE I == 1..g[d]
               d1 == {d}
    <2>3. IsFiniteSet(d1) /\ IsFiniteSet(I) /\ Cardinality(d1) = 1 /\ Cardinality(I) = g[d]
      BY <2>1, <2>2
    <2> HIDE DEF I, d1
    <2>4. IsFiniteSet(d1 \X I) /\ Cardinality(d1 \X I) = Cardinality(d1) * Cardinality(I)
      BY <2>3, FS_Product
    <2>5. Cardinality(d1 \X I) = g[d]
      BY <2>3, <2>4
    <2> QED BY <2>4, <2>5 DEF I, d1
  <1> HIDE DEF Own, Kept
  <1>3. IsFiniteSet(Kept) /\ Cardinality(Kept) \in Nat
    <2>1. Kept \in SUBSET Below(D, m, g)
      BY <1>1
    <2> QED BY <2>1, FS_Subset, FS_CardinalityType
  <1>4. Cardinality(Kept \cup Own) = Cardinality(Kept) + g[d] - Cardinality({})
    BY <1>1, <1>2, <1>3, FS_Union
  <1>5. Cardinality(Below(D, m, g)) = Cardinality(Kept) + g[d]
    BY <1>1, <1>3, <1>4, FS_EmptySet
  <1> QED BY <1>3, <1>5 DEF Kept

----------------------------------------------------------------------------
(* What job_runs shows                                                     *)

(* What the batches under way have sent, and have failed to send, so far.  *)
Past(w) == tally[w].claimed - (tally[w].sent + Cardinality(batch[w]) + Cardinality(cur[w]))
SentSoFar == [w \in Workers |-> tally[w].sent]
FailedSoFar == [w \in Workers |-> Past(w)]
SentNow == Below(Workers, Limit, SentSoFar)
FailedNow == Below(Workers, Limit, FailedSoFar)
Tries == Below(Rows, MaxAttempts, attempts)

(* With what is under way job_runs shows no more than was sent and failed, *)
(* and all of it while nothing was cut short.                              *)
CountInv ==
  /\ IsFiniteSet(SentNow) /\ IsFiniteSet(FailedNow)
  /\ runs.sent + Cardinality(SentNow) <= Cardinality(succeeded)
  /\ runs.failed + Cardinality(FailedNow) <= Cardinality(Tries)
  /\ cuts = 0 => /\ runs.sent + Cardinality(SentNow) = Cardinality(succeeded)
                 /\ runs.failed + Cardinality(FailedNow) = Cardinality(Tries)
  /\ \A w \in Workers : pc[w] = "poll" => tally[w] = NoRows

LEMMA SoFarType ==
  ASSUME TypeOK, RowsInv
  PROVE  /\ SentSoFar \in [Workers -> 0..Limit] /\ FailedSoFar \in [Workers -> 0..Limit]
         /\ runs.sent \in Nat /\ runs.failed \in Nat /\ cuts \in Nat
         /\ IsFiniteSet(succeeded) /\ Cardinality(succeeded) \in Nat
         /\ IsFiniteSet(Tries) /\ Cardinality(Tries) \in Nat
  <1>1. ASSUME NEW w \in Workers PROVE tally[w].sent \in 0..Limit /\ Past(w) \in 0..Limit
    <2>1. /\ tally[w] \in [claimed : 0..Limit, sent : 0..Limit] /\ OneBatch(w)
      BY DEF TypeOK, RowsInv
    <2>2. Cardinality(batch[w]) \in Nat /\ Cardinality(cur[w]) \in Nat
      BY <2>1, SmallSets, FS_CardinalityType DEF OneBatch
    <2>3. tally[w].sent + Cardinality(batch[w]) + Cardinality(cur[w]) <= tally[w].claimed
      BY <2>1 DEF OneBatch
    <2>4. tally[w].sent \in 0..Limit /\ tally[w].claimed \in 0..Limit
      BY <2>1
    <2> QED BY <2>2, <2>3, <2>4, Constants DEF Past
  <1>2. IsFiniteSet(succeeded) /\ Cardinality(succeeded) \in Nat
    <2>1. succeeded \in SUBSET Rows
      BY DEF TypeOK
    <2> QED BY <2>1, Constants, FS_Subset, FS_CardinalityType
  <1>3. IsFiniteSet(Tries) /\ Cardinality(Tries) \in Nat
    BY Constants, BelowFinite, FS_CardinalityType DEF Tries
  <1>4. runs.sent \in Nat /\ runs.failed \in Nat /\ cuts \in Nat
    BY Constants DEF TypeOK
  <1> QED BY <1>1, <1>2, <1>3, <1>4 DEF SentSoFar, FailedSoFar

LEMMA ClaimSize ==
  ASSUME TypeOK, NEW S \in SUBSET Due
  PROVE  Cardinality({CopyOf(r) : r \in S}) = Cardinality(S)
  <1>1. IsFiniteSet(S)
    <2>1. S \in SUBSET Rows
      BY DEF Due, TypeOK
    <2> QED BY <2>1, Constants, FS_Subset
  <1> DEFINE Copies == {CopyOf(r) : r \in S}
             f == [r \in S |-> CopyOf(r)]
  <1>2. f \in Surjection(S, Copies)
    BY DEF Surjection
  <1>3. f \in [S -> Copies]
    OBVIOUS
  <1>4. \A a, b \in S : f[a] = f[b] => a = b
    BY DEF CopyOf
  <1> HIDE DEF Copies, f
  <1>5. f \in Injection(S, Copies)
    BY <1>3, <1>4, Fun_IsInj
  <1>6. Cardinality(Copies) = Cardinality(S)
    BY <1>1, <1>2, <1>5, FS_Surjection
  <1> QED BY <1>6 DEF Copies

LEMMA InitCount == Init => CountInv
  <1> SUFFICES ASSUME Init PROVE CountInv
    OBVIOUS
  <1>1. \A w \in Workers : tally[w] = NoRows /\ Past(w) = 0
    BY SmallSets DEF Init, NoRows, Past
  <1>2. SentNow = {} /\ FailedNow = {}
    BY <1>1, BelowZero, Constants DEF SentNow, FailedNow, SentSoFar, FailedSoFar, NoRows
  <1>3. Tries = {}
    BY BelowZero, Constants DEF Tries, Init
  <1> QED BY <1>1, <1>2, <1>3, SmallSets DEF Init, CountInv

(* A step that changes no count.                                           *)
LEMMA SameCount ==
  ASSUME TypeOK, RowsInv, CountInv, UNCHANGED <<succeeded, attempts, runs, cuts>>,
         \A w \in Workers : tally'[w].sent = tally[w].sent /\ Past(w)' = Past(w),
         \A w \in Workers : pc'[w] = "poll" => tally'[w] = NoRows
  PROVE  CountInv'
  <1>1. SentNow' = SentNow /\ FailedNow' = FailedNow /\ Tries' = Tries
    BY DEF SentNow, FailedNow, SentSoFar, FailedSoFar, Tries
  <1> QED BY <1>1 DEF CountInv

LEMMA BatchCount ==
  ASSUME TypeOK, RowsInv, CountInv, NEW w \in Workers,
         Claim(w) \/ Claimed(w) \/ StartRow(w) \/ EndBatch(w) \/ Answered(w) \/ CallFails(w)
  PROVE  CountInv'
  <1>1. /\ UNCHANGED <<succeeded, attempts, runs, cuts>>
        /\ \A v \in Workers \ {w} :
             pc'[v] = pc[v] /\ batch'[v] = batch[v] /\ cur'[v] = cur[v] /\ tally'[v] = tally[v]
        /\ pc'[w] # "poll"
    BY DEF Claim, Claimed, StartRow, EndBatch, Answered, AfterAnswer, CallFails, Goto, table, TypeOK
  <1>2. tally'[w].sent = tally[w].sent /\ Past(w)' = Past(w)
    <2>1. CASE Claim(w)
      <3>1. PICK S \in SUBSET Due :
              /\ Cardinality(S) = Least(Limit, Cardinality(Due))
              /\ batch' = [batch EXCEPT ![w] = {CopyOf(r) : r \in S}]
              /\ tally' = [tally EXCEPT ![w] = [claimed |-> Cardinality(S), sent |-> 0]]
        BY <2>1 DEF Claim
      <3>2. pc[w] = "poll" /\ UNCHANGED cur
        BY <2>1 DEF Claim
      <3>3. /\ batch'[w] = {CopyOf(r) : r \in S} /\ cur'[w] = {} /\ batch[w] = {} /\ cur[w] = {}
            /\ tally[w] = NoRows /\ tally'[w] = [claimed |-> Cardinality(S), sent |-> 0]
        BY <3>1, <3>2 DEF TypeOK, RowsInv, OneBatch, Quiet, CountInv
      <3>4. Cardinality(batch'[w]) = Cardinality(S) /\ Cardinality(S) \in Nat
        BY <3>1, <3>3, ClaimSize, ClaimIs
      <3>5. Past(w)' = Cardinality(S) - (0 + Cardinality(S) + 0)
        BY <3>3, <3>4, SmallSets DEF Past
      <3>6. Past(w) = 0 - (0 + 0 + 0)
        BY <3>3, SmallSets DEF Past, NoRows
      <3>7. Past(w)' = Past(w)
        BY <3>4, <3>5, <3>6
      <3> QED BY <3>3, <3>7 DEF NoRows
    <2>2. CASE StartRow(w)
      <3>1. PICK c \in batch[w] : cur' = [cur EXCEPT ![w] = {c}] /\ batch' = [batch EXCEPT ![w] = @ \ {c}]
        BY <2>2 DEF StartRow
      <3>2. /\ cur'[w] = {c} /\ cur[w] = {} /\ batch'[w] = batch[w] \ {c} /\ tally' = tally
            /\ IsFiniteSet(batch[w])
        BY <2>2, <3>1 DEF StartRow, TypeOK, RowsInv, OneBatch, Quiet
      <3>3. Cardinality(batch'[w]) = Cardinality(batch[w]) - 1 /\ Cardinality(batch[w]) \in Nat
        BY <3>1, <3>2, FS_RemoveElement, FS_CardinalityType
      <3>4. Cardinality(cur'[w]) = 1 /\ Cardinality(cur[w]) = 0
        BY <3>2, SmallSets
      <3>5. tally[w].sent \in Nat /\ tally[w].claimed \in Nat
        BY Constants DEF TypeOK
      <3>6. /\ Past(w) = tally[w].claimed - (tally[w].sent + Cardinality(batch[w]) + 0)
            /\ Past(w)' = tally[w].claimed - (tally[w].sent + (Cardinality(batch[w]) - 1) + 1)
        BY <3>2, <3>3, <3>4 DEF Past
      <3>7. Past(w)' = Past(w)
        BY <3>3, <3>5, <3>6
      <3> QED BY <3>2, <3>7
    <2>3. CASE Claimed(w) \/ EndBatch(w) \/ Answered(w) \/ CallFails(w)
      BY <2>3 DEF Claimed, EndBatch, Answered, CallFails, Past
    <2> QED BY <2>1, <2>2, <2>3
  <1>3. \A v \in Workers : tally'[v].sent = tally[v].sent /\ Past(v)' = Past(v)
    BY <1>1, <1>2 DEF Past
  <1>4. \A v \in Workers : pc'[v] = "poll" => tally'[v] = NoRows
    BY <1>1 DEF CountInv
  <1> QED BY <1>1, <1>3, <1>4, SameCount

(* A row marked sent is one more of either side, and so is a failed try.   *)
LEMMA OutcomeCount ==
  ASSUME TypeOK, RowsInv, HandInv, CountInv, NEW w \in Workers, Finishes(w)
  PROVE  CountInv'
  <1>1. PICK c : cur[w] = {c}
    BY DEF Finishes, MarkSuccess, MarkFailure, RowsInv, OneBatch, Quiet
  <1>2. /\ c.id \notin succeeded /\ c.attempts = attempts[c.id] /\ c.id \in Rows
        /\ c.attempts < MaxAttempts
    <2>1. c \in Hands(w)
      BY <1>1 DEF Hands
    <2> QED BY <2>1, HandsType DEF HandInv, RowsInv, OneBatch
  <1>3. /\ pc' = [pc EXCEPT ![w] = "next"] /\ cur' = [cur EXCEPT ![w] = {}]
        /\ UNCHANGED <<batch, runs, cuts>>
    BY DEF Finishes, MarkSuccess, MarkFailure, Done, Goto
  <1>4. Cardinality(cur[w]) = 1 /\ Cardinality(cur'[w]) = 0 /\ Cardinality(batch[w]) \in Nat
    BY <1>1, <1>3, SmallSets, FS_CardinalityType DEF RowsInv, OneBatch, TypeOK
  <1>5. /\ tally[w].sent \in Nat /\ tally[w].claimed \in Nat /\ tally[w].claimed <= Limit
        /\ tally[w].sent + Cardinality(batch[w]) + 1 <= tally[w].claimed
    BY <1>4, Constants DEF TypeOK, RowsInv, OneBatch
  <1>6. Past(w) = tally[w].claimed - (tally[w].sent + Cardinality(batch[w]) + 1)
    BY <1>4 DEF Past
  <1>7. \A v \in Workers : pc'[v] = "poll" => tally'[v] = NoRows
    BY <1>3 DEF Finishes, MarkSuccess, MarkFailure, CountInv, TypeOK
  <1>8. CASE MarkSuccess(w)
    <2>1. /\ succeeded' = succeeded \cup {c.id} /\ UNCHANGED attempts
          /\ tally' = [tally EXCEPT ![w].sent = @ + 1]
      BY <1>1, <1>8 DEF MarkSuccess
    <2>2. /\ tally'[w].sent = tally[w].sent + 1 /\ tally'[w].claimed = tally[w].claimed
          /\ \A v \in Workers \ {w} : tally'[v] = tally[v]
      BY <2>1 DEF TypeOK
    <2>3. SentSoFar' = [SentSoFar EXCEPT ![w] = SentSoFar[w] + 1] /\ SentSoFar[w] < Limit
      <3>1. SentSoFar[w] = tally[w].sent
        BY DEF SentSoFar
      <3>2. tally[w].sent < Limit
        BY <1>4, <1>5, Constants
      <3>3. \A v \in Workers : tally'[v].sent = IF v = w THEN tally[w].sent + 1 ELSE tally[v].sent
        BY <2>2
      <3>4. SentSoFar' = [SentSoFar EXCEPT ![w] = tally[w].sent + 1]
        BY <3>3 DEF SentSoFar
      <3> QED BY <3>1, <3>2, <3>4
    <2>4. FailedSoFar' = FailedSoFar
      <3>1. Past(w)' = tally[w].claimed - ((tally[w].sent + 1) + Cardinality(batch[w]) + 0)
        BY <1>3, <1>4, <2>2 DEF Past
      <3>2. Past(w)' = Past(w)
        BY <1>4, <1>5, <1>6, <3>1
      <3>3. \A v \in Workers \ {w} : Past(v)' = Past(v)
        BY <1>3, <2>2 DEF Past, TypeOK
      <3> QED BY <3>2, <3>3 DEF FailedSoFar
    <2>5. IsFiniteSet(SentNow') /\ Cardinality(SentNow') = Cardinality(SentNow) + 1
      <3> DEFINE g == SentSoFar
                 h == SentSoFar'
                 k == SentSoFar[w] + 1
      <3>1. /\ g \in [Workers -> 0..Limit] /\ IsFiniteSet(Below(Workers, Limit, g))
            /\ h = [g EXCEPT ![w] = k] /\ h[w] = g[w] + 1 /\ k \in 1..Limit /\ Limit \in Nat
        BY <2>3, SoFarType, Constants DEF SentNow, CountInv
      <3> HIDE DEF g, h, k
      <3>2. Cardinality(Below(Workers, Limit, h)) = Cardinality(Below(Workers, Limit, g)) + 1
        BY <3>1, BelowOne
      <3>3. IsFiniteSet(Below(Workers, Limit, h))
        BY <3>1, BelowOneFinite
      <3> QED BY <3>2, <3>3 DEF g, h, SentNow
    <2>6. FailedNow' = FailedNow /\ Tries' = Tries
      BY <2>1, <2>4 DEF FailedNow, Tries
    <2>7. Cardinality(succeeded') = Cardinality(succeeded) + 1 /\ Cardinality(succeeded) \in Nat
      BY <1>2, <2>1, SoFarType, FS_AddElement
    <2>8. Cardinality(SentNow) \in Nat /\ runs.sent \in Nat
      BY SoFarType, FS_CardinalityType DEF CountInv
    <2> QED BY <1>3, <1>7, <2>5, <2>6, <2>7, <2>8 DEF CountInv
  <1>9. CASE MarkFailure(w)
    <2>1. /\ attempts' = [attempts EXCEPT ![c.id] = attempts[c.id] + 1] /\ UNCHANGED <<succeeded, tally>>
      BY <1>1, <1>2, <1>9 DEF MarkFailure
    <2>2. SentNow' = SentNow
      BY <2>1 DEF SentNow, SentSoFar
    <2>3. FailedSoFar' = [FailedSoFar EXCEPT ![w] = FailedSoFar[w] + 1] /\ FailedSoFar[w] < Limit
      <3>1. Past(w)' = tally[w].claimed - (tally[w].sent + Cardinality(batch[w]) + 0)
        BY <1>3, <1>4, <2>1 DEF Past
      <3>2. Past(w)' = Past(w) + 1 /\ Past(w) < Limit
        BY <1>4, <1>5, <1>6, <3>1, Constants
      <3>3. \A v \in Workers \ {w} : Past(v)' = Past(v)
        BY <1>3, <2>1 DEF Past, TypeOK
      <3> QED BY <3>2, <3>3 DEF FailedSoFar
    <2>4. IsFiniteSet(FailedNow') /\ Cardinality(FailedNow') = Cardinality(FailedNow) + 1
      <3> DEFINE g == FailedSoFar
                 h == FailedSoFar'
                 k == FailedSoFar[w] + 1
      <3>1. /\ g \in [Workers -> 0..Limit] /\ IsFiniteSet(Below(Workers, Limit, g))
            /\ h = [g EXCEPT ![w] = k] /\ h[w] = g[w] + 1 /\ k \in 1..Limit /\ Limit \in Nat
        BY <2>3, SoFarType, Constants DEF FailedNow, CountInv
      <3> HIDE DEF g, h, k
      <3>2. Cardinality(Below(Workers, Limit, h)) = Cardinality(Below(Workers, Limit, g)) + 1
        BY <3>1, BelowOne
      <3>3. IsFiniteSet(Below(Workers, Limit, h))
        BY <3>1, BelowOneFinite
      <3> QED BY <3>2, <3>3 DEF g, h, FailedNow
    <2>5. Cardinality(Tries') = Cardinality(Tries) + 1 /\ Cardinality(Tries) \in Nat
      <3>1. attempts \in [Rows -> 0..MaxAttempts] /\ attempts[c.id] < MaxAttempts
        BY <1>2 DEF TypeOK
      <3> DEFINE g == attempts
                 h == attempts'
                 r == c.id
                 k == attempts[c.id] + 1
      <3>2. /\ g \in [Rows -> 0..MaxAttempts] /\ IsFiniteSet(Below(Rows, MaxAttempts, g))
            /\ r \in Rows /\ h = [g EXCEPT ![r] = k] /\ h[r] = g[r] + 1
            /\ k \in 1..MaxAttempts /\ MaxAttempts \in Nat
        BY <1>2, <2>1, <3>1, SoFarType, Constants DEF Tries
      <3> HIDE DEF g, h, r, k
      <3>3. Cardinality(Below(Rows, MaxAttempts, h)) = Cardinality(Below(Rows, MaxAttempts, g)) + 1
        BY <3>2, BelowOne
      <3> QED BY <3>3, SoFarType DEF g, h, Tries
    <2>6. Cardinality(FailedNow) \in Nat /\ runs.failed \in Nat
      BY SoFarType, FS_CardinalityType DEF CountInv
    <2> QED BY <1>3, <1>7, <2>1, <2>2, <2>4, <2>5, <2>6 DEF CountInv
  <1> QED BY <1>8, <1>9 DEF Finishes

(* The end of a batch: what it did is in job_runs now, or cut short.       *)
LEMMA EndCount ==
  ASSUME TypeOK, RowsInv, CountInv, NEW w \in Workers, RecordRun(w) \/ CutShort(w)
  PROVE  CountInv'
  <1>1. /\ pc' = [pc EXCEPT ![w] = "poll"] /\ tally' = [tally EXCEPT ![w] = NoRows]
        /\ UNCHANGED <<succeeded, attempts>>
    BY DEF RecordRun, CutShort, Goto, table
  <1>2. /\ batch' = [batch EXCEPT ![w] = {}] /\ cur' = [cur EXCEPT ![w] = {}]
    BY DEF RecordRun, CutShort, TypeOK, RowsInv, OneBatch, Quiet
  <1>3. /\ SentSoFar' = [SentSoFar EXCEPT ![w] = 0] /\ FailedSoFar' = [FailedSoFar EXCEPT ![w] = 0]
    <2>1. tally'[w].sent = 0 /\ Past(w)' = 0
      <3>1. tally'[w] = NoRows /\ batch'[w] = {} /\ cur'[w] = {}
        BY <1>1, <1>2 DEF TypeOK
      <3> QED BY <3>1, SmallSets DEF NoRows, Past
    <2>2. \A v \in Workers \ {w} : tally'[v] = tally[v] /\ Past(v)' = Past(v)
      BY <1>1, <1>2 DEF TypeOK, Past
    <2> QED BY <2>1, <2>2 DEF SentSoFar, FailedSoFar
  <1>4. /\ IsFiniteSet(SentNow') /\ Cardinality(SentNow') \in Nat
        /\ Cardinality(SentNow) = Cardinality(SentNow') + SentSoFar[w]
    <2> DEFINE g == SentSoFar
               h == SentSoFar'
    <2>1. /\ g \in [Workers -> 0..Limit] /\ IsFiniteSet(Below(Workers, Limit, g))
          /\ h = [g EXCEPT ![w] = 0] /\ Limit \in Nat
      BY <1>3, SoFarType, Constants DEF SentNow, CountInv
    <2> HIDE DEF g, h
    <2>2. /\ IsFiniteSet(Below(Workers, Limit, h)) /\ Cardinality(Below(Workers, Limit, h)) \in Nat
          /\ Cardinality(Below(Workers, Limit, g)) = Cardinality(Below(Workers, Limit, h)) + g[w]
      BY <2>1, BelowNone
    <2> QED BY <2>2 DEF g, h, SentNow
  <1>5. /\ IsFiniteSet(FailedNow') /\ Cardinality(FailedNow') \in Nat
        /\ Cardinality(FailedNow) = Cardinality(FailedNow') + FailedSoFar[w]
    <2> DEFINE g == FailedSoFar
               h == FailedSoFar'
    <2>1. /\ g \in [Workers -> 0..Limit] /\ IsFiniteSet(Below(Workers, Limit, g))
          /\ h = [g EXCEPT ![w] = 0] /\ Limit \in Nat
      BY <1>3, SoFarType, Constants DEF FailedNow, CountInv
    <2> HIDE DEF g, h
    <2>2. /\ IsFiniteSet(Below(Workers, Limit, h)) /\ Cardinality(Below(Workers, Limit, h)) \in Nat
          /\ Cardinality(Below(Workers, Limit, g)) = Cardinality(Below(Workers, Limit, h)) + g[w]
      BY <2>1, BelowNone
    <2> QED BY <2>2 DEF g, h, FailedNow
  <1>6. Tries' = Tries
    BY <1>1 DEF Tries
  <1>7. \A v \in Workers : pc'[v] = "poll" => tally'[v] = NoRows
    BY <1>1 DEF TypeOK, CountInv
  <1>8. SentSoFar[w] \in Nat /\ FailedSoFar[w] \in Nat
    BY SoFarType, Constants
  <1>9. CASE runs' = Recorded(w) /\ UNCHANGED cuts /\ pc[w] = "record"
    <2>1. SentSoFar[w] = tally[w].sent /\ FailedSoFar[w] = tally[w].claimed - tally[w].sent
      <3>1. Cardinality(batch[w]) = 0 /\ Cardinality(cur[w]) = 0
        BY <1>9, SmallSets DEF RowsInv, OneBatch, Quiet
      <3>2. tally[w].sent \in Nat /\ tally[w].claimed \in Nat
        BY Constants DEF TypeOK
      <3> QED BY <3>1, <3>2 DEF SentSoFar, FailedSoFar, Past
    <2>2. runs'.sent = runs.sent + SentSoFar[w] /\ runs'.failed = runs.failed + FailedSoFar[w]
      BY <1>9, <2>1 DEF Recorded
    <2> QED BY <1>1, <1>4, <1>5, <1>6, <1>7, <1>8, <1>9, <2>2, SoFarType DEF CountInv
  <1>10. CASE UNCHANGED runs /\ cuts' = cuts + 1
    <2>1. cuts' # 0
      BY <1>10, SoFarType
    <2> QED BY <1>1, <1>4, <1>5, <1>6, <1>7, <1>8, <1>10, <2>1, SoFarType DEF CountInv
  <1> QED BY <1>9, <1>10 DEF RecordRun, CutShort

LEMMA NextCount ==
  ASSUME TypeOK, RowsInv, HandInv, CountInv, [Next]_vars
  PROVE  CountInv'
  <1>1. CASE \E w \in Workers : Claim(w) \/ Step(w) \/ CutShort(w)
    BY <1>1, BatchCount, OutcomeCount, EndCount DEF Step
  <1>2. ASSUME UNCHANGED <<succeeded, attempts, pc, batch, cur, tally, runs, cuts>> PROVE CountInv'
    BY <1>2, SameCount DEF Past, CountInv
  <1>3. CASE \E r \in Rows : Enqueue(r) \/ Confirm(r)
    BY <1>2, <1>3 DEF Enqueue, Confirm, table, worker
  <1>4. CASE \E c \in Calls \X Rows : Land(c) \/ Lost(c)
    BY <1>2, <1>4 DEF Land, Lost, table, worker
  <1>5. CASE Tick \/ UNCHANGED vars
    BY <1>2, <1>5 DEF Tick, vars, table, worker
  <1> QED BY <1>1, <1>3, <1>4, <1>5 DEF Next

LEMMA CountShows == TypeOK /\ RowsInv /\ CountInv => RunsAddUp
  <1> SUFFICES ASSUME TypeOK, RowsInv, CountInv PROVE RunsAddUp
    OBVIOUS
  <1>1. Failures = Cardinality(Tries)
    BY DEF Failures, Tries, Below
  <1>2. Cardinality(SentNow) \in Nat /\ Cardinality(FailedNow) \in Nat
    BY FS_CardinalityType DEF CountInv
  <1>3. runs.sent <= Cardinality(succeeded) /\ runs.failed <= Failures
    BY <1>1, <1>2, SoFarType DEF CountInv
  <1>4. ASSUME cuts = 0, \A w \in Workers : pc[w] = "poll"
        PROVE  runs = [sent |-> Cardinality(succeeded), failed |-> Failures]
    <2>1. \A w \in Workers : tally[w] = NoRows /\ batch[w] = {} /\ cur[w] = {}
      BY <1>4 DEF CountInv, RowsInv, OneBatch, Quiet
    <2>2. \A w \in Workers : tally[w].sent = 0 /\ Past(w) = 0
      BY <2>1, SmallSets DEF Past, NoRows
    <2>3. SentNow = {} /\ FailedNow = {}
      BY <2>2, BelowZero, Constants DEF SentNow, FailedNow, SentSoFar, FailedSoFar
    <2>4. runs.sent = Cardinality(succeeded) /\ runs.failed = Failures
      BY <1>1, <1>4, <2>3, SmallSets, SoFarType DEF CountInv
    <2> QED BY <2>4 DEF TypeOK
  <1> QED BY <1>3, <1>4 DEF RunsAddUp

(* As long as no row is in two workers' hands job_runs never shows more    *)
(* sent or failed than there was, whatever is cut short, and exactly that  *)
(* when nothing was.                                                       *)
THEOREM DisjointClaimsAddUp == Spec /\ []ClaimsDisjoint => []RunsAddUp
  <1>1. TypeOK /\ RowsInv /\ HandInv /\ ClaimsDisjoint /\ [Next]_vars => HandInv'
    BY NextHand
  <1>2. TypeOK /\ RowsInv /\ HandInv /\ CountInv /\ [Next]_vars => CountInv'
    BY NextCount
  <1> QED
    BY <1>1, <1>2, InitRows, NextRows, InitHand, InitCount, CountShows, PTL DEF Spec

(* So it is if the lease covers a batch.                                   *)
THEOREM RunsAddUpHolds ==
  ASSUME LeaseCoversBatch
  PROVE  Spec => []RunsAddUp
  BY ClaimsAreDisjoint, DisjointClaimsAddUp, PTL

(* And so it is with a single worker, however short its lease.             *)
THEOREM LoneWorkerAddsUp ==
  ASSUME \A v, w \in Workers : v = w
  PROVE  Spec => []RunsAddUp
  <1>1. ClaimsDisjoint
    BY DEF ClaimsDisjoint
  <1> QED BY <1>1, DisjointClaimsAddUp, PTL
=============================================================================
