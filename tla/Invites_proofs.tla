--------------------------- MODULE Invites_proofs ---------------------------
(***************************************************************************)
(* For every set of invites, auth ids and requests, and any number of      *)
(* faults: the types of Invites, one pending invite of a kind, no account  *)
(* without its auth user, each invite used at most once until the member   *)
(* it made is removed, and the ledger of the outbox kept.                  *)
(***************************************************************************)
EXTENDS Invites, TLAPS

(* What the types need: a request knows its invite, an invite call that    *)
(* was answered its user, and the ids in use are remembered.               *)
KnownIds ==
  /\ \A s \in Sessions : pc[s] # "idle" => inv[s] \in Invites
  /\ \A s \in Sessions : pc[s] = "provision" => uid[s] \in used
  /\ \A i \in Invites : mail[i] = "asked" => asked[i] \in AuthIds
  /\ user \in used \cup {NoUser}

(* An invite that was used stays accepted, so no request checks it anew;   *)
(* a request that checked it before is rejected by the flush: its auth     *)
(* user is gone, or provisioned.  A removal ends a use.                    *)
Spent(i, u) == u # user \/ Provisioned(i, u)
UsedInv ==
  /\ \A i \in Invites : uses[i] = 1 => i \in accepted
  /\ \A s \in Sessions : pc[s] = "provision" /\ uses[inv[s]] = 1 => Spent(inv[s], uid[s])

IInv == TypeOK /\ KnownIds /\ ProvisionedAreAlive /\ OnePending /\ UsedOnce /\ UsedInv

----------------------------------------------------------------------------
(* The actions by what they touch. *)
WorkerStep == \E i \in Invites : Tag(i) \/ MarkSuccess(i) \/ Retry(i) \/ GiveUp(i) \/ Expire(i)
Elsewhere == NewToken \/ \E c \in Invites \X AuthIds : LandLate(c)

LEMMA NextSteps ==
  ASSUME Next
  PROVE  \/ \E s \in Sessions : \/ CutShort(s) \/ Insert(s) \/ Provision(s)
                                \/ BeginAccept(s) \/ DeleteAuthUser(s)
                                \/ \E i \in Invites : BeginCreate(s, i) \/ RevokeRequest(s, i)
         \/ \E i \in Invites : Ask(i)
         \/ \E u \in AuthIds : RemoveMember(u)
         \/ WorkerStep \/ Elsewhere
  BY DEF Next, Request, Deliver, WorkerStep, Elsewhere

LEMMA MergeType ==
  ASSUME TypeOK, NEW i \in Invites, Merge(i)
  PROVE  meta' \in Claims
  BY DEF TypeOK, Merge, Claims, MaybeInvite

LEMMA AbortKeeps ==
  ASSUME IInv, NEW s \in Sessions, Abort(s), faults' \in 0 .. Faults
  PROVE  IInv'
  <1> USE DEF Abort, End, Begin, tables, outbox, auth, people
  <1>1. TypeOK'
    BY InvitesAssumption DEF IInv, TypeOK, MaybeUser, MaybeInvite
  <1>2. KnownIds'
    BY DEF IInv, TypeOK, KnownIds
  <1>3. OnePending' /\ ProvisionedAreAlive' /\ UsedOnce'
    BY DEF IInv, OnePending, Pending, SameKind, ProvisionedAreAlive, UsedOnce
  <1>4. UsedInv'
    BY DEF IInv, TypeOK, UsedInv, Spent, Provisioned
  <1> QED BY <1>1, <1>2, <1>3, <1>4 DEF IInv

LEMMA InitInv == Init => IInv
  <1> SUFFICES ASSUME Init PROVE IInv
    OBVIOUS
  <1> USE InvitesAssumption DEF Init
  <1>1. TypeOK
    <2>1. faults \in 0 .. Faults /\ uses \in [Invites -> Nat]
      OBVIOUS
    <2>2. meta \in Claims
      BY DEF Claims, NoClaims, MaybeInvite
    <2>3. inv \in [Sessions -> MaybeInvite] /\ uid \in [Sessions -> MaybeUser] /\ user \in MaybeUser
      BY DEF MaybeUser, MaybeInvite
    <2>4. pc \in [Sessions -> {"idle", "insert", "provision", "delete"}]
      OBVIOUS
    <2>5. /\ sbUser \in [Invites -> MaybeUser] /\ \A i \in Tenant : sbUser[i] = NoUser
          /\ asked \in [Invites -> MaybeUser]
      BY DEF MaybeUser, Tenant
    <2> QED BY <2>1, <2>2, <2>3, <2>4, <2>5 DEF TypeOK, MaybeUser
  <1>2. KnownIds /\ ProvisionedAreAlive /\ OnePending /\ UsedOnce /\ UsedInv
    BY DEF KnownIds, ProvisionedAreAlive, OnePending, Pending, UsedOnce, UsedInv
  <1> QED BY <1>1, <1>2 DEF IInv

----------------------------------------------------------------------------
(* Every step keeps the types and the known ids. *)
LEMMA RequestTypes ==
  ASSUME TypeOK, KnownIds, NEW s \in Sessions,
         \/ Insert(s) \/ Provision(s) \/ BeginAccept(s) \/ DeleteAuthUser(s)
         \/ \E i \in Invites : BeginCreate(s, i) \/ RevokeRequest(s, i)
  PROVE  TypeOK' /\ KnownIds'
  <1> USE InvitesAssumption DEF Begin, End, Abort, tables, outbox, auth, people, requests
  <1>1. CASE Insert(s)
    BY <1>1 DEF Insert, Enqueue, TypeOK, KnownIds, MaybeUser, MaybeInvite
  <1>2. CASE Provision(s)
    <2>1. inv[s] \in Invites /\ uid[s] \in AuthIds
      BY <1>2 DEF Provision, TypeOK, KnownIds
    <2> QED BY <1>2, <2>1 DEF Provision, TypeOK, KnownIds, MaybeUser, MaybeInvite
  <1>3. CASE BeginAccept(s)
    <2>1. ClaimedInvite(token.claims) \in Invites
      BY <1>3 DEF BeginAccept, Acceptable, Pending, TypeOK
    <2>2. user \in used
      BY <1>3 DEF BeginAccept, TypeOK, KnownIds
    <2> QED BY <1>3, <2>1, <2>2 DEF BeginAccept, TypeOK, KnownIds, MaybeUser, MaybeInvite
  <1>4. CASE DeleteAuthUser(s)
    <2>1. NoClaims \in Claims
      BY DEF NoClaims, Claims, MaybeInvite
    <2> QED BY <1>4, <2>1 DEF DeleteAuthUser, TypeOK, KnownIds, MaybeUser, MaybeInvite
  <1>5. ASSUME NEW i \in Invites, BeginCreate(s, i)
        PROVE  TypeOK' /\ KnownIds'
    BY <1>5 DEF BeginCreate, TypeOK, KnownIds, MaybeUser, MaybeInvite
  <1>6. ASSUME NEW i \in Invites, RevokeRequest(s, i)
        PROVE  TypeOK' /\ KnownIds'
    BY <1>6 DEF RevokeRequest, Clear, Revoke, TypeOK, KnownIds, MaybeUser, MaybeInvite
  <1> QED BY <1>1, <1>2, <1>3, <1>4, <1>5, <1>6

LEMMA OutsideTypes ==
  ASSUME TypeOK, KnownIds,
         \/ WorkerStep \/ Elsewhere
         \/ \E i \in Invites : Ask(i)
         \/ \E u \in AuthIds : RemoveMember(u)
  PROVE  TypeOK' /\ KnownIds'
  <1> USE InvitesAssumption DEF Sent, Fault, tables, outbox, auth, people, requests
  <1>1. ASSUME NEW i \in Invites, Ask(i)
        PROVE  TypeOK' /\ KnownIds'
    BY <1>1 DEF Ask, TypeOK, KnownIds, MaybeUser
  <1>2. ASSUME NEW i \in Invites, Tag(i)
        PROVE  TypeOK' /\ KnownIds'
    BY <1>2, MergeType DEF Tag, TypeOK, KnownIds
  <1>3. ASSUME NEW i \in Invites, MarkSuccess(i)
        PROVE  TypeOK' /\ KnownIds'
    <2>1. sbUser' \in [Invites -> MaybeUser] /\ \A j \in Tenant : sbUser'[j] = NoUser
      BY <1>3 DEF MarkSuccess, WritesBack, TypeOK, Tenant
    <2> QED BY <1>3, <2>1 DEF MarkSuccess, TypeOK, KnownIds
  <1>4. ASSUME NEW i \in Invites, Retry(i)
        PROVE  TypeOK' /\ KnownIds'
    <2>1. late' \subseteq Invites \X AuthIds
      BY <1>4 DEF Retry, TypeOK, KnownIds
    <2>2. faults' \in 0 .. Faults
      BY <1>4 DEF Retry, TypeOK
    <2> QED BY <1>4, <2>1, <2>2 DEF Retry, TypeOK, KnownIds
  <1>5. ASSUME NEW i \in Invites, GiveUp(i)
        PROVE  TypeOK' /\ KnownIds'
    BY <1>5 DEF GiveUp, TypeOK, KnownIds
  <1>6. ASSUME NEW i \in Invites, Expire(i)
        PROVE  TypeOK' /\ KnownIds'
    BY <1>6 DEF Expire, TypeOK, KnownIds
  <1>7. ASSUME NEW c \in Invites \X AuthIds, LandLate(c)
        PROVE  TypeOK' /\ KnownIds'
    <2>1. meta' \in Claims
      <3>1. CASE c[2] = user
        BY <1>7, <3>1, MergeType DEF LandLate
      <3>2. CASE c[2] # user
        BY <1>7, <3>2 DEF LandLate, TypeOK
      <3> QED BY <3>1, <3>2
    <2> QED BY <1>7, <2>1 DEF LandLate, TypeOK, KnownIds
  <1>8. CASE NewToken
    <2>1. token' \in [id : AuthIds, claims : Claims]
      BY <1>8 DEF NewToken, TypeOK, MaybeUser
    <2> QED BY <1>8, <2>1 DEF NewToken, TypeOK, KnownIds
  <1>9. ASSUME NEW u \in AuthIds, RemoveMember(u)
        PROVE  TypeOK' /\ KnownIds'
    BY <1>9 DEF RemoveMember, TypeOK, KnownIds
  <1> QED BY <1>1, <1>2, <1>3, <1>4, <1>5, <1>6, <1>7, <1>8, <1>9 DEF WorkerStep, Elsewhere

----------------------------------------------------------------------------
(* What a step may do to the pending invites, to the people and to the     *)
(* requests. *)
LEMMA PendingStep ==
  ASSUME TypeOK, KnownIds, OnePending, Next
  PROVE  OnePending'
  <1> USE DEF Begin, End, Abort, tables, outbox, auth, people, requests
  <1>1. ASSUME NEW s \in Sessions, Insert(s)
        PROVE  OnePending'
    <2>1. CASE ~IndexAdmits(inv[s])
      BY <1>1, <2>1 DEF Insert, Enqueue, OnePending, Pending, SameKind
    <2>2. CASE IndexAdmits(inv[s])
      <3>1. \A j \in Invites : ~(Pending(j) /\ SameKind(inv[s], j))
        BY <2>2 DEF IndexAdmits, PendingLike
      <3>2. \A j \in Invites : Pending(j)' => Pending(j) \/ j = inv[s]
        BY <1>1, <2>2 DEF Insert, Enqueue, Pending
      <3> QED BY <3>1, <3>2 DEF OnePending, SameKind
    <2> QED BY <2>1, <2>2
  <1>2. CASE ~\E s \in Sessions : Insert(s)
    <2>1. rows' \subseteq rows /\ accepted \subseteq accepted' /\ revoked \subseteq revoked'
      BY ZenonT(30), <1>2, NextSteps DEF CutShort, Provision, BeginAccept, DeleteAuthUser, BeginCreate,
         RevokeRequest, Clear, Revoke, Ask, WorkerStep, Tag, MarkSuccess, Retry, GiveUp, Expire,
         RemoveMember, Elsewhere, NewToken, LandLate
    <2> QED BY <2>1 DEF OnePending, Pending, SameKind
  <1> QED BY <1>1, <1>2

(* Accounts: an auth user is deleted with its rows, and the flush provides *)
(* for the one there is. *)
LEMMA AliveStep ==
  ASSUME TypeOK, KnownIds, ProvisionedAreAlive, Next
  PROVE  ProvisionedAreAlive'
  <1> USE DEF ProvisionedAreAlive, Begin, End, Abort, tables, outbox, auth, people, requests
  <1>1. ASSUME NEW s \in Sessions, Provision(s)
        PROVE  ProvisionedAreAlive'
    BY <1>1 DEF Provision, Rejected, AccountGone
  <1>2. ASSUME NEW s \in Sessions, DeleteAuthUser(s)
        PROVE  ProvisionedAreAlive'
    BY <1>2 DEF DeleteAuthUser
  <1>3. ASSUME NEW i \in Invites, Ask(i)
        PROVE  ProvisionedAreAlive'
    BY <1>3, InvitesAssumption DEF Ask, TypeOK
  <1>4. CASE ~\E s \in Sessions : Provision(s) \/ DeleteAuthUser(s)
    <2>1. \/ UNCHANGED <<people, user>>
          \/ \E i \in Invites : Ask(i)
          \/ \E u \in AuthIds : RemoveMember(u)
      BY ZenonT(30), <1>4, NextSteps DEF CutShort, Insert, Enqueue, BeginAccept, BeginCreate, RevokeRequest,
         WorkerStep, Tag, MarkSuccess, Retry, GiveUp, Expire, Elsewhere, NewToken, LandLate
    <2>2. ASSUME NEW u \in AuthIds, RemoveMember(u)
          PROVE  ProvisionedAreAlive'
      BY <2>2 DEF RemoveMember
    <2> QED BY <2>1, <2>2, <1>3
  <1> QED BY <1>1, <1>2, <1>4

(* An invite that was used is not used again before a removal. *)
LEMMA UsedStep ==
  ASSUME TypeOK, KnownIds, UsedOnce, UsedInv, Next
  PROVE  UsedOnce' /\ UsedInv'
  <1> USE InvitesAssumption
      DEF Begin, End, Abort, tables, outbox, auth, people, requests
  <1>1. ASSUME NEW s \in Sessions, Provision(s)
        PROVE  UsedOnce' /\ UsedInv'
    <2> DEFINE i == inv[s]
    <2>1. CASE Rejected(i, uid[s])
      BY <1>1, <2>1 DEF Provision, UsedOnce, UsedInv, Spent, Provisioned, TypeOK
    <2>2. CASE ~Rejected(i, uid[s])
      <3>1. i \in Invites /\ uid[s] \in AuthIds /\ uid[s] = user
        BY <1>1, <2>2 DEF Provision, Rejected, AccountGone, TypeOK, KnownIds
      <3>2. uses[i] = 0
        <4>1. uses[i] # 1
          BY <1>1, <2>2, <3>1 DEF Provision, Rejected, AccountGone, UsedInv, Spent
        <4> QED BY <4>1, <3>1 DEF UsedOnce, TypeOK
      <3>3. uses' = [uses EXCEPT ![i] = 1] /\ accepted' = accepted \cup {i}
        BY <1>1, <2>2, <3>2 DEF Provision, TypeOK
      <3>4. UsedOnce' /\ \A j \in Invites : uses'[j] = 1 => j \in accepted'
        BY <3>1, <3>3 DEF UsedOnce, UsedInv, TypeOK
      <3>5. ASSUME NEW t \in Sessions, pc'[t] = "provision", uses'[inv'[t]] = 1
            PROVE  Spent(inv[t], uid[t])'
        <4>1. t # s /\ pc[t] = "provision" /\ inv'[t] = inv[t] /\ uid'[t] = uid[t] /\ user' = user
          BY <1>1, <2>2, <3>5 DEF Provision, TypeOK
        <4>2. inv[t] \in Invites
          BY <4>1 DEF KnownIds
        <4>3. CASE inv[t] # i
          <5>1. Spent(inv[t], uid[t])
            BY <4>1, <4>2, <4>3, <3>5, <3>3 DEF UsedInv, TypeOK
          <5> QED BY <1>1, <2>2, <3>1, <4>1, <5>1 DEF Provision, Spent, Provisioned
        <4>4. CASE inv[t] = i
          <5>1. IF i \in Platform THEN platformUser' = uid[s] ELSE uid[s] \in member'
            BY <1>1, <2>2 DEF Provision
          <5> QED BY <3>1, <4>1, <4>4, <5>1 DEF Spent, Provisioned
        <4> QED BY <4>3, <4>4
      <3> QED BY <3>4, <3>5 DEF UsedInv
    <2> QED BY <2>1, <2>2
  <1>2. ASSUME NEW s \in Sessions, BeginAccept(s)
        PROVE  UsedOnce' /\ UsedInv'
    <2>1. ClaimedInvite(token.claims) \notin accepted /\ ClaimedInvite(token.claims) \in Invites
      BY <1>2 DEF BeginAccept, Acceptable, Pending, TypeOK
    <2> QED BY <1>2, <2>1 DEF BeginAccept, UsedOnce, UsedInv, Spent, Provisioned, TypeOK
  <1>3. ASSUME NEW s \in Sessions, DeleteAuthUser(s)
        PROVE  UsedOnce' /\ UsedInv'
    <2>1. \A t \in Sessions : pc[t] = "provision" => uid[t] # NoUser
      BY DEF KnownIds, TypeOK
    <2>2. UNCHANGED <<uses, accepted>>
      BY <1>3 DEF DeleteAuthUser
    <2>3. \A t \in Sessions : pc'[t] = "provision"
             => pc[t] = "provision" /\ inv'[t] = inv[t] /\ uid'[t] = uid[t]
      BY <1>3 DEF DeleteAuthUser, TypeOK
    <2>4. user' = NoUser \/ UNCHANGED <<user, platformUser, member>>
      BY <1>3 DEF DeleteAuthUser
    <2> QED BY <2>1, <2>2, <2>3, <2>4 DEF UsedOnce, UsedInv, Spent, Provisioned
  <1>4. ASSUME NEW i \in Invites, Ask(i)
        PROVE  UsedOnce' /\ UsedInv'
    <2>1. \A t \in Sessions : pc[t] = "provision" => uid[t] # user' \/ user' = user
      BY <1>4 DEF Ask, KnownIds
    <2> QED BY <1>4, <2>1 DEF Ask, UsedOnce, UsedInv, Spent, Provisioned
  <1>5. ASSUME NEW u \in AuthIds, RemoveMember(u)
        PROVE  UsedOnce' /\ UsedInv'
    <2>1. /\ UNCHANGED <<platformUser, user, accepted, pc, inv, uid>>
          /\ \A i \in Invites : uses'[i] = IF i \in Tenant THEN 0 ELSE uses[i]
      BY <1>5 DEF RemoveMember
    <2>2. \A t \in Sessions : pc[t] = "provision" => inv[t] \in Invites
      BY DEF KnownIds
    <2> QED BY <2>1, <2>2 DEF UsedOnce, UsedInv, Spent, Provisioned, Tenant, TypeOK
  <1>6. CASE ~\E s \in Sessions : Provision(s) \/ BeginAccept(s) \/ DeleteAuthUser(s)
    <2> DEFINE Same == UNCHANGED <<people, user, accepted>>
               Kept == \A t \in Sessions : pc'[t] = "provision"
                         => pc[t] = "provision" /\ inv'[t] = inv[t] /\ uid'[t] = uid[t]
    <2>1. ASSUME NEW s \in Sessions, CutShort(s) \/ Insert(s)
          PROVE  Same /\ Kept
      BY <2>1 DEF CutShort, Insert, TypeOK
    <2>2. ASSUME NEW s \in Sessions, NEW i \in Invites, BeginCreate(s, i)
          PROVE  Same /\ Kept
      BY <2>2 DEF BeginCreate, TypeOK
    <2>3. ASSUME NEW s \in Sessions, NEW i \in Invites, RevokeRequest(s, i)
          PROVE  Same /\ Kept
      BY <2>3 DEF RevokeRequest, Clear, Revoke, TypeOK
    <2>4. ASSUME WorkerStep \/ Elsewhere
          PROVE  Same /\ Kept
      BY <2>4 DEF WorkerStep, Tag, MarkSuccess, Retry, GiveUp, Expire, Elsewhere, NewToken, LandLate
    <2>5. ASSUME Same, Kept
          PROVE  UsedOnce' /\ UsedInv'
      BY <2>5 DEF UsedOnce, UsedInv, Spent, Provisioned
    <2> QED BY <1>6, NextSteps, <2>1, <2>2, <2>3, <2>4, <2>5, <1>4, <1>5
  <1> QED BY <1>1, <1>2, <1>3, <1>6

----------------------------------------------------------------------------
LEMMA NextInv == IInv /\ [Next]_vars => IInv'
  <1> SUFFICES ASSUME IInv, [Next]_vars PROVE IInv'
    OBVIOUS
  <1>1. CASE Next
    <2>1. TypeOK' /\ KnownIds'
      <3>1. ASSUME NEW s \in Sessions, CutShort(s)
            PROVE  TypeOK' /\ KnownIds'
        <4>1. faults' \in 0 .. Faults
          BY <3>1, InvitesAssumption DEF CutShort, Fault, IInv, TypeOK
        <4> QED BY <3>1, <4>1, AbortKeeps DEF CutShort, IInv
      <3> QED BY <1>1, <3>1, NextSteps, RequestTypes, OutsideTypes DEF IInv
    <2> QED BY <1>1, <2>1, PendingStep, AliveStep, UsedStep DEF IInv
  <1>2. CASE UNCHANGED vars
    BY <1>2 DEF vars, tables, outbox, auth, people, requests, IInv, TypeOK, KnownIds,
       ProvisionedAreAlive, OnePending, Pending, UsedOnce, UsedInv, Spent, Provisioned
  <1> QED BY <1>1, <1>2

LEMMA Inductive == Spec => []IInv
  BY InitInv, NextInv, PTL DEF Spec

(* The types of the state, for every set of invites, users and requests. *)
THEOREM TypeCorrect == Spec => []TypeOK
  BY Inductive, PTL DEF IInv

(* The partial unique indexes alone keep one pending invite of a kind,     *)
(* whatever creates, accepts and revokes run at once (migration 0004).     *)
THEOREM PendingIsUnique == Spec => []OnePending
  BY Inductive, PTL DEF IInv

(* The foreign keys alone keep every account with its auth user, however   *)
(* deletions at Supabase fall between an accept's checks and its flush.    *)
THEOREM AccountsAreAlive == Spec => []ProvisionedAreAlive
  BY Inductive, PTL DEF IInv

(* No invite is used twice, although no accept locks it: whoever used it   *)
(* is provisioned, or gone with its auth user, or was removed from the     *)
(* workspace, which ends the use of a tenant's invite.                     *)
THEOREM UsedAtMostOnce == Spec => []UsedOnce
  BY Inductive, PTL DEF IInv

----------------------------------------------------------------------------
(* The mail of an invite, and the ledger of the outbox *)

(* A create stages the email of an invite nobody else knows yet.           *)
MailInv ==
  /\ \A i \in Invites : mail[i] = "none" => i \notin rows
  /\ \A s \in Sessions : pc[s] = "insert" => mail[inv[s]] = "none"
  /\ \A s, t \in Sessions : pc[s] = "insert" /\ inv[t] = inv[s] => s = t

LEMMA InitMail == Init => MailInv
  BY DEF Init, MailInv

LEMMA NextMail == IInv /\ MailInv /\ [Next]_vars => MailInv'
  <1> SUFFICES ASSUME IInv, MailInv, [Next]_vars PROVE MailInv'
    OBVIOUS
  <1>1. TypeOK /\ KnownIds
    BY DEF IInv
  <1>2. ASSUME NEW s \in Sessions, NEW step, NEW i, NEW u, Begin(s, step, i, u),
               mail' = mail, rows' \subseteq rows,
               step = "insert" => i \in Invites /\ mail[i] = "none" /\ \A t \in Sessions : inv[t] # i,
               i = NoInvite \/ i \in rows \/ step = "insert"
        PROVE  MailInv'
    <2>1. \A t \in Sessions : IF t = s THEN pc'[t] = step /\ inv'[t] = i
                                       ELSE pc'[t] = pc[t] /\ inv'[t] = inv[t]
      BY <1>1, <1>2 DEF Begin, TypeOK
    <2>2. \A t \in Sessions : pc[t] = "insert" => inv[t] \in Invites /\ inv[t] # NoInvite /\ inv[t] \notin rows
      BY <1>1, InvitesAssumption DEF KnownIds, MailInv
    <2> QED BY <1>2, <2>1, <2>2 DEF MailInv
  <1>3. ASSUME NEW i \in Invites, NEW step, mail[i] # "none", step # "none",
               mail' = [mail EXCEPT ![i] = step], UNCHANGED <<rows, pc, inv>>
        PROVE  MailInv'
    <2>1. \A j \in Invites : mail'[j] = "none" <=> mail[j] = "none"
      BY <1>1, <1>3 DEF TypeOK
    <2>2. \A t \in Sessions : pc[t] = "insert" => inv[t] \in Invites
      BY <1>1 DEF KnownIds
    <2> QED BY <1>3, <2>1, <2>2 DEF MailInv
  <1>4. ASSUME UNCHANGED <<mail, rows, pc, inv>> PROVE MailInv'
    BY <1>4 DEF MailInv
  <1>5. ASSUME NEW s \in Sessions, Abort(s) PROVE MailInv'
    BY <1>2, <1>5 DEF Abort, End, tables, outbox
  <1>6. ASSUME NEW s \in Sessions, Insert(s) PROVE MailInv'
    <2>1. CASE IndexAdmits(inv[s])
      <3> DEFINE i == inv[s]
      <3>1. i \in Invites /\ mail[i] = "none" /\ rows' = rows \cup {i}
            /\ \A j \in Invites : mail'[j] = IF j = i THEN "due" ELSE mail[j]
        BY <1>1, <1>6, <2>1 DEF Insert, Enqueue, KnownIds, MailInv, TypeOK
      <3>2. \A t \in Sessions : IF t = s THEN pc'[t] = "idle" /\ inv'[t] = NoInvite
                                         ELSE pc'[t] = pc[t] /\ inv'[t] = inv[t]
        BY <1>1, <1>6, <2>1 DEF Insert, End, Begin, TypeOK
      <3>3. \A t \in Sessions : pc[t] = "insert" =>
              inv[t] \in Invites /\ inv[t] # NoInvite /\ (t # s => inv[t] # i)
        BY <1>1, <1>6, InvitesAssumption DEF KnownIds, MailInv, Insert
      <3> HIDE DEF i
      <3> QED BY <3>1, <3>2, <3>3 DEF MailInv
    <2>2. CASE ~IndexAdmits(inv[s])
      BY <1>5, <1>6, <2>2 DEF Insert
    <2> QED BY <2>1, <2>2
  <1>7. ASSUME NEW s \in Sessions, CutShort(s) \/ Provision(s) \/ DeleteAuthUser(s)
        PROVE  MailInv'
    <2>1. Abort(s) \/ (End(s) /\ mail' = mail /\ rows' = rows)
      BY <1>7 DEF CutShort, Provision, DeleteAuthUser, tables, outbox
    <2> QED BY <1>2, <1>5, <2>1 DEF End
  <1>8. ASSUME NEW s \in Sessions, BeginAccept(s) PROVE MailInv'
    BY <1>2, <1>8 DEF BeginAccept, Acceptable, Pending, tables, outbox
  <1>9. ASSUME NEW s \in Sessions, NEW i \in Invites, BeginCreate(s, i) PROVE MailInv'
    BY <1>2, <1>9 DEF BeginCreate, tables, outbox
  <1>10. ASSUME NEW s \in Sessions, NEW i \in Invites, RevokeRequest(s, i) PROVE MailInv'
    <2>1. mail' = mail /\ rows' \subseteq rows
      BY <1>10 DEF RevokeRequest, Clear, Revoke, outbox
    <2>2. CASE UNCHANGED <<pc, inv>>
      BY <2>1, <2>2 DEF MailInv
    <2>3. CASE ~UNCHANGED <<pc, inv>>
      <3>1. Revoke(s, i) /\ Begin(s, "delete", i, sbUser[i])
        BY <1>10, <2>3 DEF RevokeRequest, Clear, Revoke, requests
      <3> QED BY <1>2, <1>10, <2>1, <3>1 DEF RevokeRequest
    <2> QED BY <2>2, <2>3
  <1>11. ASSUME NEW i \in Invites, Ask(i) \/ Tag(i) \/ MarkSuccess(i) \/ Retry(i) \/ GiveUp(i)
         PROVE  MailInv'
    <2>1. mail[i] # "none" /\ UNCHANGED <<rows, pc, inv>>
          /\ \E step : step # "none" /\ mail' = [mail EXCEPT ![i] = step]
      BY <1>11 DEF Ask, Due, Tag, MarkSuccess, Retry, GiveUp, Sent, tables, requests
    <2> QED BY <1>3, <2>1
  <1>12. ASSUME NEW i \in Invites, Expire(i) PROVE MailInv'
    BY <1>4, <1>12 DEF Expire, outbox, requests
  <1>13. CASE Elsewhere
    <2>1. UNCHANGED <<mail, rows, pc, inv>>
      BY <1>13 DEF Elsewhere, NewToken, LandLate, tables, outbox, requests
    <2> QED BY <1>4, <2>1
  <1>14. ASSUME NEW u \in AuthIds, RemoveMember(u) PROVE MailInv'
    BY <1>4, <1>14 DEF RemoveMember, tables, outbox, requests
  <1>15. CASE UNCHANGED vars
    BY <1>4, <1>15 DEF vars, tables, outbox, requests
  <1> QED BY <1>6, <1>7, <1>8, <1>9, <1>10, <1>11, <1>12, <1>13, <1>14, <1>15, NextSteps DEF WorkerStep

LEMMA InitLedger == Init => Ledger!Init
  BY DEF Init, Ledger!Init, Staged, Mailed, GivenUp

LEMMA MovesLedger ==
  ASSUME TypeOK, NEW i \in Invites, NEW step, mail' = [mail EXCEPT ![i] = step],
         \/ mail[i] = "none" /\ step = "due"
         \/ mail[i] = "due" /\ step \in {"asked", "parked"}
         \/ mail[i] = "asked" /\ step \in {"tagged", "due"}
         \/ mail[i] = "tagged" /\ step \in {"sent", "due"}
  PROVE  [Ledger!Next]_<<Staged, Mailed, GivenUp>>
  <1>1. \A j \in Invites : mail'[j] = IF j = i THEN step ELSE mail[j]
    BY DEF TypeOK
  <1>2. CASE mail[i] = "none"
    <2>1. Staged' = Staged \cup {i} /\ Mailed' = Mailed /\ GivenUp' = GivenUp
      BY <1>1, <1>2 DEF Staged, Mailed, GivenUp
    <2> QED BY <2>1 DEF Ledger!Next, Ledger!Enqueue
  <1>3. CASE step \in {"sent", "parked"}
    <2>1. Ledger!Open(i)
      BY <1>3 DEF Ledger!Open, Staged, Mailed, GivenUp
    <2>2. CASE step = "sent"
      <3>1. Mailed' = Mailed \cup {i} /\ Staged' = Staged /\ GivenUp' = GivenUp
        BY <1>1, <2>2 DEF Staged, Mailed, GivenUp
      <3> QED BY <2>1, <3>1 DEF Ledger!Next, Ledger!Send
    <2>3. CASE step = "parked"
      <3>1. Mailed' = Mailed /\ Staged' = Staged
        BY <1>1, <2>3 DEF Staged, Mailed
      <3>2. GivenUp' = [GivenUp EXCEPT ![i] = @ + 1]
        <4>1. GivenUp[i] = 0 /\ GivenUp[i] + 1 = 1
          BY <2>3 DEF GivenUp
        <4>2. GivenUp' = [GivenUp EXCEPT ![i] = 1]
          BY <1>1, <2>3 DEF GivenUp
        <4> QED BY <4>1, <4>2
      <3> QED BY <2>1, <3>1, <3>2 DEF Ledger!Next, Ledger!Fail
    <2> QED BY <1>3, <2>2, <2>3
  <1>4. CASE mail[i] # "none" /\ step \notin {"sent", "parked"}
    <2>1. Mailed' = Mailed /\ Staged' = Staged /\ GivenUp' = GivenUp
      BY <1>1, <1>4 DEF Staged, Mailed, GivenUp
    <2> QED BY <2>1
  <1> QED BY <1>2, <1>3, <1>4

LEMMA NextLedger ==
  ASSUME IInv, MailInv, [Next]_vars
  PROVE  [Ledger!Next]_<<Staged, Mailed, GivenUp>>
  <1> DEFINE Ok == [Ledger!Next]_<<Staged, Mailed, GivenUp>>
  <1>1. TypeOK /\ KnownIds
    BY DEF IInv
  <1>2. ASSUME mail' = mail PROVE Ok
    BY <1>2 DEF Staged, Mailed, GivenUp
  <1>3. ASSUME NEW s \in Sessions, Insert(s) PROVE Ok
    <2>1. CASE IndexAdmits(inv[s])
      <3>1. inv[s] \in Invites /\ mail[inv[s]] = "none" /\ mail' = [mail EXCEPT ![inv[s]] = "due"]
        BY <1>1, <1>3, <2>1 DEF Insert, Enqueue, KnownIds, MailInv
      <3> QED BY <1>1, <3>1, MovesLedger
    <2>2. CASE ~IndexAdmits(inv[s])
      BY <1>2, <1>3, <2>2 DEF Insert, Abort, outbox
    <2> QED BY <2>1, <2>2
  <1>4. ASSUME NEW s \in Sessions, \/ CutShort(s) \/ Provision(s) \/ BeginAccept(s)
                                   \/ DeleteAuthUser(s)
                                   \/ \E i \in Invites : BeginCreate(s, i) \/ RevokeRequest(s, i)
        PROVE  Ok
    <2>1. mail' = mail
      BY <1>4 DEF CutShort, Abort, Provision, BeginAccept, DeleteAuthUser, BeginCreate,
         RevokeRequest, outbox
    <2> QED BY <1>2, <2>1
  <1>5. ASSUME NEW i \in Invites, Ask(i) \/ Tag(i) \/ MarkSuccess(i) \/ Retry(i) \/ GiveUp(i)
        PROVE  Ok
    <2>1. PICK step : /\ mail' = [mail EXCEPT ![i] = step]
                      /\ \/ mail[i] = "due" /\ step \in {"asked", "parked"}
                         \/ mail[i] = "asked" /\ step \in {"tagged", "due"}
                         \/ mail[i] = "tagged" /\ step \in {"sent", "due"}
      BY <1>5 DEF Ask, Due, Tag, MarkSuccess, Retry, GiveUp, Sent
    <2> QED BY <1>1, <2>1, MovesLedger
  <1>6. ASSUME NEW i \in Invites, Expire(i) PROVE Ok
    BY <1>2, <1>6 DEF Expire, outbox
  <1>7. CASE Elsewhere
    BY <1>2, <1>7 DEF Elsewhere, NewToken, LandLate, outbox
  <1>8. ASSUME NEW u \in AuthIds, RemoveMember(u) PROVE Ok
    BY <1>2, <1>8 DEF RemoveMember, outbox
  <1>9. CASE UNCHANGED vars
    BY <1>2, <1>9 DEF vars, outbox
  <1> QED BY <1>3, <1>4, <1>5, <1>6, <1>7, <1>8, <1>9, NextSteps DEF WorkerStep

(* Requests and the worker's steps, interleaved in any way, keep what the  *)
(* outbox promises: each staged email is sent or parked at most once, and  *)
(* no revoke, accept or late answer of services/ takes that back.      *)
THEOREM WorkerKeepsLedger == Spec => ImplementsLedger
  BY InitLedger, NextLedger, InitInv, NextInv, InitMail, NextMail, PTL
  DEF Spec, ImplementsLedger, Ledger!Spec
=============================================================================
