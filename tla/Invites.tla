------------------------------ MODULE Invites ------------------------------
(***************************************************************************)
(* The platform and tenant invites sent to one person: created, mailed by  *)
(* the outbox worker, accepted from the claims of the person's token,      *)
(* revoked or cleared (services/platform_invites.py, tenant_invites.py,    *)
(* invite_acceptance.py, and routes/me.py); and the removal of a member    *)
(* who came by one (services/workspace_members.py).  One email and one     *)
(* tenant are enough: no service reads the invites of two emails or two    *)
(* tenants.                                                                *)
(*                                                                         *)
(* Requests are READ COMMITTED transactions: what a request checked may    *)
(* have changed when it writes.  Supabase keeps the auth user and its      *)
(* app_metadata, outside every transaction.                                *)
(***************************************************************************)
EXTENDS Naturals, FiniteSets

CONSTANTS
  Invites,    \* invite ids
  Platform,   \* those of platform_invites; the others are tenant_invites
  AuthIds,    \* ids for the auth user, who may be deleted and invited again
  Sessions,   \* concurrent requests
  NoInvite, NoUser, NoToken,
  Faults      \* bound: how many calls to Supabase fail and requests are cut short

ASSUME InvitesAssumption ==
  /\ Platform \subseteq Invites /\ Faults \in Nat
  /\ NoInvite \notin Invites /\ NoUser \notin AuthIds

VARIABLES
  rows,          \* committed invite rows
  accepted,      \* rows with accepted_at
  revoked,       \* rows with revoked_at
  expired,       \* invites whose expires_at is past
  sbUser,        \* platform_invites.supabase_user_id
  mail,          \* how far the outbox row of each invite has come
  asked,         \* the user id its invite call returned
  late,          \* abandoned app_metadata updates that may still land
  user,          \* the auth user with the email
  used,          \* ids auth users have had
  confirmed,     \* the user has followed a link
  meta,          \* the user's app_metadata
  token,         \* the claims of the user's session
  platformUser,  \* the platform_users row with the email
  member,        \* tenant_memberships of the tenant
  uses,          \* history: how often each was accepted (see RemoveMember)
  pc, inv, uid,  \* per request: next step, its invite, its user id
  faults         \* failed calls and cut requests so far

tables == <<rows, accepted, revoked, expired, sbUser>>
outbox == <<mail, asked, late>>
auth == <<user, used, confirmed, meta, token>>
people == <<platformUser, member, uses>>
requests == <<pc, inv, uid>>
vars == <<tables, outbox, auth, people, requests, faults>>

Tenant == Invites \ Platform
MaybeInvite == Invites \cup {NoInvite}
MaybeUser == AuthIds \cup {NoUser}
Claims == [platform: MaybeInvite, tenant: MaybeInvite]
NoClaims == [platform |-> NoInvite, tenant |-> NoInvite]

SameKind(i, j) == i \in Platform <=> j \in Platform
Pending(i) == i \in rows \ (accepted \cup revoked)
PendingLike(i) == {j \in Invites : Pending(j) /\ SameKind(i, j)}

----------------------------------------------------------------------------
(* Requests *)

Fault == faults < Faults /\ faults' = faults + 1

Begin(s, step, i, u) ==
  /\ pc' = [pc EXCEPT ![s] = step]
  /\ inv' = [inv EXCEPT ![s] = i]
  /\ uid' = [uid EXCEPT ![s] = u]
End(s) == Begin(s, "idle", NoInvite, NoUser)

(* An error, or the end of the process: the transaction rolls back. *)
Abort(s) == End(s) /\ UNCHANGED <<tables, outbox, auth, people>>
CutShort(s) == pc[s] # "idle" /\ Fault /\ Abort(s)

(* create_*_invite: the reads. *)
Known(i) == IF i \in Platform THEN platformUser # NoUser ELSE member # {}
BeginCreate(s, i) ==
  /\ pc[s] = "idle"
  /\ mail[i] = "none" /\ \A t \in Sessions : inv[t] # i
  /\ ~Known(i) /\ PendingLike(i) = {}
  /\ Begin(s, "insert", i, NoUser)
  /\ UNCHANGED <<tables, outbox, auth, people, faults>>

(* The invite and its outbox row, in one transaction; the partial unique   *)
(* index admits one pending invite per email.                              *)
Enqueue(i) == mail' = [mail EXCEPT ![i] = "due"]
IndexAdmits_Always(i) == TRUE
IndexAdmits(i) == PendingLike(i) = {}

Insert(s) ==
  /\ pc[s] = "insert"
  /\ \/ /\ IndexAdmits(inv[s])
        /\ rows' = rows \cup {inv[s]}
        /\ Enqueue(inv[s])
        /\ End(s)
        /\ UNCHANGED <<accepted, revoked, expired, sbUser, asked, late, auth, people>>
     \/ ~IndexAdmits(inv[s]) /\ Abort(s)
  /\ UNCHANGED faults

(* accept_invite: a platform claim hides a tenant claim. *)
ClaimedInvite(c) == IF c.platform # NoInvite THEN c.platform ELSE c.tenant
Acceptable(i) == Pending(i) /\ i \notin expired

BeginAccept(s) ==
  /\ pc[s] = "idle"
  /\ token # NoToken /\ token.id = user
  /\ Acceptable(ClaimedInvite(token.claims))
  /\ Begin(s, "provision", ClaimedInvite(token.claims), user)
  /\ UNCHANGED <<tables, outbox, auth, people, faults>>

(* The flush: the platform user or the membership, its grant, accepted_at. *)
(* It fails if the auth user or the invite is gone, or the person is       *)
(* provisioned already; it does not read revoked_at or accepted_at again.  *)
Provisioned_Unchecked(i, u) == FALSE
Provisioned(i, u) == IF i \in Platform THEN platformUser # NoUser ELSE u \in member
AccountGone_Unchecked(u) == FALSE
AccountGone(u) == u # user
Rejected(i, u) == AccountGone(u) \/ i \notin rows \/ Provisioned(i, u)

Provision(s) ==
  /\ pc[s] = "provision"
  /\ \/ Rejected(inv[s], uid[s]) /\ Abort(s)
     \/ /\ ~Rejected(inv[s], uid[s])
        /\ IF inv[s] \in Platform
           THEN platformUser' = uid[s] /\ UNCHANGED member
           ELSE member' = member \cup {uid[s]} /\ UNCHANGED platformUser
        /\ accepted' = accepted \cup {inv[s]}
        /\ uses' = [uses EXCEPT ![inv[s]] = @ + 1]
        /\ End(s)
        /\ UNCHANGED <<rows, revoked, expired, sbUser, outbox, auth>>
  /\ UNCHANGED faults

(* revoke_*_invite under FOR UPDATE: an accepted invite is cleared, a      *)
(* revoked one left alone, a pending one revoked.  Only a platform invite  *)
(* goes on to delete the auth user, by the id it read.                     *)
Clear(s, i) ==
  /\ i \in accepted
  /\ rows' = rows \ {i}
  /\ UNCHANGED <<accepted, revoked, requests>>

Revoke(s, i) ==
  /\ Pending(i)
  /\ revoked' = revoked \cup {i}
  /\ IF i \in Platform /\ sbUser[i] # NoUser
     THEN Begin(s, "delete", i, sbUser[i]) ELSE UNCHANGED requests
  /\ UNCHANGED <<rows, accepted>>

RevokeRequest(s, i) ==
  /\ pc[s] = "idle" /\ i \in rows
  /\ Clear(s, i) \/ Revoke(s, i)
  /\ UNCHANGED <<expired, sbUser, outbox, auth, people, faults>>

(* delete_user at Supabase, after the commit; the rows of the user cascade. *)
DeleteAuthUser(s) ==
  /\ pc[s] = "delete"
  /\ IF uid[s] = user
     THEN /\ user' = NoUser /\ confirmed' = FALSE /\ meta' = NoClaims
          /\ platformUser' = NoUser /\ member' = {}
          /\ UNCHANGED <<used, token, uses>>
     ELSE UNCHANGED <<auth, people>>
  /\ End(s)
  /\ UNCHANGED <<tables, outbox, faults>>

(* remove_workspace_member, which knows nothing of invites.  From here on   *)
(* the uses of the tenant's invites are counted anew.                      *)
RemoveMember(u) ==
  /\ u \in member
  /\ member' = member \ {u}
  /\ uses' = [i \in Invites |-> IF i \in Tenant THEN 0 ELSE uses[i]]
  /\ UNCHANGED <<platformUser, tables, outbox, auth, requests, faults>>

Expire(i) ==
  /\ i \in rows \ expired
  /\ expired' = expired \cup {i}
  /\ UNCHANGED <<rows, accepted, revoked, sbUser, outbox, auth, people, requests, faults>>

----------------------------------------------------------------------------
(* The outbox worker, and Supabase.  The worker never looks at the invite. *)

Sent(i, step) == mail' = [mail EXCEPT ![i] = step]

(* What _claim_due may take: rows not sent whose time has come. *)
Due_SentToo(i) == mail[i] \in {"due", "sent"}
Due(i) == mail[i] = "due"

(* invite_user_by_email: a new user, or the same one if not yet confirmed. *)
Ask(i) ==
  /\ Due(i) /\ Sent(i, "asked")
  /\ \/ /\ user = NoUser
        /\ \E u \in AuthIds \ used :
             /\ user' = u /\ used' = used \cup {u}
             /\ asked' = [asked EXCEPT ![i] = u]
     \/ /\ user # NoUser /\ ~confirmed
        /\ asked' = [asked EXCEPT ![i] = user]
        /\ UNCHANGED <<user, used>>
  /\ UNCHANGED <<late, confirmed, meta, token, tables, people, requests, faults>>

(* update_user_by_id: app_metadata keys are merged. *)
Merge(i) ==
  meta' = IF i \in Platform THEN [meta EXCEPT !.platform = i] ELSE [meta EXCEPT !.tenant = i]

Tag(i) ==
  /\ mail[i] = "asked" /\ asked[i] = user
  /\ Merge(i) /\ Sent(i, "tagged")
  /\ UNCHANGED <<asked, late, user, used, confirmed, token, tables, people, requests, faults>>

(* _mark_success; only platform_invites asked for the writeback. *)
WritesBack_AnyTable(i) == i \in rows
WritesBack(i) == i \in Platform \cap rows

MarkSuccess(i) ==
  /\ mail[i] = "tagged" /\ Sent(i, "sent")
  /\ sbUser' = IF WritesBack(i) THEN [sbUser EXCEPT ![i] = asked[i]] ELSE sbUser
  /\ UNCHANGED <<rows, accepted, revoked, expired, asked, late, auth, people, requests, faults>>

(* A failed attempt is tried again; the update it abandoned may still land. *)
Retry(i) ==
  /\ \/ mail[i] = "asked" /\ asked[i] # user /\ UNCHANGED <<late, faults>>
     \/ mail[i] = "asked" /\ Fault /\ late' = late \cup {<<i, asked[i]>>}
     \/ mail[i] = "tagged" /\ Fault /\ UNCHANGED late
  /\ Sent(i, "due")
  /\ UNCHANGED <<asked, tables, auth, people, requests>>

LandLate(c) ==
  /\ c \in late
  /\ late' = late \ {c}
  /\ IF c[2] = user THEN Merge(c[1]) ELSE UNCHANGED meta
  /\ UNCHANGED <<mail, asked, user, used, confirmed, token, tables, people, requests, faults>>

(* _MAX_ATTEMPTS refusals or failures: the row is parked. *)
GiveUp(i) ==
  /\ Due(i)
  /\ \/ confirmed /\ UNCHANGED faults
     \/ Fault
  /\ Sent(i, "parked")
  /\ UNCHANGED <<asked, late, tables, auth, people, requests>>

(* The invitee follows the link, or the session is refreshed: a new token  *)
(* with the claims of the moment.                                          *)
NewToken ==
  /\ user # NoUser
  /\ confirmed' = TRUE
  /\ token' = [id |-> user, claims |-> meta]
  /\ <<confirmed', token'>> # <<confirmed, token>>
  /\ UNCHANGED <<user, used, meta, tables, outbox, people, requests, faults>>

Init ==
  /\ rows = {} /\ accepted = {} /\ revoked = {} /\ expired = {}
  /\ sbUser = [i \in Invites |-> NoUser]
  /\ mail = [i \in Invites |-> "none"]
  /\ asked = [i \in Invites |-> NoUser]
  /\ late = {}
  /\ user = NoUser /\ used = {} /\ confirmed = FALSE /\ meta = NoClaims /\ token = NoToken
  /\ platformUser = NoUser /\ member = {} /\ uses = [i \in Invites |-> 0]
  /\ pc = [s \in Sessions |-> "idle"]
  /\ inv = [s \in Sessions |-> NoInvite]
  /\ uid = [s \in Sessions |-> NoUser] /\ faults = 0

Request(s) ==
  \/ \E i \in Invites : BeginCreate(s, i) \/ RevokeRequest(s, i)
  \/ BeginAccept(s) \/ Insert(s) \/ Provision(s) \/ DeleteAuthUser(s) \/ CutShort(s)
Deliver(i) == Ask(i) \/ Tag(i) \/ MarkSuccess(i) \/ Retry(i) \/ GiveUp(i)

Next ==
  \/ \E s \in Sessions : Request(s)
  \/ \E i \in Invites : Deliver(i) \/ Expire(i)
  \/ \E c \in Invites \X AuthIds : LandLate(c)
  \/ \E u \in AuthIds : RemoveMember(u)
  \/ NewToken

Spec == Init /\ [][Next]_vars

----------------------------------------------------------------------------
(* Properties *)

TypeOK ==
  /\ rows \cup accepted \cup revoked \cup expired \subseteq Invites
  /\ sbUser \in [Invites -> MaybeUser] /\ \A i \in Tenant : sbUser[i] = NoUser
  /\ asked \in [Invites -> MaybeUser]
  /\ mail \in [Invites -> {"none", "due", "asked", "tagged", "sent", "parked"}]
  /\ late \subseteq Invites \X AuthIds /\ used \subseteq AuthIds
  /\ user \in MaybeUser /\ confirmed \in BOOLEAN /\ meta \in Claims
  /\ token \in [id : AuthIds, claims : Claims] \cup {NoToken}
  /\ platformUser \in MaybeUser /\ member \subseteq AuthIds
  /\ uses \in [Invites -> Nat]
  /\ pc \in [Sessions -> {"idle", "insert", "provision", "delete"}]
  /\ faults \in 0 .. Faults
  /\ inv \in [Sessions -> MaybeInvite] /\ uid \in [Sessions -> MaybeUser]

(* Two admins who invite the same person at once, or a create that races   *)
(* an accept or a revoke, never leave two pending invites of a kind        *)
(* (the partial unique indexes of migration 0004).                         *)
OnePending == \A i, j \in Invites : Pending(i) /\ Pending(j) /\ SameKind(i, j) => i = j

(* Accepting is a check of the token and a later write: however deletions  *)
(* of the auth user fall between, no platform user or member is left whose *)
(* auth user is gone.                                                      *)
ProvisionedAreAlive == platformUser \in {NoUser, user} /\ member \subseteq {user}

(* Neither a double click nor a second account invited with the same email *)
(* uses an invite twice, although accept reads accepted_at without a lock: *)
(* a platform invite is used once, a tenant invite once until the member   *)
(* is removed.  (An accept that had checked the invite before the first    *)
(* use does use it again after a removal: accepted_at is not read anew.)   *)
UsedOnce == \A i \in Invites : uses[i] <= 1

(* The worker, mixed with the requests and what Supabase does late, keeps  *)
(* the promise that InviteOutbox keeps in time: a staged email is sent or  *)
(* parked, once, and a revoke or an accept of its invite takes nothing     *)
(* back.  All its attempts are one try of the ledger.                      *)
Staged == {i \in Invites : mail[i] # "none"}
Mailed == {i \in Invites : mail[i] = "sent"}
GivenUp == [i \in Invites |-> IF mail[i] = "parked" THEN 1 ELSE 0]
Ledger == INSTANCE OutboxLedger
  WITH Rows <- Invites, MaxAttempts <- 1, queued <- Staged, sent <- Mailed, tries <- GivenUp
ImplementsLedger == Ledger!Spec

(* revoke_platform_invite deletes "the unconfirmed Supabase auth user": it *)
(* never deletes the account of a platform user or of a tenant's member.   *)
Deletes(s) == pc[s] = "delete" /\ DeleteAuthUser(s)
RevokeSparesLiveAccounts ==
  [][(\E s \in Sessions : Deletes(s)) => platformUser' = platformUser /\ member' = member]_vars
=============================================================================
