# TLA+ models of Xtrusio

Xtrusio is a multi-tenant service: a FastAPI application (`src/apps/api`) over Postgres
and Supabase, with a web client, whose core is *who may do what in which workspace*. The
modules here model the parts of the API in which several requests, processes or outside
services meet: the role grants of a workspace and of the platform, the definitions of the
roles, the outbox that mails invites, the life of an invite up to the account it
provisions, the making of workspaces, the keys that tokens are verified with, and what is
kept in Valkey. TLC checks them on small instances; TLAPS proves the main safety
properties for every instance.

In what follows `services/`, `routes/`, `rbac/` and `core/` are directories of
`src/apps/api/src/xtrusio_api`, and a number such as 0010 is a migration in
`src/apps/api/migrations/versions`.

## 1. Inventory

| component | state | operations | meets | hard because | correct when |
|---|---|---|---|---|---|
| workspace role grants (`services/workspace_role_grants.py`) | `user_roles` | grant, revoke, list | triggers of 0010 and 0013; removals, accepts, boots | checks and writes are separate READ COMMITTED statements; the owner floor is a trigger that counts | an owner remains; no grant twice; grants belong to members |
| workspace members (`services/workspace_members.py`) | `tenant_memberships`, `user_roles` | remove, list | the same | deletes grants that others are inserting, and waits for what a boot holds | as above; no circular wait among requests |
| boot reconciler (`rbac/reconcile.py`, `main.py`) | `permissions`, `roles`, `role_permissions`, `user_roles` | sync the catalogue, rewire system roles, project memberships into grants | requests in other processes | runs at every boot beside traffic, past the triggers | system roles carry the catalogue's permissions; projection adds nothing twice |
| custom roles (`services/platform_roles.py`, `workspace_roles.py`) | `roles`, `role_permissions` | create, patch, delete, list | each other; the rewiring | DELETE then INSERT of a set; two patches may overlap | a role carries what one caller asked for |
| invite outbox (`services/invite_outbox.py`, `core/outbox_worker.py`) | `invite_email_outbox`; users at Supabase | enqueue, claim, send, mark, retry, park | Supabase admin API | calls outside transactions, leases, timeouts whose calls go on, crashes | one worker per row; every mail sent or given up; a mail marked sent can be accepted |
| invites (`services/platform_invites.py`, `tenant_invites.py`) | `platform_invites`, `tenant_invites` | create, revoke, clear, list | outbox, acceptance, Supabase | revoke deletes an account after its commit | one pending invite; a revoke spares accounts in use, and leaves none behind |
| invite acceptance (`services/invite_acceptance.py`, `routes/me.py`) | `platform_users`, `tenant_memberships`, `user_roles` | accept | invites, grants | decides from the claims of a token, which are old | an invite is used once while its member stays, for an account that exists |
| platform role grants (`services/platform_role_grants.py`, `rbac/grants.py`) | `user_roles` with a NULL workspace | grant, revoke | boot, provisioning, script | the unique key does not bind NULLs; an index on an expression binds one role | one super admin at most; nobody grants what he lacks |
| platform users (`services/platform_user_provision.py`, `scripts/bootstrap.py`) | Supabase user, `platform_users`, `user_roles` | provision, replace the super admin | Supabase, grants, boot | two systems, no common transaction; the script commits three times | an admin's row comes with the role; every row has its account |
| onboarding (`services/onboarding.py`, `slug.py`) | `tenants`, roles, membership | create a tenant | tenants added by hand, invites | slug and membership are read, then written | one workspace per user, one tenant per slug |
| tenant list (`routes/tenants.py`, `core/pagination.py`) | a cursor at the client | next page | onboarding | rows are inserted between pages, before the cursor too | nothing twice, nothing skipped |
| signup and throttle (`services/signup.py`, `core/email_throttle.py`) | Supabase user, counter and window per email in Valkey | sign up, resend | settings | INCR and EXPIRE are separate calls; Valkey fails | a refusal ends; bounded mails |
| permission cache (`core/perm_cache.py`, `core/permissions.py`) | permission lists per user and scope in Valkey | look up, store, invalidate | every change of grants | invalidated before the commit, or never | stale for a bounded time |
| token verification (`core/auth.py`) | key document with an age | verify, refetch | Supabase | expiry, unknown keys, a failing endpoint, one lock | a withdrawn key dies, a new one works, an outage is bridged |
| settings (`services/platform_settings.py`) | one row | read, update | signup | read, then written if different | |
| audit log, job runs, lists, statistics, rate limit, webhook, shell, web client | rows added, or reads | | | no coordination | |

Components talk through the database: a request is one transaction at READ COMMITTED,
checks with plain SELECTs, and relies on unique keys, foreign keys, row locks and triggers
for what must hold under concurrency. The outbox worker and the requests share the
invite rows; Supabase keeps the auth users outside every transaction, and tells the API
about them only through the claims of a token, as they were when it was issued.

`PROJECT.json` lists each component with its sources and its hazards, each at its line.

## 2. Plan

| order | module | what | state |
|---|---|---|---|
| 1 | `WorkspaceGrants` (abstract: `OwnerRegistry`) | grants, revokes, removals, accepts, boots, deletions of accounts in one workspace | modelled, checked, proved |
| 2 | `InviteOutbox` (abstract: `OutboxLedger`) | the outbox worker and the record of its batches | modelled, checked, proved |
| 3 | `Invites` | invites of one person, with the outbox and Supabase | modelled, checked, proved |
| 4 | `RoleDefinitions` | custom roles and the rewiring of system roles | modelled, checked, proved |
| 5 | `PlatformGrants` | platform grants (NULL workspace), one super admin, boot projection, provisioning, the bootstrap script | modelled, checked, proved |
| 6 | `JwksCache` | refetch, grace, unknown keys | modelled, checked, proved |
| 7 | `Onboarding` | tenants, slugs, one workspace per user, keyset pages | modelled, checked, proved |
| 8 | `PermCache`, `Signup`, composed by `Valkey` | permission lists against commits; throttle, settings gate, sign-up | modelled, checked, proved |

`Invites` already composes requests, worker and Supabase for one person, with the worker
abstracted to its effects; `InviteOutbox` models the same worker in time. Accepting
appears in three modules: `Invites` has the invite and the account, `WorkspaceGrants` the
grant that a tenant invite inserts, `PlatformGrants` the row and the grant of a platform
invite. So does the removal of a member: `WorkspaceGrants` has its deletes and their
locks, `Invites` what it means to the invite the member came by. `RoleDefinitions` owns
`role_permissions`, which `WorkspaceGrants` and `PlatformGrants` take as the constant
`RolePerms`. What `Onboarding` commits, a tenant with its roles and an owner, is the
initial state of `WorkspaceGrants`. `Valkey` runs `PermCache` and `Signup` side by side on
one clock and one set of requests; they share no key.

Left for later: who may invite whom (permissions and rank) in `Invites`; the upsert and
deprecation of catalogue rows at a boot; a permission cache for several API processes with
clocks of their own.

## 3. The modules and the code

### WorkspaceGrants

One workspace (every service function pins every statement to one workspace id), and
`Sessions`: requests, or booting processes, each with a transaction. `pc[s]` is the next
*statement* of its service function, so everything another transaction may commit between
two statements is there. `member` and `grants` are the committed rows; `ins[s]`, `del[s]`
what a transaction has written and not committed; `todo[s]` the rows a DELETE has still to
visit, `cur[s]` the one it has locked and whose trigger runs next. `WaitsFor(s, t)` says
when the next statement of `s` waits for `t` to end, and a statement that may wait runs
when its session is `Free`: an INSERT waits for the keys `t` adds or removes (`KeyTaken`;
a row `t` has only locked does not make it wait), a DELETE for rows `t` has locked, the
floor's trigger, the foreign key of an owner grant and a boot's rewiring for the owner
role row, a boot's rewiring for another's, an accept or a removal for the membership. A
DELETE meets the rows of a user in `ScanOrder`, the boot's INSERT the memberships in
`UserOrder` (section 8).

* grant: `BeginGrant` (permission check of the route), `CheckMember`, `CheckPerms` (the
  actor holds what the role carries), `CheckGate` (only owners appoint owners),
  `InsertTrigger` (the same check by the trigger of 0013), `Place` (INSERT .. ON CONFLICT
  DO NOTHING against committed and pending rows), `Fetch` (the SELECT that follows a
  conflict), `ForeignKeys`, `Commit`.
* revoke: `BeginRevoke`, `CheckPerms`, `CheckGate`, `CheckFloor` (the friendly count),
  `DeleteStatement` (the snapshot of the DELETE), `LockRow`, `DeleteTrigger` (0010: locks
  the role row, then counts), `DeleteDone`, `Commit`.
* removal: `BeginRemove`, `CheckMember`, `CheckGate` (no owner is removed), the same DELETE
  for all grants of the target, `Leave`. Accept: `BeginAccept`, `PreSelect`, `Place`,
  `ForeignKeys`, `Join`. Boot: `BeginBoot`, `Wipe` and `Wire` (DELETE and INSERT of the
  system roles' permissions, in the transaction that then projects), `Place` for every
  membership. The inserted permissions hold FOR KEY SHARE on their role rows, the owner's
  included, until the commit (`Rewired`, `HoldsKeyShare`). A boot whose DELETE waited for
  another's finds the permissions there and locks no role (`wires`). Boots may overlap:
  the advisory lock of `main.py` does not outlive a commit with a NullPool (section 6).
  The transaction of `reconcile_rbac`, which rewires and does not project, locks as a boot
  that ends before it projects; of a boot over several workspaces the one is modelled.
* `ForeignKeys` are the FOR KEY SHARE locks of an INSERT on the role and the user,
  `Crash` ends a transaction at any statement, `DeleteUser` the deletion of an account,
  whose cascade the floor lets through.

Permissions are read from committed grants; the actor is any user who passes the check.
What is abstracted: names, timestamps, audit rows, the HTTP status of an error (an error
is a rollback). Grants and memberships that are deleted and made again are told apart by
`Ids`. There is no bound on how many requests follow each other.

### RoleDefinitions

`roles` and `perms` are the committed rows; a patch is `Rename` (only if a name or a
description is set: the row lock), `Clear` (the snapshot of the DELETE: `seen`), `Remove`
(its locks), `Insert` (primary key and foreign key), `Load` (the assertion that the role
is there, and the commit). A deletion is `Drop` and `Cascade`, a rewiring of a system role
the same DELETE and an INSERT with ON CONFLICT DO NOTHING. The checks of a request
(`MayWrite`, `MayChange`, `KeyTaken`) are its `Begin`, before any write. `CutShort` stands
for every way a transaction ends without a commit: an error, the victim of a deadlock, a
timeout, a crash. `last` is a history variable: the keys of the last definition of the
role that was committed. A rewiring of several roles in one transaction is a transaction
for each: roles share no row. System roles are rewired by boots and by `python -m rbac`;
accepts do not do it, against the docstring at `rbac/reconcile.py:153-155`, and onboarding
does it for its own new tenant only.

Create, patch and delete of the two scopes are the same code; `Held` is what an actor
holds in the scope. It is a constant, so that what a role carries can be compared with
what its authors hold; a grant that changes `Held` meanwhile belongs to `WorkspaceGrants`.

### InviteOutbox

`table` is the outbox, `worker` the loop of `process_due_batch`, `supabase` what the calls
do. Time is discrete: `wait[r]` counts down to `next_attempt_at`, `left[w]` to the timeout
of the call or the statement a worker is in, and `Tick` does not pass a timeout. A
worker holds rows *as its claim read them* (`Copy`), since `_mark_failure` writes back
`attempts + 1` from there. A call that times out is abandoned, not cancelled
(`asyncio.wait_for` around a thread), so it stays in `late` and may `Land` or be `Lost` at
any time. `CutShort` is an exception of another kind or the end of the process. After its
last row a worker writes what the batch did to `job_runs`, in a transaction of its own
whose failure is swallowed (`RecordRun`, with `tally` what it counted and `runs` the sums
of the table).

### Invites

One email and one tenant, several invites, one auth user at a time (`user`; its
`app_metadata` is `meta`) that may be deleted and invited again under another id. The
`token` carries the claims of the moment it was issued. A request is a read
(`BeginCreate`, `BeginAccept`) and a later write (`Insert`, `Provision`); a revoke reads
FOR UPDATE and writes in one action, and deletes the auth user after its commit, in
another (`DeleteAuthUser`). `RemoveMember` is the removal of a member, which leaves the
invite as it is; `uses` counts the uses of a tenant invite since the last removal. The
outbox is reduced to what it does to an invite: `Ask` (invite call), `Tag` (app_metadata),
`MarkSuccess`, `Retry`, `GiveUp`, `LandLate`. Who may invite whom is not modelled.

### PlatformGrants

`staff` is the enum of `platform_users`, `grants` the committed platform grants, `account`
the users at Supabase. A session is a request, a boot or a run of the script.

* grant: `BeginGrant` (permission of the route), `Load`, `Count` (is there a super admin
  already), `FindMissing` (the actor holds what the role carries), `Existing`
  (`.one_or_none()`), `Trigger` (0013), `Place` (the index on the expression, then the
  foreign keys), `Commit`. Revoke: `BeginRevoke`, `Find`, `Delete`, `Commit`.
* provisioning: `BeginProvision` (the route reads the enum), the Supabase call (`Created`,
  `Taken`, or `GaveUp`, whose account `Lands` at any time), `Existing`, `Trigger`, `Place`
  for the grant, `Enroll` for the row, one `Commit` for both. Accept of a platform invite:
  `BeginAccept` (the account is live: it came with the invite's email, `Invited`, or was
  provisioned), then the same `Existing`, `Place`, `Enroll` and `Commit`, without a granter
  and so without the walk of the trigger. Whether the invite is pending is read from
  `Invites`' tables and left open here, as is its revoke, which deletes an account there.
* boot: `BeginBoot` takes the pairs of the enum that have no grant, `Place` each; one
  refused row fails the transaction.
* script: `BeginBootstrap`, with --force `Purge` (a transaction of its own), the call,
  `Enlist` (the row, committed), `Existing`, `Place`, `Commit` (the grant).

Two rows of one user and role have their own `Ids`; nothing but the index of the super
admin keeps a second one out, as in the code.

### JwksCache

`cache` is the document and how much of its time is left (negative in the grace), `pc[r]`
where a request is: `Verify` looks at the cache without the lock, `Acquire` takes the lock
and looks again, `Answer` is the fetch at Supabase's side, `Store` the 200, `Fail` every
other outcome, with the stale document served while usable. A request whose key is not in
the document begins again with `forced`. What serves stale keys is an `httpx.HTTPError`; a
200 whose body is no key document raises and is a 500, which is not modelled. That a fetch
ends within `FetchTime` is an assumption: the client's timeout bounds each phase of it.
`Publish` and `Withdraw` rotate the keys; `known` and `fault` are history variables. Ages
count up to `Long`.

### Onboarding

Tenants are identified by their place in the order (created_at, id) of the list. A session
takes the user's advisory lock (`Lock`), reads the membership (`CheckMember`), reads the
slugs like its own and takes the first free suffix (`PickSlug`), inserts (`Insert`: the
unique key waits for a pending slug and refuses a committed one) and commits all rows at
once. `Longest` are the names a suffix truncates, whose suffixed slugs the LIKE does not
find. `BeginCreate` is POST /api/tenants, `Join` an accepted invite, `BeginWalk` and
`NextPage` a client that follows `next_cursor`. created_at is the begin of a transaction
and the commit comes later, so a tenant may appear *before* rows already listed.

### PermCache, Signup, Valkey

`PermCache` follows one user: `Lookup`, `Query` (the database), `Store` (a pipeline, any
part of which may be done), `Respond`; against `Change`, `Invalidate`, `Commit` or
`Rollback` of a grant, in this order, and `EditRole`, which invalidates nothing. `ago` is
the history: how long ago a list was last what the user held.

`Signup` follows one address: `Count` (INCR and TTL in one transaction), `Arm` (EXPIRE),
`FailOpen` (Valkey answers with an error or not in time; the command was done or not), the
setting (`Gate`), the lookup and the call to Supabase, whose effect may come after the
request has given up (`Lands`); and the operator who reads the setting and writes it if
different. `recent` is the history: how many requests passed, by age. `CutShort` is the
end of a process, between INCR and EXPIRE in particular. The gate, the lookup, the call
and the settings are there for the order of a request's steps; the properties are about
the counter. `waited` is how long ago a request made its INCR; `Elapse` does not pass
`ArmTime`, since the client's socket timeouts end an EXPIRE that is not answered.
`TwiceInAWindow` needs this bound: an EXPIRE from long ago would cut short or prolong the
window of another counter.

### Abstract specifications

`OwnerRegistry`: the set of owners changes in atomic steps, and a dismissal leaves
somebody. `WorkspaceGrants` implements it with `owners` the committed owner grants.
`OutboxLedger`: an email is open until it is sent or its tries are used up, tries are
counted one by one, and what is settled stays settled. `InviteOutbox` implements it, and so
does the worker of `Invites`, whose attempts are one try of the ledger: what `Invites`
abstracts from the worker is what the worker keeps.

## 4. The runs

All with `tlc -workers 2 -config X.cfg M`.

| run | instance | shows | distinct states |
|---|---|---|---|
| `grants_floor` | 2 users, 2 transactions, 2 roles, grant/revoke/accept, an account deleted | `TypeOK`, `OwnerFloor`, `UniqueGrants`, `FloorInv` (the inductive invariant), `ImplementsRegistry` | 979,931 |
| `grants_removal` | 3 roles of one target, removal/accept/grant/boot with its rewiring, fairness | `KeysInv` (the inductive invariant of the keys), `NoCircularWait` (a circle of waits takes a projecting boot and a DELETE at the floor's trigger), `TransactionsEnd` | 258,304 |
| `outbox_leased` | 2 workers, a lease longer than a batch at its slowest, a cut batch | `TypeOK`, `ClaimsDisjoint`, `ImplementsLedger` | 2,082,692 |
| `outbox_live` | 1 worker as shipped, lease shorter than its batch, a cut batch or a failed record, lost and late calls, an answer without user id, fairness | `SentMeansTagged`, `RunsAddUp`, `ImplementsLedger`, `Settles` | 296,250 |
| `invites` | 2 platform invites, 1 tenant invite, 2 auth ids, 2 requests, 1 fault, removals of the member | `TypeOK`, `OnePending`, `ProvisionedAreAlive`, `UsedOnce`, `ImplementsLedger` | 1,963,784 |
| `roles_named` | 3 transactions, 2 custom roles of one key, 1 system role, 2 permissions | `TypeOK`, `OneWritersSet`, `SystemRolesExact` | 317,268 |
| `platform` | a super admin, an admin and a newcomer, 2 sessions, 3 roles, all six operations | `TypeOK`, `OneSuperAdmin`, `RowsHaveAccounts`, `ProvisionIsWhole`, `NoEscalation` | 1,177,162 |
| `tokens` | 2 keys, 2 requests, fetches that fail at any time | `TypeOK`, `WithdrawnKeyDies`, `OneRefetchSuffices`, `OutageIsBridged` | 898,523 |
| `valkey` | 2 requests, 1 scope, 1 permission, 1 request per window of 2 ticks | `TypeOK`, `MeShowsRecent`, `RefusalsEnd`, `TwiceInAWindow` | 729,204 |
| `onboarding` | 2 users, 2 sessions, 3 tenants, a name and one of the greatest length, pages of one row | `TypeOK`, `OneWorkspaceEach`, `SlugsUnique`, `WalkListsAll` | 409,245 |

Two runs refute what a comment or a doc of the repository says (section 6):
`outbox_double_claim` and `invites_live_account`.

Why these bounds are enough to be of interest. Every hazard listed takes two
transactions, and at least two sessions are there; the set of a role's permissions needs
a third (one that deletes, one that patches, one that waits), and has it. Two users are
an actor and a target that may exchange roles; a deleted grant made again needs a second
id. The floor needs an owner grant that is not the last, and `grants_floor` reaches two
owners. In `grants_removal` the target holds up to three grants, so that two removals can
meet its rows in an order of their own. Batches of two rows make one wait behind the
other; two attempts are a retry and a parking, and times are scaled so that the relations
between lease, batch and back-off are those they stand for: `outbox_leased` has
MarkTime + Limit (2 CallTime + MarkTime) < LeaseTime, the other two have the opposite, as
the shipped settings do (10 rows, two calls of 10 s and a transaction of 5 s each, a lease
of 120 s). `Never` is the 100 years of a parked row. `Crashes` and `Faults` bound how
often a batch is cut or a call fails; the safety proofs of `Invites` and `InviteOutbox`
hold for any number.

In `platform` the admin starts with a custom role and without the grant of his enum, so
that a boot has something to add; the newcomer is provisioned, invited or made super
admin; a permission (`Rare`) is carried by the two system roles only, so that revokes lose
it and the projection, the script or an accept bring it back. In `tokens` the
time to live, the grace and the fetch are two ticks, one and one: a document is fresh,
stale and unusable within a request's fetches, as the shipped 300 s, 600 s and 5 s are in
a longer time. In `valkey` a response may take a tick, the time to live is one: a list is
stored past an invalidation and expires during another request. One scope is looked up at
a time there; that several are, some of them cached, is in the proof. A window of two
ticks has passes at its end and at the beginning of the next; an EXPIRE follows its INCR
within a tick (seconds against the minutes of the shipped window). In `onboarding` three
tenants are what a second suffix and three pages take, and the long name is refused at
its third use.

`CHECK_DEADLOCK FALSE` is said only where the system may stop: in `Invites`,
`PlatformGrants` and `Onboarding` the ids or the accounts are used up, in `InviteOutbox`
an idle worker polls without effect once every row is settled, and in `JwksCache` and
`Valkey` time waits for a step that is due, which is the model's clock, no lock of the
code. In `WorkspaceGrants` and `RoleDefinitions` a deadlock would be reported.

Symmetry is used for sessions, workers, users, ids and roles that no constant tells apart,
and never in a run with a liveness property.

## 5. Fairness

* `WorkspaceGrants!LiveSpec`: SF of the statements of a begun transaction. Postgres
  queues those who wait for a lock, so a statement that can run again and again does.
  No fairness of `Begin`, `Crash` or `DeleteUser`. WF of `Victim`: Postgres's deadlock
  detector aborts somebody in a circle that stands (deadlock_timeout), which the circle of
  section 6 needs. `TransactionsEnd` therefore says that transactions end with no help
  from a timeout or a crash.
* `InviteOutbox!LiveSpec`: WF of `Tick` (clocks run), of the steps of a worker (each has a
  timeout: SUPABASE_TIMEOUT_SEC, DB_STATEMENT_TIMEOUT_MS) and of `Claim` (the poll loop of
  `run_outbox_worker` catches everything and comes round again). A batch is cut at most
  `Crashes` times: an exception of another kind that came back with each try of one row
  would count no attempt and park nothing, and `Settles` does not speak of it. Nothing
  makes a call succeed, a late call land or a batch be cut.

## 6. What the runs refute

* `outbox_double_claim`: the lease is fixed when the batch is claimed and not renewed,
  and the slowest batch outlives it; a second worker then claims rows the first holds.
  With a lease longer than a batch (`outbox_leased`, and a theorem) this cannot happen.
* `invites_live_account`: `revoke_platform_invite` deletes the auth user after its commit,
  by the id it read, without looking whether an accept has made it a platform user.

Other things the models show, which a short sequence of steps exhibits and no document
denies; they have no run of their own:

* a boot and a removal may deadlock. The boot holds FOR KEY SHARE on the owner role row
  from its rewiring on; a removal whose target has become an owner since the check deletes
  a grant, then waits for that row in the floor's trigger, and the boot's projection waits
  for the deleted grant. Postgres aborts one of the two. It is the only circle there is
  (`NoCircularWait`, and a theorem);
* a tenant invite can be used twice, though the comment at `invite_acceptance.py:125-129`
  says a re-accept stays idempotent: two accepts check it, the first provisions, the member
  is removed, the second provisions again, for `accepted_at` is not read anew
  (`Provision`, `RemoveMember`). `UsedOnce` counts the uses of a tenant invite from the
  last removal;
* an accepted platform invite inserts the admin grant without a granter, and the trigger
  lets it pass (0013:164-174): it brings back any permission of the admin role, whoever
  still holds it. `NoEscalation` excepts it by name;
* the membership check of a grant is a plain SELECT: a removal that commits before the
  INSERT leaves a grant to a non-member (`CheckMember`, then `Place`); the same with the
  owner gate of a revoke whose actor is demoted meanwhile;
* an invite revoked before the outbox has sent it has no user id to delete, is mailed all
  the same, and the user it creates stays; a stale platform claim hides a valid tenant
  invite (`ClaimedInvite` of `Invites`);
* patches of permissions alone do not lock the role: two that overlap leave the union of
  their sets. The web client always sends the name too, and then the row lock orders them
  (`roles_named`, and a theorem);
* two concurrent grants of a platform role other than super admin insert two rows, since
  their workspace is NULL; `.one_or_none()` raises from then on (`Existing` aborts);
* a provisioning that gives up on Supabase may leave an account that owns the email, and
  is refused as taken from then on (`GaveUp`, `Lands`, `Taken`);
* the comment at `main.py:109-117` expects the advisory lock to span the boot; it belongs
  to the connection, and with a pooler URL the engine has a NullPool, so the first commit
  gives it up. The models let boots overlap, and the properties hold without the lock;
* while Supabase cannot be reached, a token of a new key is answered as invalid, not as
  unverifiable: the forced fetch serves the stale keys (`Fail`);
* a third workspace of one name of the greatest length is refused with a 409 each time:
  the suffixed slugs do not begin with the base, so the LIKE does not find the second;
* two updates of the setting that overlap may answer with a value that is not stored, and
  a signup that passed the gate goes on after signups are closed;
* requests for one address that overlap may each find the counter without a time to live
  and arm it, so the window may move by as long as an EXPIRE takes (`ArmTime`).

## 7. The proofs

Every step is checked by tlapm; the only assumptions are those on the constants, which
TLC evaluates in the runs. One of them, that `BackoffBase * 2^n` is a number, is in
`OutboxAssumption` because the provers do not know exponentiation.

* `WorkspaceGrants_proofs`, from `RoleAssumption`: `TypeCorrect`, `OwnerFloorHolds`,
  `GrantsAreUnique`, `RegistryImplemented`, `FloorInvHolds`, `KeysInvHolds`. `OwnerFloor`
  alone is not inductive: a transaction that has passed the trigger and not committed
  would break it. `FloorInv` adds that at most one transaction has deleted an owner grant
  (`OneRemover`: the lock on the role row, held to the commit), that it spares one
  (`OwnerSpared`: what its trigger counted is still there), and at which statements rows
  are pending (`PendingShape`: so no other transaction takes away what was counted).
  `KeysInv` adds that no pending row has the key of a committed or of another pending one.
  The refinement has one step per action: all but commits and deletions of accounts
  stutter. `NoCircularWaitHolds` takes `OrderAssumption` too, and two more invariants:
  `LocksInv`, that a DELETE holds only rows which come before the one it is at, and
  `PairsInv`, the same of the pairs of a boot. In a set of sessions each of which waits
  for another of the set, without a boot that projects after a rewiring or without a
  DELETE at the floor's trigger (`Circle`), one that deletes waits for one that is further
  on among the rows of the same user (`FurtherOn`), one that inserts for one that is
  further on in the boot's order, and whoever holds the lock of the role row waits for
  nobody but at such a row; so there would be an endless climb (`NobodyDeletes`,
  `NobodyInserts`). That such a climb ends is `NoAscent`: rows are finitely many, and the
  naturals are well founded (`MinNat`). So somebody who is under way is `Free`, unless
  such a boot and such a DELETE are both there (`SomebodyProceeds`).
* `RoleDefinitions_proofs`, from `DefinitionsAssumption`: `TypeCorrect`,
  `SystemRolesHold`, `RenamesOrderPatches`. For system roles `SystemInv` says what each
  statement leaves to the next, and that a rewiring about to commit replaces the
  catalogue's set by itself, whatever rows it found gone. For custom roles `PatchInv` says
  that one transaction at a time holds the lock of a role from `Rename` on, so the rows
  its DELETE saw are all there are.
* `Invites_proofs`, from `InvitesAssumption`: `TypeCorrect`, `PendingIsUnique`,
  `AccountsAreAlive`, `UsedAtMostOnce`, `WorkerKeepsLedger`. `IInv` adds which ids a
  request may hold (`KnownIds`) and that a request which checked an invite that was then
  used is bound to be rejected (`UsedInv`), as long as its uses are not counted anew: its
  account is gone, or provisioned. The worker's steps, among the requests, implement
  `OutboxLedger`; `MailInv` says that a create stages the email of an invite no other
  request knows.
* `InviteOutbox_proofs`, from `OutboxAssumption`: `TypeCorrect`, `SentMeansTaggedHolds`,
  and under `LeaseCoversBatch` (LeaseTime > MarkTime + Limit (2 CallTime + MarkTime))
  `ClaimsAreDisjoint`, `LedgerImplemented` and `RunsAddUpHolds`. The last two take nothing
  of the lease but disjoint claims (`DisjointClaimsImplementLedger`,
  `DisjointClaimsAddUp`), so they hold as well where one worker runs, under the settings
  shipped (`LoneWorkerImplementsLedger`, `LoneWorkerAddsUp`). `RowsInv` says that a worker
  holds a row once. `LeaseInv` is the accounting of time: what a batch may yet need, with
  every call and outcome at its timeout, is less than what is left of the lease of each
  row it has not recorded, so none of them is due. `SentInv` needs no lease: only an
  answer for the row leads to its mark. For `RunsAddUp` the attempts of all rows are the
  size of the set of their numbered attempts, since a cardinality grows by one with each
  mark (`BelowOne`) where a recursive sum would ask for a theorem by induction; `CountInv`
  says what the recorded runs and the tally of a batch add up to, `HandInv` that the copy
  a worker holds is the row as it is. The condition is sharp in the sense that the shipped
  constants miss it (120 < 5 + 10 * 25), and `outbox_double_claim` shows what follows.
* `PlatformGrants_proofs`, from `PlatformAssumption`: `TypeCorrect`, `OneSuperAdminHolds`,
  `NoRequestEscalates`, `RowsHaveAccountsHolds`, `ProvisioningIsWhole`. The invariant says
  which rows are pending at which statement, that pending super admin rows exclude each
  other, that a row that was inserted has its accounts as long as it is pending (the
  script waits for it), and that a provisioning which goes on to add its row has inserted
  the grant, unless the person has become staff meanwhile: only an accept
  may hold rows for an account that is being provisioned.
* `JwksCache_proofs`, from `JwksAssumption`: `TypeCorrect`, `WithdrawnKeysDie`,
  `OneRefetchIsEnough`, `OutagesAreBridged`. The invariant bounds, for each key of the
  cached document and of an answer on its way, how long ago it was published, by the time
  that document has been on its way or in the cache.
* `Onboarding_proofs`, from `OnboardingAssumption`: `TypeCorrect`, `OneWorkspaceHolds`,
  `SlugsUniqueHolds`, `WalksListAll`. `FounderInv`: who is past the membership check under
  the lock has no workspace; `SlugInv`: inserted slugs are unlike each other and the
  committed ones; `WalkInv`: what was seen is at the cursor or past it, what is due before
  it. That a free suffix exists is the pigeonhole principle.
* `Valkey_proofs`, from `ValkeyAssumption`: `TypeCorrect`, `RefusalsEndAll`,
  `MeShowsRecentAll`, `TwiceInAWindowAll`. `CounterInv`: a counter that is gone has no
  time to live. `MeInv`: the age of a cached list and what its entry has left add up to no
  more than the time to live and one request (`EntryInv`), and a request shows what it
  read itself, or an entry as old as it was at its lookup (`ReadInv`). `WindowInv` divides
  the passes of a window by the moment the counter's key was last gone: the younger ones,
  with those still to be armed (`Pending`), are at most what the counter shows and at most
  `Most`, the older ones at most `Most`; the key does not go before `Window` is over,
  since an EXPIRE on its way is for the counter that is there, which takes `ArmTime <
  Window`.

Every invariant and action property of a passing run is stated by a theorem, the outbox's
under the condition each names. Only model-checked: liveness (`TransactionsEnd`,
`Settles`), which is outside what the provers do; freedom from deadlock outside
`WorkspaceGrants`; and the two violations, which are behaviours of one instance. The
provers here instantiate no theorem that takes an operator, so induction over data is
possible only where it can be put as a least number (`MinNat`) or avoided by a cardinality
(`BelowOne`).

## 8. What is assumed of the outside

* Postgres at READ COMMITTED: a statement sees what was committed when it began; a row
  being written makes another writer wait; an INSERT waits for a pending row of its key,
  then fails or, with ON CONFLICT, does nothing; foreign keys take FOR KEY SHARE. One query
  meets the rows of one user in one order, whoever sends it: the DELETEs of a revoke and
  of a removal read the same index. SQL sent
  as `text()` does not flush the ORM's pending objects first.
* Valkey: a command is atomic, a MULTI too, a pipeline is not; a key expires when its time
  is up; any command may fail or not be answered. All API processes see one clock.
* Supabase publishes its signing keys at one address, and answers with the keys of a
  moment between the begin and the end of a fetch.
* Supabase (GoTrue): an invite creates an unconfirmed user or mails it again, and is
  refused for one who has confirmed; `app_metadata` is merged by key; a request may take
  effect after its caller has given up; deleting a user cascades to the rows that
  reference it.

## 9. Not modelled, and why

The audit log (a row in the transaction of the change, and lists of it), lists and
statistics (reads), the rate limit (a library's counter), the webhook (checks a signature,
writes an audit row), the resolver of grounding URLs (`core/url_resolve.py`, without a
caller), configuration, logging, middleware and health (input and output), signatures of
tokens (cryptography), the policies that filter reads, the schemas and the ORM classes
(declarations), and the web client (it has no state that outlives a request). A
workspace's settings are its name, one UPDATE of one row. Of the boot, the upsert and the
deprecation of catalogue rows and the `is_active` of the staff (`reconcile.py:248`) are
left out, of the invites the permissions and the rank of who invites, of acceptance the
platform invites of the legacy `editor` role, which carry no grant.
