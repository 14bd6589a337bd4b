------------------------------ MODULE Onboarding ------------------------------
(***************************************************************************)
(* Workspaces come to be: users onboard (services/onboarding.py, slug.py), *)
(* operators add tenants by hand and page through them (routes/tenants.py, *)
(* core/pagination.py), and invites make users members of tenants there    *)
(* are (of one added by hand, once a boot has seeded its roles).           *)
(*                                                                         *)
(* A session is one request and its READ COMMITTED transaction; what it    *)
(* inserted is not seen before it commits, but holds its unique key.  A    *)
(* tenant is identified by its place in the order of (created_at, id):     *)
(* created_at is the time the transaction began, so a tenant may come to   *)
(* be before others in that order that were committed earlier.             *)
(***************************************************************************)
EXTENDS Naturals, FiniteSets

CONSTANTS
  Users, Operator, \* who onboards, and who adds tenants by hand
  Sessions,
  Ids,        \* tenants, by their place in the order of (created_at, id)
  Names,      \* slugs that slugify() makes of workspace names
  Longest,    \* those of 64 characters: a suffix cuts them, and LIKE misses the result
  Limit,      \* rows on a page
  Typed,      \* bound: slugs that operators type
  Joins,      \* bound: how many invites are accepted
  Nobody      \* no user, no tenant

Nums == 1..(Cardinality(Ids) + 1)
Tenant == [name : Names, num : Nums, by : Users \cup {Operator}]

ASSUME OnboardingAssumption ==
  /\ IsFiniteSet(Ids) /\ Ids = 1..Cardinality(Ids)
  /\ Limit \in Nat \ {0} /\ Longest \subseteq Names /\ Joins \in Nat
  /\ Typed \subseteq Names \X Nums
  /\ Operator \notin Users /\ Nobody \notin Users \cup {Operator} \cup Ids \cup Tenant

VARIABLES
  tenants,   \* committed: Nobody, or the slug and the creator
  members,   \* tenant_memberships, each with its grant
  pc, user, name, \* per session: next step, who asks, and for which slug
  num, id,   \* the suffix it chose, 1 for none, and the tenant it inserted
  walk       \* a client that follows next_cursor: where it is and what it has

committed == <<tenants, members>>
session == <<pc, user, name, num, id>>
vars == <<committed, session, walk>>

There == {i \in Ids : tenants[i] # Nobody}
Slug(i) == <<tenants[i].name, tenants[i].num>>
Points == {"idle", "lock", "member", "slug", "insert", "commit"}

Others(s) == Sessions \ {s}
Inserted == {s \in Sessions : pc[s] = "commit"}
Goto(s, l) == pc' = [pc EXCEPT ![s] = l]

----------------------------------------------------------------------------
(* create_tenant_with_owner *)

BeginOnboard(s) == \E u \in Users, n \in Names :
  /\ pc[s] = "idle"
  /\ Goto(s, "lock")
  /\ user' = [user EXCEPT ![s] = u]
  /\ name' = [name EXCEPT ![s] = n]
  /\ UNCHANGED <<committed, num, id, walk>>

End(s) ==
  /\ Goto(s, "idle")
  /\ user' = [user EXCEPT ![s] = Nobody]
  /\ name' = [name EXCEPT ![s] = Nobody]
  /\ num' = [num EXCEPT ![s] = 1]
  /\ id' = [id EXCEPT ![s] = Nobody]

Abort(s) == End(s) /\ UNCHANGED <<committed, walk>>
CutShort(s) == pc[s] # "idle" /\ Abort(s)

(* The advisory lock of the user, held to the end of the transaction. *)
LockFree_None(s) == TRUE
LockFree(s) ==
  \A t \in Others(s) : user[t] = user[s] => pc[t] \notin {"member", "slug", "insert", "commit"}
Lock(s) ==
  /\ pc[s] = "lock" /\ LockFree(s)
  /\ Goto(s, "member")
  /\ UNCHANGED <<committed, user, name, num, id, walk>>

(* scalar_one_or_none: one membership is a 409, two are an exception. *)
CheckMember(s) ==
  /\ pc[s] = "member"
  /\ IF \E i \in Ids : <<user[s], i>> \in members
     THEN Abort(s)
     ELSE Goto(s, "slug") /\ UNCHANGED <<committed, user, name, num, id, walk>>

(* The slugs LIKE 'base%', and the first suffix that is not among them: *)
(* by the time of the INSERT they may be taken.                         *)
Visible(n) ==
  {k \in Nums : (\E i \in There : Slug(i) = <<n, k>>) /\ (n \in Longest => k = 1)}
FirstFree(S) == CHOOSE k \in Nums : k \notin S /\ \A j \in Nums : j < k => j \in S
PickSlug(s) ==
  /\ pc[s] = "slug"
  /\ num' = [num EXCEPT ![s] = FirstFree(Visible(name[s]))]
  /\ Goto(s, "insert")
  /\ UNCHANGED <<committed, user, name, id, walk>>

(* INSERT of the tenant: UNIQUE (slug) waits for an insert of the same slug *)
(* that is not committed yet, and refuses one that is.                      *)
Mine(s) == <<name[s], num[s]>>
Refused_Never(s) == FALSE
Refused(s) == \E i \in There : Slug(i) = Mine(s)
Unclaimed == {i \in Ids \ There : \A t \in Sessions : id[t] # i}
Insert(s) ==
  /\ pc[s] = "insert"
  /\ \A t \in Others(s) \cap Inserted : Mine(t) # Mine(s)
  /\ \/ Refused(s) /\ Abort(s)
     \/ /\ ~Refused(s)
        /\ \E i \in Unclaimed : id' = [id EXCEPT ![s] = i]
        /\ Goto(s, "commit")
        /\ UNCHANGED <<committed, user, name, num, walk>>

(* The tenant, its roles, the membership of the owner and its grant are one *)
(* transaction; a tenant added by hand is its row alone.                    *)
Joined_Always(s) == {<<user[s], id[s]>>}
Joined(s) == IF user[s] = Operator THEN {} ELSE {<<user[s], id[s]>>}
Commit(s) ==
  /\ s \in Inserted
  /\ tenants' =
       [tenants EXCEPT ![id[s]] = [name |-> name[s], num |-> num[s], by |-> user[s]]]
  /\ members' = members \cup Joined(s)
  /\ End(s)
  /\ UNCHANGED walk

(* POST /api/tenants, with a slug of the operator's choice. *)
BeginCreate(s) == \E x \in Typed :
  /\ pc[s] = "idle"
  /\ Goto(s, "insert")
  /\ user' = [user EXCEPT ![s] = Operator]
  /\ name' = [name EXCEPT ![s] = x[1]]
  /\ num' = [num EXCEPT ![s] = x[2]]
  /\ UNCHANGED <<committed, id, walk>>

(* An invite of the tenant is accepted. *)
Founder(u, i) == tenants[i] # Nobody /\ tenants[i].by = u
Join(u, i) ==
  /\ i \in There /\ <<u, i>> \notin members
  /\ Cardinality({m \in members : ~Founder(m[1], m[2])}) < Joins
  /\ members' = members \cup {<<u, i>>}
  /\ UNCHANGED <<tenants, session, walk>>

----------------------------------------------------------------------------
(* GET /api/tenants, page after page, newest first *)

NoWalk == [on |-> FALSE, before |-> 0, seen |-> {}, due |-> {}]
Top == Cardinality(Ids) + 1
BeginWalk ==
  /\ ~walk.on
  /\ walk' = [on |-> TRUE, before |-> Top, seen |-> {}, due |-> There]
  /\ UNCHANGED <<committed, session>>

Newest(S, n) == {i \in S : Cardinality({j \in S : j > i}) < n}
Older == {i \in There : i < walk.before}
Page == Newest(Older, Limit)
Least(S) == CHOOSE i \in S : \A j \in S : i <= j
(* next_cursor is the last row of the page, not the row past it. *)
Cursor_Extra == Least(Newest(Older, Limit + 1))
Cursor == Least(Page)
NextPage ==
  /\ walk.on
  /\ walk' = IF Cardinality(Older) > Limit
             THEN [walk EXCEPT !.before = Cursor, !.seen = @ \cup Page, !.due = @ \ Page]
             ELSE NoWalk
  /\ UNCHANGED <<committed, session>>

Init ==
  /\ tenants = [i \in Ids |-> Nobody]
  /\ members = {}
  /\ pc = [s \in Sessions |-> "idle"]
  /\ user = [s \in Sessions |-> Nobody]
  /\ name = [s \in Sessions |-> Nobody]
  /\ num = [s \in Sessions |-> 1]
  /\ id = [s \in Sessions |-> Nobody]
  /\ walk = NoWalk

Next ==
  \/ \E s \in Sessions :
       \/ BeginOnboard(s) \/ Lock(s) \/ CheckMember(s) \/ PickSlug(s) \/ Insert(s)
       \/ Commit(s) \/ CutShort(s) \/ BeginCreate(s)
  \/ \E u \in Users, i \in Ids : Join(u, i)
  \/ BeginWalk \/ NextPage

Spec == Init /\ [][Next]_vars

----------------------------------------------------------------------------
(* Properties *)

TypeOK ==
  /\ tenants \in [Ids -> Tenant \cup {Nobody}]
  /\ members \subseteq Users \X Ids
  /\ pc \in [Sessions -> Points]
  /\ user \in [Sessions -> Users \cup {Operator, Nobody}]
  /\ name \in [Sessions -> Names \cup {Nobody}]
  /\ num \in [Sessions -> Nums]
  /\ id \in [Sessions -> Ids \cup {Nobody}]
  /\ walk \in [on : BOOLEAN, before : 0..Top, seen : SUBSET Ids, due : SUBSET Ids]

(* "Two parallel POST /onboarding/tenants both passed the membership       *)
(* existence-check below and each created a tenant": under the advisory    *)
(* lock nobody onboards twice (nobody leaves a workspace here).            *)
OneWorkspaceEach ==
  \A u \in Users : \A i, j \in Ids : Founder(u, i) /\ Founder(u, j) => i = j

(* Slugs are chosen from a read that is stale when used; still no two      *)
(* tenants, by whichever path, have the same.                              *)
SlugsUnique == \A i, j \in There : Slug(i) = Slug(j) => i = j

(* Pages follow each other in separate queries while tenants are created:  *)
(* no tenant is listed twice, and one that was there when the walk began   *)
(* is not skipped.                                                         *)
WalkListsAll ==
  [][/\ walk.on /\ NextPage => Page \cap walk.seen = {}
     /\ walk.on /\ ~walk'.on => walk.due \subseteq Page]_vars
=============================================================================
