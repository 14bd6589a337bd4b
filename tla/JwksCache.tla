------------------------------ MODULE JwksCache ------------------------------
(***************************************************************************)
(* core/auth.py: the cache of Supabase's public keys that every request    *)
(* verifies its token with.  A request whose token names a key it does not *)
(* find fetches the keys again, once; a fetch that fails serves the keys   *)
(* that were cached, until they are too old.  One lock per URL serialises  *)
(* the fetches, and what a request read before its fetch is used after it. *)
(*                                                                         *)
(* Time is in ticks.  Supabase may change its keys at any moment; a fetch  *)
(* sees the keys of some moment between its start and its end.             *)
(***************************************************************************)
EXTENDS Integers

CONSTANTS
  Keys,      \* signing keys, by kid
  First,     \* the key Supabase signs with at the start
  Requests,
  TTL,       \* jwks_ttl_sec
  Grace,     \* jwks_stale_grace_sec
  FetchTime, \* how long a fetch takes, at most (jwks_fetch_timeout_sec bounds each phase)
  Long       \* bound: ages are told apart up to it

Horizon == TTL + Grace + FetchTime
Never == Long + 1
ASSUME JwksAssumption ==
  /\ First \in Keys
  /\ TTL \in Nat \ {0} /\ Grace \in Nat /\ FetchTime \in Nat
  /\ FetchTime <= TTL /\ Long \in Nat /\ Horizon <= Long

VARIABLES
  published, \* the keys Supabase publishes
  since,     \* per key: for how long it is, or is no longer, published
  cache,     \* _JWKS_CACHE: the document, and how much of its time is left
  age,       \* for how long no fetch succeeded
  pc,        \* per request: where it is
  kid,       \* the key its token names
  forced,    \* whether it is at its second, forced, fetch
  saw,       \* the cache as it read it under the lock
  spent,     \* time since it took the lock
  got,       \* the answer of Supabase to its fetch
  known,     \* history: whether that key was published when it began
  fault      \* history: whether a fetch of it failed

upstream == <<published, since>>
request == <<pc, kid, forced, saw, spent, got, known, fault>>
vars == <<upstream, cache, age, request>>

Doc == [keys : SUBSET Keys, left : (-Grace)..TTL]
NoDoc == [keys |-> {}, left |-> -Grace]
Verdicts == {"accepted", "invalid", "unavailable"}
Points == {"idle", "waiting", "fetching", "answered"} \cup Verdicts

Fresh(c) == c.left > 0
Usable(c) == c.left > -Grace
Holder == {r \in Requests : pc[r] \in {"fetching", "answered"}}

----------------------------------------------------------------------------
(* _decode_jwt with the document d: the key is there, or, after the forced *)
(* fetch, unknown; else the request asks for a forced fetch.               *)
Verdict(r, d) ==
  IF kid[r] \in d THEN "accepted" ELSE IF forced[r] THEN "invalid" ELSE "waiting"

(* The lock, if held, is released. *)
Release(r) ==
  /\ saw' = [saw EXCEPT ![r] = NoDoc]
  /\ spent' = [spent EXCEPT ![r] = 0]
  /\ got' = [got EXCEPT ![r] = {}]

Resolve(r, d) ==
  /\ pc' = [pc EXCEPT ![r] = Verdict(r, d)]
  /\ forced' = [forced EXCEPT ![r] = Verdict(r, d) = "waiting"]
  /\ Release(r)

(* A token arrives, and the cache is looked at without the lock. *)
Verify(r, k) ==
  /\ pc[r] = "idle"
  /\ kid' = [kid EXCEPT ![r] = k]
  /\ known' = [known EXCEPT ![r] = k \in published]
  /\ pc' = [pc EXCEPT ![r] = IF Fresh(cache) /\ k \in cache.keys THEN "accepted" ELSE "waiting"]
  /\ forced' = [forced EXCEPT ![r] = Fresh(cache) /\ k \notin cache.keys]
  /\ UNCHANGED <<upstream, cache, age, saw, spent, got, fault>>

(* Under the lock the cache is looked at again, unless the fetch is forced. *)
Skips_Forced(r) == Fresh(cache)
Skips(r) == Fresh(cache) /\ ~forced[r]
Acquire(r) ==
  /\ pc[r] = "waiting" /\ Holder = {}
  /\ \/ Skips(r) /\ Resolve(r, cache.keys)
     \/ /\ ~Skips(r)
        /\ pc' = [pc EXCEPT ![r] = "fetching"]
        /\ saw' = [saw EXCEPT ![r] = cache]
        /\ UNCHANGED <<forced, spent, got>>
  /\ UNCHANGED <<upstream, cache, age, kid, known, fault>>

Answer(r) ==
  /\ pc[r] = "fetching"
  /\ got' = [got EXCEPT ![r] = published]
  /\ pc' = [pc EXCEPT ![r] = "answered"]
  /\ UNCHANGED <<upstream, cache, age, kid, forced, saw, spent, known, fault>>

(* The document expires TTL after the lock was taken. *)
Kept_FromNow(r) == TTL
Kept_Longer(r) == TTL + spent[r]
Kept(r) == TTL - spent[r]
Store(r) ==
  /\ pc[r] = "answered"
  /\ cache' = [keys |-> got[r], left |-> Kept(r)]
  /\ age' = 0
  /\ Resolve(r, got[r])
  /\ UNCHANGED <<upstream, kid, known, fault>>

(* httpx.HTTPError: what was cached when the lock was taken, if it had not *)
(* expired for longer than the grace.  An answer of 200 whose body is not  *)
(* a key set raises something else, and ends the request as a 500: that    *)
(* end is not modelled.                                                    *)
Serves_Always(r) == TRUE
Serves_Fresh(r) == Fresh(saw[r])
Serves(r) == Usable(saw[r])
Fail(r) ==
  /\ r \in Holder
  /\ fault' = [fault EXCEPT ![r] = TRUE]
  /\ \/ Serves(r) /\ Resolve(r, saw[r].keys)
     \/ ~Serves(r) /\ pc' = [pc EXCEPT ![r] = "unavailable"] /\ UNCHANGED forced /\ Release(r)
  /\ UNCHANGED <<upstream, cache, age, kid, known>>

(* The response is sent; nothing of the request is kept. *)
Leave(r) ==
  /\ pc[r] \in Verdicts
  /\ pc' = [pc EXCEPT ![r] = "idle"]
  /\ kid' = [kid EXCEPT ![r] = First]
  /\ forced' = [forced EXCEPT ![r] = FALSE]
  /\ known' = [known EXCEPT ![r] = FALSE]
  /\ fault' = [fault EXCEPT ![r] = FALSE]
  /\ UNCHANGED <<upstream, cache, age, saw, spent, got>>

----------------------------------------------------------------------------
(* Supabase: a key is published once, and withdrawn for good. *)
Publish(k) ==
  /\ k \notin published /\ since[k] = Never
  /\ published' = published \cup {k}
  /\ since' = [since EXCEPT ![k] = 0]
  /\ UNCHANGED <<cache, age, request>>

Withdraw(k) ==
  /\ k \in published
  /\ published' = published \ {k}
  /\ since' = [since EXCEPT ![k] = 0]
  /\ UNCHANGED <<cache, age, request>>

Older(n) == IF n < Long THEN n + 1 ELSE n
Elapse ==
  /\ \A r \in Holder : spent[r] < FetchTime
  /\ since' = [k \in Keys |-> Older(since[k])]
  /\ cache' = [cache EXCEPT !.left = IF @ > -Grace THEN @ - 1 ELSE @]
  /\ age' = Older(age)
  /\ spent' = [r \in Requests |-> IF r \in Holder THEN spent[r] + 1 ELSE spent[r]]
  /\ UNCHANGED <<published, pc, kid, forced, saw, got, known, fault>>

Init ==
  /\ published = {First}
  /\ since = [k \in Keys |-> IF k = First THEN Long ELSE Never]
  /\ cache = NoDoc
  /\ age = Long
  /\ pc = [r \in Requests |-> "idle"]
  /\ kid = [r \in Requests |-> First]
  /\ forced = [r \in Requests |-> FALSE]
  /\ saw = [r \in Requests |-> NoDoc]
  /\ spent = [r \in Requests |-> 0]
  /\ got = [r \in Requests |-> {}]
  /\ known = [r \in Requests |-> FALSE]
  /\ fault = [r \in Requests |-> FALSE]

Step(r) ==
  (\E k \in Keys : Verify(r, k)) \/ Acquire(r) \/ Answer(r) \/ Store(r) \/ Fail(r) \/ Leave(r)
Next ==
  \/ \E r \in Requests : Step(r)
  \/ \E k \in Keys : Publish(k) \/ Withdraw(k)
  \/ Elapse

Spec == Init /\ [][Next]_vars

----------------------------------------------------------------------------
(* Properties *)

TypeOK ==
  /\ published \subseteq Keys
  /\ since \in [Keys -> 0..Never]
  /\ cache \in Doc
  /\ age \in 0..Long
  /\ pc \in [Requests -> Points]
  /\ kid \in [Requests -> Keys]
  /\ forced \in [Requests -> BOOLEAN]
  /\ saw \in [Requests -> Doc]
  /\ spent \in [Requests -> 0..FetchTime]
  /\ got \in [Requests -> SUBSET Keys]
  /\ known \in [Requests -> BOOLEAN]
  /\ fault \in [Requests -> BOOLEAN]

(* JWKS_STALE_GRACE_SEC bounds what an outage keeps alive: a token whose   *)
(* key was withdrawn is accepted for less than the TTL, the grace and one  *)
(* fetch, however fetches, failures and other requests' refetches          *)
(* interleave.                                                             *)
WithdrawnKeyDies ==
  [][\A r \in Requests : pc[r] # "accepted" /\ pc'[r] = "accepted" =>
       kid'[r] \in published \/ since[kid'[r]] < Horizon]_vars

(* "invalidates the cache entry and refetches ONCE before giving up": one  *)
(* refetch suffices; a token of a key that was published all the while is  *)
(* not refused as invalid unless a fetch of the request failed.            *)
OneRefetchSuffices ==
  [][\A r \in Requests : pc[r] # "invalid" /\ pc'[r] = "invalid" =>
       ~known[r] \/ kid[r] \notin published \/ fault'[r]]_vars

(* "so a Supabase outage does not instantly become a 100% auth outage":    *)
(* once a fetch succeeded, no request of anyone is answered with           *)
(* token_verification_unavailable before the TTL and the grace, less one   *)
(* fetch, have passed.                                                     *)
OutageIsBridged ==
  [][\A r \in Requests : pc[r] # "unavailable" /\ pc'[r] = "unavailable" =>
       age >= TTL + Grace - FetchTime]_vars
=============================================================================
