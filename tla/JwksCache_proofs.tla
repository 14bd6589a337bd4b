--------------------------- MODULE JwksCache_proofs ---------------------------
(***************************************************************************)
(* For every set of keys and requests and all times that meet              *)
(* JwksAssumption: the types of JwksCache, for how long a withdrawn key is *)
(* accepted, that one refetch finds a new key, and for how long an outage  *)
(* is bridged.                                                             *)
(***************************************************************************)
EXTENDS JwksCache, TLAPS

(* One request at a time is at its fetch; only there has it read anything. *)
HolderInv ==
  /\ \A r, t \in Holder : r = t
  /\ \A r \in Requests : pc[r] # "answered" => got[r] = {}
  /\ \A r \in Requests : r \notin Holder => saw[r] = NoDoc /\ spent[r] = 0

(* How long ago a key that is cached, was read or was answered, and is no  *)
(* longer published, can have been withdrawn.                              *)
AgeOfKeys ==
  \A k \in Keys \ published :
    /\ k \in cache.keys /\ Usable(cache) => since[k] + cache.left <= TTL
    /\ \A r \in Requests :
         /\ k \in saw[r].keys /\ Usable(saw[r]) => since[k] + saw[r].left <= TTL + spent[r]
         /\ k \in got[r] => since[k] <= spent[r]

(* How long ago a fetch succeeded, by what is left of its document. *)
AgeOfFetch ==
  /\ age + cache.left >= TTL - FetchTime
  /\ \A r \in Holder : age + saw[r].left >= TTL - FetchTime

(* A key that was published has a date, and is in the answer to whoever    *)
(* asks for it while it is.                                                *)
KnownKeys ==
  /\ \A k \in published : since[k] # Never
  /\ \A r \in Requests : known[r] => since[kid[r]] # Never
  /\ \A r \in Requests :
       pc[r] = "answered" /\ known[r] /\ kid[r] \in published => kid[r] \in got[r]

IInv == TypeOK /\ HolderInv /\ AgeOfKeys /\ AgeOfFetch /\ KnownKeys

----------------------------------------------------------------------------
(* Constants and documents *)

LEMMA Times ==
  /\ TTL \in Nat \ {0} /\ Grace \in Nat /\ FetchTime \in Nat /\ Long \in Nat
  /\ Horizon = TTL + Grace + FetchTime /\ Horizon <= Long /\ FetchTime <= TTL
  /\ Never = Long + 1 /\ First \in Keys
  BY JwksAssumption DEF Horizon, Never

LEMMA DocType ==
  /\ NoDoc \in Doc /\ NoDoc.keys = {} /\ NoDoc.left = -Grace
  /\ \A d \in Doc : d.keys \subseteq Keys /\ d.left \in (-Grace)..TTL
  /\ \A K \in SUBSET Keys, n \in (-Grace)..TTL : [keys |-> K, left |-> n] \in Doc
  BY Times DEF Doc, NoDoc

LEMMA OlderType ==
  ASSUME NEW n \in 0..Never
  PROVE  /\ Older(n) \in 0..Never /\ Older(n) >= n /\ Older(n) <= n + 1
         /\ Older(n) = Never <=> n = Never
         /\ n < Long => Older(n) = n + 1
  BY Times DEF Older

----------------------------------------------------------------------------
(* Types *)

LEMMA InitType == Init => TypeOK
  BY Times, DocType DEF Init, TypeOK, Points

LEMMA ReleaseType ==
  ASSUME TypeOK, NEW r \in Requests, Release(r)
  PROVE  /\ saw' \in [Requests -> Doc] /\ spent' \in [Requests -> 0..FetchTime]
         /\ got' \in [Requests -> SUBSET Keys]
  BY Times, DocType DEF TypeOK, Release

LEMMA ResolveType ==
  ASSUME TypeOK, NEW r \in Requests, NEW d, Resolve(r, d)
  PROVE  /\ pc' \in [Requests -> Points] /\ forced' \in [Requests -> BOOLEAN]
         /\ saw' \in [Requests -> Doc] /\ spent' \in [Requests -> 0..FetchTime]
         /\ got' \in [Requests -> SUBSET Keys]
  BY ReleaseType DEF TypeOK, Resolve, Verdict, Points, Verdicts

LEMMA TypeNext == TypeOK /\ [Next]_vars => TypeOK'
  <1> SUFFICES ASSUME TypeOK, [Next]_vars PROVE TypeOK'
    OBVIOUS
  <1> USE DEF TypeOK, upstream
  <1>1. ASSUME NEW r \in Requests, NEW k \in Keys, Verify(r, k) PROVE TypeOK'
    BY <1>1 DEF Verify, Points, Verdicts
  <1>2. ASSUME NEW r \in Requests, Acquire(r) PROVE TypeOK'
    BY <1>2, ResolveType DEF Acquire, Points
  <1>3. ASSUME NEW r \in Requests, Answer(r) PROVE TypeOK'
    BY <1>3 DEF Answer, Points
  <1>4. ASSUME NEW r \in Requests, Store(r) PROVE TypeOK'
    <2>1. Kept(r) \in (-Grace)..TTL
      BY Times DEF Kept
    <2>2. cache' \in Doc
      BY <1>4, <2>1, DocType DEF Store
    <2> QED BY <1>4, <2>2, ResolveType, Times DEF Store
  <1>5. ASSUME NEW r \in Requests, Fail(r) PROVE TypeOK'
    BY <1>5, ResolveType, ReleaseType DEF Fail, Points, Verdicts
  <1>6. ASSUME NEW r \in Requests, Leave(r) PROVE TypeOK'
    BY <1>6, Times DEF Leave, Points
  <1>7. ASSUME NEW k \in Keys, Publish(k) \/ Withdraw(k) PROVE TypeOK'
    BY <1>7, Times DEF Publish, Withdraw, request
  <1>8. CASE Elapse
    <2>1. since' \in [Keys -> 0..Never]
      BY <1>8, OlderType DEF Elapse
    <2>2. age' \in 0..Long
      BY <1>8, Times DEF Elapse, Older
    <2>3. cache' \in Doc
      <3> DEFINE n == IF cache.left > -Grace THEN cache.left - 1 ELSE cache.left
      <3>1. cache' = [cache EXCEPT !.left = n]
        BY <1>8 DEF Elapse
      <3>2. cache.left \in (-Grace)..TTL /\ cache.keys \in SUBSET Keys
        BY DocType
      <3>3. n \in (-Grace)..TTL
        BY <3>2, Times
      <3> HIDE DEF n
      <3>4. cache' = [keys |-> cache.keys, left |-> n]
        BY <3>1 DEF Doc
      <3> QED BY <3>2, <3>3, <3>4, DocType
    <2>4. spent' \in [Requests -> 0..FetchTime]
      BY <1>8, Times DEF Elapse
    <2> QED BY <1>8, <2>1, <2>2, <2>3, <2>4 DEF Elapse
  <1>9. CASE UNCHANGED vars
    BY <1>9 DEF vars, request
  <1> QED BY <1>1, <1>2, <1>3, <1>4, <1>5, <1>6, <1>7, <1>8, <1>9 DEF Next, Step

(* In every reachable state the cache and the requests are well typed; in  *)
(* particular a document never has more left than its time to live.        *)
THEOREM TypeCorrect == Spec => []TypeOK
  BY InitType, TypeNext, PTL DEF Spec

----------------------------------------------------------------------------
(* The invariant *)

LEMMA InitInv == Init => IInv
  <1> SUFFICES ASSUME Init PROVE HolderInv /\ AgeOfKeys /\ AgeOfFetch /\ KnownKeys
    BY InitType DEF IInv
  <1>1. Holder = {}
    BY DEF Init, Holder
  <1>2. HolderInv
    BY <1>1 DEF Init, HolderInv
  <1>3. AgeOfKeys
    BY Times, DocType DEF Init, AgeOfKeys, Usable
  <1>4. AgeOfFetch
    BY <1>1, Times, DocType DEF Init, AgeOfFetch
  <1>5. KnownKeys
    BY Times DEF Init, KnownKeys
  <1> QED BY <1>2, <1>3, <1>4, <1>5

(* A request that leaves its fetch holds nothing more. *)
LEMMA HolderReleases ==
  ASSUME TypeOK, HolderInv, NEW r \in Requests, Release(r), pc' = [pc EXCEPT ![r] = pc'[r]],
         pc'[r] \notin {"fetching", "answered"}
  PROVE  /\ HolderInv'
         /\ \A t \in Requests \ {r} : saw'[t] = saw[t] /\ spent'[t] = spent[t] /\ got'[t] = got[t]
         /\ saw'[r] = NoDoc /\ spent'[r] = 0 /\ got'[r] = {}
         /\ Holder' = Holder \ {r}
  <1>1. /\ \A t \in Requests \ {r} : /\ saw'[t] = saw[t] /\ spent'[t] = spent[t] /\ got'[t] = got[t]
                                     /\ pc'[t] = pc[t]
        /\ saw'[r] = NoDoc /\ spent'[r] = 0 /\ got'[r] = {}
    BY DEF TypeOK, Release
  <1>2. Holder' = Holder \ {r}
    BY <1>1 DEF Holder
  <1>3. HolderInv'
    BY <1>1, <1>2 DEF HolderInv
  <1> QED BY <1>1, <1>2, <1>3

LEMMA ResolveReleases ==
  ASSUME TypeOK, NEW r \in Requests, NEW d, Resolve(r, d)
  PROVE  /\ Release(r) /\ pc' = [pc EXCEPT ![r] = pc'[r]]
         /\ pc'[r] \in {"accepted", "invalid", "waiting"}
  BY DEF TypeOK, Resolve, Verdict

(* What holds of the keys and the fetch still does when nothing is added   *)
(* to the cache and to what was read.                                      *)
LEMMA ReleaseKeeps ==
  ASSUME IInv, NEW r \in Requests, Release(r), pc' = [pc EXCEPT ![r] = pc'[r]],
         pc'[r] \notin {"fetching", "answered"},
         UNCHANGED <<upstream, cache, age, kid, known>>
  PROVE  HolderInv' /\ AgeOfKeys' /\ AgeOfFetch' /\ KnownKeys'
  <1> USE DEF IInv, upstream
  <1>1. /\ HolderInv'
        /\ \A t \in Requests \ {r} : saw'[t] = saw[t] /\ spent'[t] = spent[t] /\ got'[t] = got[t]
        /\ saw'[r] = NoDoc /\ spent'[r] = 0 /\ got'[r] = {}
        /\ Holder' = Holder \ {r}
    BY HolderReleases
  <1>2. AgeOfKeys'
    BY <1>1, DocType DEF AgeOfKeys, Usable
  <1>3. AgeOfFetch'
    BY <1>1 DEF AgeOfFetch, Holder
  <1>4. KnownKeys'
    BY <1>1 DEF KnownKeys, TypeOK
  <1> QED BY <1>1, <1>2, <1>3, <1>4

LEMMA NextInv == IInv /\ [Next]_vars => IInv'
  <1> SUFFICES ASSUME IInv, [Next]_vars PROVE HolderInv' /\ AgeOfKeys' /\ AgeOfFetch' /\ KnownKeys'
    BY TypeNext DEF IInv
  <1> DEFINE Goal == HolderInv' /\ AgeOfKeys' /\ AgeOfFetch' /\ KnownKeys'
  <1> USE DEF IInv
  <1>1. ASSUME NEW r \in Requests, NEW k \in Keys, Verify(r, k) PROVE Goal
    <2>1. Holder' = Holder /\ \A t \in Requests : (pc'[t] = "answered") = (pc[t] = "answered")
      BY <1>1 DEF Verify, Holder, TypeOK
    <2>2. HolderInv'
      BY <1>1, <2>1 DEF Verify, HolderInv
    <2>3. AgeOfKeys' /\ AgeOfFetch'
      BY <1>1, <2>1 DEF Verify, AgeOfKeys, AgeOfFetch, Usable, upstream
    <2>4. KnownKeys'
      BY <1>1, <2>1 DEF Verify, KnownKeys, TypeOK, upstream
    <2> QED BY <2>2, <2>3, <2>4
  <1>2. ASSUME NEW r \in Requests, Acquire(r) PROVE Goal
    <2>1. CASE Resolve(r, cache.keys)
      <3>1. /\ Release(r) /\ pc' = [pc EXCEPT ![r] = pc'[r]] /\ pc'[r] \notin {"fetching", "answered"}
            /\ UNCHANGED <<upstream, cache, age, kid, known>>
        BY <1>2, <2>1, ResolveReleases DEF Acquire
      <3> QED BY <3>1, ReleaseKeeps
    <2>2. CASE pc' = [pc EXCEPT ![r] = "fetching"] /\ saw' = [saw EXCEPT ![r] = cache]
                 /\ UNCHANGED <<forced, spent, got>>
      <3>1. Holder = {} /\ UNCHANGED <<upstream, cache, age, kid, known>> /\ pc[r] = "waiting"
        BY <1>2 DEF Acquire
      <3>2. Holder' = {r} /\ \A t \in Requests : pc'[t] # "answered"
        BY <2>2, <3>1 DEF Holder, TypeOK
      <3>3. HolderInv'
        BY <2>2, <3>1, <3>2 DEF HolderInv, TypeOK, Holder
      <3>4. spent[r] = 0
        BY <3>1 DEF HolderInv
      <3>5. AgeOfKeys'
        <4> SUFFICES ASSUME NEW k \in Keys \ published
                     PROVE  /\ k \in cache.keys /\ Usable(cache) => since[k] + cache.left <= TTL
                            /\ \A t \in Requests :
                                 /\ k \in saw'[t].keys /\ Usable(saw'[t])
                                      => since[k] + saw'[t].left <= TTL + spent[t]
                                 /\ k \in got[t] => since[k] <= spent[t]
          BY <2>2, <3>1 DEF AgeOfKeys, Usable, upstream
        <4>1. k \in cache.keys /\ Usable(cache) => since[k] + cache.left <= TTL
          BY DEF AgeOfKeys
        <4>2. saw'[r] = cache /\ \A t \in Requests \ {r} : saw'[t] = saw[t]
          BY <2>2 DEF TypeOK
        <4>3. k \in saw'[r].keys /\ Usable(saw'[r]) => since[k] + saw'[r].left <= TTL + spent[r]
          BY <3>4, <4>1, <4>2, Times
        <4>4. \A t \in Requests \ {r} :
                k \in saw'[t].keys /\ Usable(saw'[t]) => since[k] + saw'[t].left <= TTL + spent[t]
          BY <4>2 DEF AgeOfKeys
        <4> QED BY <4>1, <4>3, <4>4 DEF AgeOfKeys
      <3>6. AgeOfFetch'
        BY <2>2, <3>1, <3>2 DEF AgeOfFetch, TypeOK
      <3>7. KnownKeys'
        BY <3>1, <3>2 DEF KnownKeys, upstream
      <3> QED BY <3>3, <3>5, <3>6, <3>7
    <2> QED BY <1>2, <2>1, <2>2 DEF Acquire
  <1>3. ASSUME NEW r \in Requests, Answer(r) PROVE Goal
    <2>1. /\ got' = [got EXCEPT ![r] = published] /\ pc' = [pc EXCEPT ![r] = "answered"]
          /\ pc[r] = "fetching" /\ UNCHANGED <<upstream, cache, age, kid, saw, spent, known>>
      BY <1>3 DEF Answer
    <2>2. Holder' = Holder
      BY <2>1 DEF Holder, TypeOK
    <2>3. HolderInv'
      BY <2>1, <2>2 DEF HolderInv, TypeOK
    <2>4. AgeOfKeys' /\ AgeOfFetch'
      BY <2>1, <2>2 DEF AgeOfKeys, AgeOfFetch, Usable, TypeOK, upstream
    <2>5. KnownKeys'
      BY <2>1 DEF KnownKeys, TypeOK, upstream
    <2> QED BY <2>3, <2>4, <2>5
  <1>4. ASSUME NEW r \in Requests, Store(r) PROVE Goal
    <2>1. /\ pc[r] = "answered" /\ cache' = [keys |-> got[r], left |-> TTL - spent[r]] /\ age' = 0
          /\ UNCHANGED <<upstream, kid, known>>
          /\ Release(r) /\ pc' = [pc EXCEPT ![r] = pc'[r]] /\ pc'[r] \notin {"fetching", "answered"}
      BY <1>4, ResolveReleases DEF Store, Kept
    <2>2. /\ HolderInv'
          /\ \A t \in Requests \ {r} : saw'[t] = saw[t] /\ spent'[t] = spent[t] /\ got'[t] = got[t]
          /\ saw'[r] = NoDoc /\ spent'[r] = 0 /\ got'[r] = {}
          /\ Holder' = Holder \ {r}
      BY <2>1, HolderReleases
    <2>3. Holder' = {}
      BY <2>1, <2>2 DEF HolderInv, Holder
    <2>4. spent[r] \in 0..FetchTime /\ cache'.keys = got[r] /\ cache'.left = TTL - spent[r]
      BY <2>1 DEF TypeOK
    <2>5. \A k \in Keys \ published : k \in got[r] => since[k] \in Nat /\ since[k] <= spent[r]
      BY Times DEF AgeOfKeys, TypeOK
    <2>6. AgeOfKeys'
      <3>1. \A k \in Keys \ published : k \in cache'.keys => since[k] + cache'.left <= TTL
        BY <2>4, <2>5, Times
      <3>2. \A k \in Keys \ published : \A t \in Requests :
              /\ k \in saw'[t].keys /\ Usable(saw'[t]) => since[k] + saw'[t].left <= TTL + spent'[t]
              /\ k \in got'[t] => since[k] <= spent'[t]
        BY <2>2, DocType DEF AgeOfKeys
      <3> QED BY <2>1, <3>1, <3>2 DEF AgeOfKeys, upstream, Usable
    <2>7. AgeOfFetch'
      BY <2>1, <2>3, <2>4, Times DEF AgeOfFetch
    <2>8. KnownKeys'
      BY <2>1, <2>2 DEF KnownKeys, TypeOK, upstream
    <2> QED BY <2>2, <2>6, <2>7, <2>8
  <1>5. ASSUME NEW r \in Requests, Fail(r) PROVE Goal
    <2>1. /\ Release(r) /\ pc' = [pc EXCEPT ![r] = pc'[r]] /\ pc'[r] \notin {"fetching", "answered"}
          /\ UNCHANGED <<upstream, cache, age, kid, known>>
      BY <1>5, ResolveReleases DEF Fail, TypeOK
    <2> QED BY <2>1, ReleaseKeeps
  <1>6. ASSUME NEW r \in Requests, Leave(r) PROVE Goal
    <2>1. Holder' = Holder /\ \A t \in Requests : (pc'[t] = "answered") = (pc[t] = "answered")
      BY <1>6 DEF Leave, Holder, TypeOK, Verdicts
    <2>2. HolderInv'
      BY <1>6, <2>1 DEF Leave, HolderInv
    <2>3. AgeOfKeys' /\ AgeOfFetch'
      BY <1>6, <2>1 DEF Leave, AgeOfKeys, AgeOfFetch, Usable, upstream
    <2>4. KnownKeys'
      BY <1>6, <2>1 DEF Leave, KnownKeys, TypeOK, upstream
    <2> QED BY <2>2, <2>3, <2>4
  <1>7. ASSUME NEW k \in Keys, Publish(k) PROVE Goal
    <2>1. /\ k \notin published /\ since[k] = Never /\ published' = published \cup {k}
          /\ since' = [since EXCEPT ![k] = 0] /\ UNCHANGED <<cache, age, request>>
      BY <1>7 DEF Publish
    <2>2. HolderInv' /\ AgeOfFetch'
      BY <2>1 DEF HolderInv, AgeOfFetch, Holder, request
    <2>3. AgeOfKeys'
      BY <2>1 DEF AgeOfKeys, Usable, TypeOK, request
    <2>4. KnownKeys'
      BY <2>1, Times DEF KnownKeys, TypeOK, request
    <2> QED BY <2>2, <2>3, <2>4
  <1>8. ASSUME NEW k \in Keys, Withdraw(k) PROVE Goal
    <2>1. /\ published' = published \ {k}
          /\ since' = [since EXCEPT ![k] = 0] /\ UNCHANGED <<cache, age, request>>
      BY <1>8 DEF Withdraw
    <2>2. HolderInv' /\ AgeOfFetch'
      BY <2>1 DEF HolderInv, AgeOfFetch, Holder, request
    <2>3. AgeOfKeys'
      <3>1. cache.left <= TTL /\ cache.left \in Int
        BY DocType DEF TypeOK
      <3>2. \A r \in Requests : saw[r].left \in Int /\ saw[r].left <= TTL /\ spent[r] \in Nat
        BY DocType, Times DEF TypeOK
      <3>3. since'[k] = 0 /\ \A x \in Keys \ {k} : since'[x] = since[x]
        BY <2>1 DEF TypeOK
      <3> QED BY <2>1, <3>1, <3>2, <3>3, Times DEF AgeOfKeys, Usable, request
    <2>4. KnownKeys'
      BY <2>1, Times DEF KnownKeys, TypeOK, request
    <2> QED BY <2>2, <2>3, <2>4
  <1>9. CASE Elapse
    <2>1. UNCHANGED <<published, pc, kid, forced, saw, got, known, fault>> /\ Holder' = Holder
      BY <1>9 DEF Elapse, Holder
    <2>2. \A x \in Keys : since[x] \in 0..Never /\ since'[x] \in 0..Never
                            /\ since'[x] <= since[x] + 1 /\ (since'[x] = Never <=> since[x] = Never)
      BY <1>9, OlderType DEF Elapse, TypeOK
    <2>3. \A r \in Requests : spent'[r] = IF r \in Holder THEN spent[r] + 1 ELSE spent[r]
      BY <1>9 DEF Elapse
    <2>4. cache'.keys = cache.keys /\ cache'.left = IF cache.left > -Grace THEN cache.left - 1 ELSE cache.left
      BY <1>9 DEF Elapse, TypeOK, Doc
    <2>5. HolderInv'
      BY <2>1, <2>3 DEF HolderInv
    <2>6. AgeOfKeys'
      <3>1. cache.left \in Int /\ \A r \in Requests : saw[r].left \in Int /\ spent[r] \in Nat
        BY DocType, Times DEF TypeOK
      <3> SUFFICES ASSUME NEW x \in Keys \ published
                   PROVE  /\ x \in cache'.keys /\ Usable(cache') => since'[x] + cache'.left <= TTL
                          /\ \A r \in Requests :
                               /\ x \in saw[r].keys /\ Usable(saw[r]) => since'[x] + saw[r].left <= TTL + spent'[r]
                               /\ x \in got[r] => since'[x] <= spent'[r]
        BY <2>1 DEF AgeOfKeys, Usable
      <3>2. x \in cache'.keys /\ Usable(cache') => since'[x] + cache'.left <= TTL
        BY <2>2, <2>4, <3>1, Times DEF AgeOfKeys, Usable
      <3> SUFFICES ASSUME NEW r \in Requests
                   PROVE  /\ x \in saw[r].keys /\ Usable(saw[r]) => since'[x] + saw[r].left <= TTL + spent'[r]
                          /\ x \in got[r] => since'[x] <= spent'[r]
        BY <3>2
      <3>3. CASE r \in Holder
        BY <2>2, <2>3, <3>1, <3>3, Times DEF AgeOfKeys
      <3>4. CASE r \notin Holder
        BY <3>4, DocType DEF HolderInv, Holder
      <3> QED BY <3>3, <3>4
    <2>7. AgeOfFetch'
      <3>1. cache.left \in (-Grace)..TTL /\ \A r \in Requests : saw[r].left \in (-Grace)..TTL
        BY DocType DEF TypeOK
      <3>2. age \in 0..Long /\ age' = Older(age) /\ age' = IF age < Long THEN age + 1 ELSE age
        BY <1>9 DEF Elapse, TypeOK, Older
      <3>3. age' + cache'.left >= TTL - FetchTime
        BY <2>4, <3>1, <3>2, Times DEF AgeOfFetch
      <3>4. Holder \subseteq Requests
        BY DEF Holder
      <3>5. \A r \in Holder : age' + saw[r].left >= TTL - FetchTime
        BY <3>1, <3>2, <3>4, Times DEF AgeOfFetch
      <3> QED BY <2>1, <3>3, <3>5 DEF AgeOfFetch
    <2>8. KnownKeys'
      BY <2>1, <2>2 DEF KnownKeys, TypeOK
    <2> QED BY <2>5, <2>6, <2>7, <2>8
  <1>10. CASE UNCHANGED vars
    BY <1>10 DEF vars, upstream, request, HolderInv, Holder, AgeOfKeys, AgeOfFetch, KnownKeys, Usable
  <1> QED BY <1>1, <1>2, <1>3, <1>4, <1>5, <1>6, <1>7, <1>8, <1>9, <1>10 DEF Next, Step

----------------------------------------------------------------------------
(* What a request is answered *)

(* A step gives a verdict only by looking into the cache, by the answer of *)
(* the fetch, or by its failure.                                           *)
LEMMA VerdictCases ==
  ASSUME TypeOK, Next, NEW r \in Requests, pc'[r] # pc[r], pc'[r] \in Verdicts
  PROVE  \/ pc'[r] = "accepted" /\ Fresh(cache) /\ kid'[r] \in cache.keys /\ kid'[r] \in Keys
         \/ Store(r) \/ Fail(r)
  <1> USE DEF TypeOK, Verdicts
  <1>1. ASSUME NEW t \in Requests, NEW k \in Keys, Verify(t, k) PROVE t = r => pc'[r] = "accepted" /\ Fresh(cache) /\ kid'[r] \in cache.keys /\ kid'[r] \in Keys
    BY <1>1 DEF Verify
  <1>2. ASSUME Acquire(r) PROVE pc'[r] = "accepted" /\ Fresh(cache) /\ kid'[r] \in cache.keys /\ kid'[r] \in Keys
    BY <1>2 DEF Acquire, Resolve, Verdict, Skips
  <1>3. ASSUME NEW t \in Requests \ {r}, NEW k \in Keys, Verify(t, k) PROVE pc'[r] = pc[r]
    BY <1>3 DEF Verify
  <1>4. ASSUME NEW t \in Requests \ {r}, Acquire(t) \/ Answer(t) \/ Store(t) \/ Fail(t) \/ Leave(t)
        PROVE  pc'[r] = pc[r]
    BY <1>4 DEF Acquire, Answer, Store, Fail, Leave, Resolve
  <1>5. ~Answer(r) /\ ~Leave(r)
    BY DEF Answer, Leave
  <1>6. ~Elapse /\ ~\E k \in Keys : Publish(k) \/ Withdraw(k)
    BY DEF Elapse, Publish, Withdraw, request
  <1> QED BY <1>1, <1>2, <1>3, <1>4, <1>5, <1>6 DEF Next, Step

(* Whose key was withdrawn for as long as the time to live, the grace and  *)
(* a fetch is refused, whatever was cached, served stale or refetched.     *)
THEOREM WithdrawnKeysDie == Spec => WithdrawnKeyDies
  <1>1. IInv /\ [Next]_vars =>
          [\A r \in Requests : pc[r] # "accepted" /\ pc'[r] = "accepted" =>
             kid'[r] \in published \/ since[kid'[r]] < Horizon]_vars
    <2> SUFFICES ASSUME IInv, Next, NEW r \in Requests, pc[r] # "accepted", pc'[r] = "accepted",
                        kid'[r] \notin published
                 PROVE  since[kid'[r]] < Horizon
      OBVIOUS
    <2> USE DEF IInv
    <2>0. \A k \in Keys : since[k] \in Nat
      BY Times DEF TypeOK
    <2>1. CASE Fresh(cache) /\ kid'[r] \in cache.keys /\ kid'[r] \in Keys
      <3>1. cache.left \in Int
        BY DocType DEF TypeOK
      <3> QED BY <2>0, <2>1, <3>1, Times DEF AgeOfKeys, Fresh, Usable
    <2>2. CASE Store(r)
      <3>1. kid'[r] \in Keys /\ kid'[r] \in got[r] /\ spent[r] \in 0..FetchTime
        BY <2>2 DEF Store, Resolve, Verdict, TypeOK
      <3> QED BY <2>0, <3>1, Times DEF AgeOfKeys
    <2>3. CASE Fail(r)
      <3>1. kid'[r] \in Keys /\ kid'[r] \in saw[r].keys /\ Usable(saw[r])
        BY <2>3 DEF Fail, Serves, Resolve, Verdict, TypeOK
      <3>2. saw[r].left \in Int /\ spent[r] \in 0..FetchTime
        BY DocType DEF TypeOK
      <3> QED BY <2>0, <3>1, <3>2, Times DEF AgeOfKeys, Usable
    <2> QED BY <2>1, <2>2, <2>3, VerdictCases DEF Verdicts
  <1> QED BY InitInv, NextInv, <1>1, PTL DEF Spec, WithdrawnKeyDies

(* A token is refused as invalid only if its key is unknown, withdrawn, or *)
(* a fetch failed: one refetch is enough.                                  *)
THEOREM OneRefetchIsEnough == Spec => OneRefetchSuffices
  <1>1. IInv /\ [Next]_vars =>
          [\A r \in Requests : pc[r] # "invalid" /\ pc'[r] = "invalid" =>
             ~known[r] \/ kid[r] \notin published \/ fault'[r]]_vars
    <2> SUFFICES ASSUME IInv, Next, NEW r \in Requests, pc[r] # "invalid", pc'[r] = "invalid",
                        known[r], kid[r] \in published
                 PROVE  fault'[r]
      OBVIOUS
    <2> USE DEF IInv, TypeOK
    <2>1. CASE Store(r)
      <3>1. kid[r] \in got[r]
        BY <2>1 DEF Store, KnownKeys
      <3> QED BY <2>1, <3>1 DEF Store, Resolve, Verdict
    <2>2. CASE Fail(r)
      BY <2>2 DEF Fail
    <2> QED BY <2>1, <2>2, VerdictCases DEF Verdicts
  <1> QED BY InitInv, NextInv, <1>1, PTL DEF Spec, OneRefetchSuffices

(* After a fetch that succeeded, an outage is bridged for the time to live *)
(* and the grace, less one fetch.                                          *)
THEOREM OutagesAreBridged == Spec => OutageIsBridged
  <1>1. IInv /\ [Next]_vars =>
          [\A r \in Requests : pc[r] # "unavailable" /\ pc'[r] = "unavailable" =>
             age >= TTL + Grace - FetchTime]_vars
    <2> SUFFICES ASSUME IInv, Next, NEW r \in Requests, pc[r] # "unavailable", pc'[r] = "unavailable"
                 PROVE  age >= TTL + Grace - FetchTime
      OBVIOUS
    <2> USE DEF IInv, TypeOK
    <2>1. ~Store(r)
      BY DEF Store, Resolve, Verdict
    <2>2. Fail(r)
      BY <2>1, VerdictCases DEF Verdicts
    <2>3. r \in Holder /\ ~Usable(saw[r])
      BY <2>2 DEF Fail, Resolve, Verdict, Serves
    <2>4. saw[r].left \in Int /\ saw[r].left <= -Grace
      BY <2>3, DocType, Times DEF Usable
    <2>5. age \in Nat /\ age + saw[r].left >= TTL - FetchTime
      BY <2>3, Times DEF AgeOfFetch
    <2> QED BY <2>4, <2>5, Times
  <1> QED BY InitInv, NextInv, <1>1, PTL DEF Spec, OutageIsBridged
=============================================================================
