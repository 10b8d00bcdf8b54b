--------------------------- MODULE KeyCacheProofs ---------------------------
(***************************************************************************)
(* Theorems about KeyCache for any keys, requests, rotations and key sets. *)
(***************************************************************************)
EXTENDS KeyCache, TLAPS

\* Only the holder of the write lock fetches and stores.
LockInv == \A r \in Requests : pc[r] \in {"fetch", "store"} => lock = r

\* What a refresh is about to store is at least as new as the cache, or nothing.
VersionInv ==
    /\ cached <= version
    /\ \A r \in Requests :
        pc[r] = "store" /\ response[r] = ErrorReply => "error" \in Faults
    /\ \A r \in Requests :
        pc[r] = "store" /\ response[r] # ErrorReply =>
            cached <= response[r] /\ response[r] <= version

\* A key that stayed published is in the key set published now, and in the one
\* fetched meanwhile.
StableInv ==
    \A r \in Requests :
        /\ stable[r] /\ pc[r] # "idle" => kid[r] \in jwks[version]
        /\ stable[r] /\ pc[r] = "store" =>
            response[r] # ErrorReply /\ kid[r] \in jwks[response[r]]

\* What a request goes by is in a key set no older than the one cached when it
\* arrived.
KeyInv ==
    /\ keys \subseteq jwks[cached]
    /\ \A r \in Requests :
        /\ pc[r] # "idle" => arrived[r] <= cached
        /\ pc[r] = "verify" => \E v \in arrived[r]..version : kid[r] \in jwks[v]

CacheInv ==
    TypeOK /\ LockInv /\ VersionInv /\ StableInv /\ PublishedKeyFound
        /\ KeyInv /\ RetiredKeyRefused

LEMMA InitEstablishes == Init => CacheInv
BY KeyCacheAssumption
   DEF Init, CacheInv, TypeOK, Answers, LockInv, VersionInv, StableInv, PublishedKeyFound,
       KeyInv, RetiredKeyRefused

LEMMA RotatePreserves ==
    ASSUME CacheInv, Rotate
    PROVE  CacheInv'
<1> USE KeyCacheAssumption DEF CacheInv, TypeOK, Answers, ErrorReply, Rotate
<1>1. TypeOK'
  OBVIOUS
<1>2. LockInv' /\ VersionInv'
  BY DEF LockInv, VersionInv
<1>3. StableInv'
  BY DEF StableInv
<1>4. PublishedKeyFound'
  BY DEF PublishedKeyFound
<1>5. KeyInv'
  BY DEF KeyInv, VersionInv
<1>6. RetiredKeyRefused'
  BY DEF RetiredKeyRefused
<1> QED BY <1>1, <1>2, <1>3, <1>4, <1>5, <1>6

LEMMA ArrivePreserves ==
    ASSUME CacheInv, NEW r \in Requests, NEW k \in Kids, Arrive(r, k)
    PROVE  CacheInv'
<1> USE KeyCacheAssumption DEF CacheInv, TypeOK, Answers, ErrorReply, Arrive
<1>1. TypeOK'
  OBVIOUS
<1>2. LockInv' /\ VersionInv'
  BY DEF LockInv, VersionInv
<1>3. StableInv'
  BY DEF StableInv
<1>4. PublishedKeyFound'
  BY DEF PublishedKeyFound
<1>5. KeyInv'
  BY DEF KeyInv, VersionInv
<1>6. RetiredKeyRefused'
  BY DEF RetiredKeyRefused
<1> QED BY <1>1, <1>2, <1>3, <1>4, <1>5, <1>6

LEMMA LookupPreserves ==
    ASSUME CacheInv, NEW r \in Requests, Lookup(r) \/ Lock(r) \/ FetchFails(r)
    PROVE  CacheInv'
<1> USE KeyCacheAssumption DEF CacheInv, TypeOK, Answers, ErrorReply, Lookup, Lock, FetchFails, Answer
<1>1. TypeOK'
  OBVIOUS
<1>2. LockInv' /\ VersionInv'
  BY DEF LockInv, VersionInv
<1>3. StableInv'
  BY DEF StableInv
<1>4. PublishedKeyFound'
  BY DEF PublishedKeyFound
<1>5. KeyInv'
  <2>1. CASE Lookup(r)
    <3>1. /\ UNCHANGED <<version, jwks, keys, kid, cached, arrived>>
          /\ pc[r] = "lookup"
          /\ pc' = [pc EXCEPT ![r] = IF kid[r] \in keys THEN "verify" ELSE "lock"]
      BY <2>1
    <3>2. pc'[r] = "verify" => cached \in arrived[r]..version /\ kid[r] \in jwks[cached]
      BY <3>1 DEF KeyInv, VersionInv
    <3>3. \A q \in Requests \ {r} : pc'[q] = pc[q]
      BY <3>1
    <3> QED BY <3>1, <3>2, <3>3 DEF KeyInv
  <2>2. CASE Lock(r) \/ FetchFails(r)
    BY <2>2 DEF KeyInv
  <2> QED BY <2>1, <2>2
<1>6. RetiredKeyRefused'
  BY DEF RetiredKeyRefused
<1> QED BY <1>1, <1>2, <1>3, <1>4, <1>5, <1>6

LEMMA VerifyPreserves ==
    ASSUME CacheInv, NEW r \in Requests, ArriveMalformed(r) \/ Verify(r)
    PROVE  CacheInv'
<1> USE KeyCacheAssumption DEF CacheInv, TypeOK, Answers, ErrorReply, ArriveMalformed, Verify, Answer
<1>1. TypeOK'
  OBVIOUS
<1>2. LockInv' /\ VersionInv'
  BY DEF LockInv, VersionInv
<1>3. StableInv'
  BY DEF StableInv
<1>4. PublishedKeyFound'
  BY DEF PublishedKeyFound
<1>5. KeyInv'
  BY DEF KeyInv, VersionInv
<1>6. RetiredKeyRefused'
  BY DEF RetiredKeyRefused, KeyInv
<1> QED BY <1>1, <1>2, <1>3, <1>4, <1>5, <1>6

LEMMA FetchPreserves ==
    ASSUME CacheInv, NEW r \in Requests, Fetch(r) \/ FetchError(r)
    PROVE  CacheInv'
<1> USE KeyCacheAssumption DEF CacheInv, TypeOK, Answers, Fetch, FetchError, ErrorReply
<1>1. TypeOK'
  OBVIOUS
<1>2. LockInv' /\ VersionInv'
  <2>1. LockInv'
    BY DEF LockInv
  <2>2. /\ UNCHANGED <<version, cached>>
        /\ \A q \in Requests \ {r} : pc'[q] = pc[q] /\ response'[q] = response[q]
        /\ \/ response'[r] = version
           \/ response'[r] = ErrorReply /\ "error" \in Faults
    OBVIOUS
  <2>3. version # ErrorReply /\ cached \in Nat /\ version \in Nat
    OBVIOUS
  <2> HIDE DEF CacheInv, TypeOK, Fetch, FetchError, ErrorReply
  <2>4. VersionInv
    BY DEF CacheInv
  <2>5. VersionInv'
    BY <2>2, <2>3, <2>4 DEF VersionInv
  <2> QED BY <2>1, <2>5
<1>3. StableInv'
  BY DEF StableInv
<1>4. PublishedKeyFound'
  BY DEF PublishedKeyFound
<1>5. KeyInv'
  BY DEF KeyInv, VersionInv
<1>6. RetiredKeyRefused'
  BY DEF RetiredKeyRefused
<1> QED BY <1>1, <1>2, <1>3, <1>4, <1>5, <1>6

LEMMA StorePreserves ==
    ASSUME CacheInv, NEW r \in Requests, Store(r)
    PROVE  CacheInv'
<1> USE KeyCacheAssumption DEF CacheInv, TypeOK, Answers, Store, Answer, Found, Fetched, ErrorReply
<1>1. TypeOK'
  OBVIOUS
<1>2. LockInv' /\ VersionInv'
  BY DEF LockInv, VersionInv
<1>3. StableInv'
  BY DEF StableInv
<1>4. PublishedKeyFound'
  BY DEF PublishedKeyFound, StableInv
<1>5. KeyInv'
  BY DEF KeyInv, VersionInv
<1>6. RetiredKeyRefused'
  BY DEF RetiredKeyRefused
<1> QED BY <1>1, <1>2, <1>3, <1>4, <1>5, <1>6

\* The invariant of the cache and its write lock holds in every reachable state.
THEOREM CacheInvariance == Spec => []CacheInv
<1>1. CacheInv /\ [Next]_vars => CacheInv'
  <2> SUFFICES ASSUME CacheInv, [Next]_vars PROVE CacheInv'
    OBVIOUS
  <2>1. CASE UNCHANGED vars
    BY <2>1 DEF vars, CacheInv, TypeOK, LockInv, VersionInv, StableInv, PublishedKeyFound,
       KeyInv, RetiredKeyRefused
  <2> QED BY <2>1, RotatePreserves, ArrivePreserves, LookupPreserves, FetchPreserves,
             StorePreserves, VerifyPreserves DEF Next, Get
<1> QED BY <1>1, InitEstablishes, PTL DEF Spec

\* The cache, the published key sets and what each request holds keep their types:
\* at most one request has the write lock (auth.go).
THEOREM CacheTypeCorrect == Spec => []TypeOK
<1>1. CacheInv => TypeOK
  BY DEF CacheInv
<1> QED BY <1>1, CacheInvariance, PTL

\* A request whose key stays published while it is served is never told that
\* the key is unknown.
THEOREM PublishedKeysFound == Spec => []PublishedKeyFound
<1>1. CacheInv => PublishedKeyFound
  BY DEF CacheInv
<1> QED BY <1>1, CacheInvariance, PTL

\* A request is served on a key of the key set cached when it arrived, or of a
\* later one: the first refresh after a key is retired ends its use.
THEOREM RetiredKeysRefused == Spec => []RetiredKeyRefused
<1>1. CacheInv => RetiredKeyRefused
  BY DEF CacheInv
<1> QED BY <1>1, CacheInvariance, PTL

\* The cache only moves on to newer key sets, as published, or is emptied.
THEOREM CacheMovesForward == Spec => CacheNeverGoesBack
<1> DEFINE Forward ==
        /\ cached' >= cached
        /\ \/ keys' = keys
           \/ keys' = jwks[cached']
           \/ keys' = {} /\ "error" \in Faults
<1>1. CacheInv /\ [Next]_vars => [Forward]_vars
  <2> SUFFICES ASSUME CacheInv, Next PROVE Forward
    OBVIOUS
  <2>1. ASSUME NEW r \in Requests, Store(r)
        PROVE  Forward
    <3>1. CASE response[r] = ErrorReply
      BY <2>1, <3>1 DEF Store, Fetched, CacheInv, TypeOK, VersionInv
    <3>2. CASE response[r] # ErrorReply
      BY <2>1, <3>2 DEF Store, Fetched, CacheInv, TypeOK, VersionInv
    <3> QED BY <3>1, <3>2
  <2>2. CASE UNCHANGED <<keys, cached>>
    BY <2>2 DEF CacheInv, TypeOK
  <2> QED BY <2>1, <2>2
          DEF Next, Rotate, Arrive, ArriveMalformed, Get, Lookup, Lock, Fetch, FetchError,
              FetchFails, Verify
<1> QED BY <1>1, CacheInvariance, PTL DEF Spec, CacheNeverGoesBack

-----------------------------------------------------------------------------
(* What EveryRequestAnswered rests on, short of fairness.                  *)

\* the write lock is held exactly while its holder refreshes the map
LockHeldToRefresh ==
    \A r \in Requests : lock = r <=> pc[r] \in {"fetch", "store"}

\* the steps a request has before it at most, waiting for the lock left aside
StepsLeft(r) == [idle |-> 0, verify |-> 1, store |-> 2, fetch |-> 3, lock |-> 4, lookup |-> 5][pc[r]]

\* A step of one request is a step of no other, and brings it nearer its answer.
RequestsMoveOn ==
    \A r \in Requests :
        pc[r] # "idle" /\ pc'[r] # pc[r] =>
            /\ StepsLeft(r)' < StepsLeft(r)
            /\ \A q \in Requests \ {r} : pc'[q] = pc[q]

\* No error path of refresh leaves the lock behind: it is taken, and it is held,
\* by nobody who is not about to fetch or store (auth.go:127-170).
THEOREM LockNeverOrphaned == Spec => []LockHeldToRefresh
<1>1. Init => LockHeldToRefresh
  BY KeyCacheAssumption DEF Init, LockHeldToRefresh
<1>2. CacheInv /\ LockHeldToRefresh /\ [Next]_vars => LockHeldToRefresh'
  <2> SUFFICES ASSUME CacheInv, LockHeldToRefresh, [Next]_vars PROVE LockHeldToRefresh'
    OBVIOUS
  <2> USE KeyCacheAssumption DEF CacheInv, TypeOK, LockHeldToRefresh
  <2>1. ASSUME NEW r \in Requests, NEW k \in Kids, Arrive(r, k) PROVE LockHeldToRefresh'
    BY <2>1 DEF Arrive
  <2>2. ASSUME NEW r \in Requests, ArriveMalformed(r) \/ Verify(r) PROVE LockHeldToRefresh'
    BY <2>2 DEF ArriveMalformed, Verify, Answer
  <2>3. ASSUME NEW r \in Requests, Lookup(r) \/ Lock(r) PROVE LockHeldToRefresh'
    BY <2>3 DEF Lookup, Lock
  <2>4. ASSUME NEW r \in Requests, Fetch(r) \/ FetchError(r) PROVE LockHeldToRefresh'
    BY <2>4 DEF Fetch, FetchError
  <2>5. ASSUME NEW r \in Requests, FetchFails(r) \/ Store(r) PROVE LockHeldToRefresh'
    BY <2>5 DEF FetchFails, Store, Answer
  <2>6. CASE Rotate \/ UNCHANGED vars
    BY <2>6 DEF Rotate, vars
  <2> QED BY <2>1, <2>2, <2>3, <2>4, <2>5, <2>6 DEF Next, Get
<1> QED BY <1>1, <1>2, CacheInvariance, PTL DEF Spec

\* A request is answered within five steps of its own, of which two hold the
\* lock, and no retry starts over: with the lock handed on fairly and a client
\* timeout on the fetch, every request is answered (auth.go:76-170).
THEOREM RequestsNeverStartOver == Spec => [][RequestsMoveOn]_vars
<1>1. CacheInv /\ [Next]_vars => [RequestsMoveOn]_vars
  <2> SUFFICES ASSUME CacheInv, Next PROVE RequestsMoveOn
    OBVIOUS
  <2> USE DEF CacheInv, TypeOK, RequestsMoveOn, StepsLeft
  <2>1. ASSUME NEW r \in Requests, NEW k \in Kids, Arrive(r, k) PROVE RequestsMoveOn
    BY <2>1 DEF Arrive
  <2>2. ASSUME NEW r \in Requests, ArriveMalformed(r) \/ Verify(r) PROVE RequestsMoveOn
    BY <2>2 DEF ArriveMalformed, Verify, Answer
  <2>3. ASSUME NEW r \in Requests, Lookup(r) \/ Lock(r) PROVE RequestsMoveOn
    BY <2>3 DEF Lookup, Lock
  <2>4. ASSUME NEW r \in Requests, Fetch(r) \/ FetchError(r) PROVE RequestsMoveOn
    BY <2>4 DEF Fetch, FetchError
  <2>5. ASSUME NEW r \in Requests, FetchFails(r) \/ Store(r) PROVE RequestsMoveOn
    BY <2>5 DEF FetchFails, Store, Answer
  <2>6. CASE Rotate
    BY <2>6 DEF Rotate
  <2> QED BY <2>1, <2>2, <2>3, <2>4, <2>5, <2>6 DEF Next, Get
<1> QED BY <1>1, CacheInvariance, PTL DEF Spec
=============================================================================
