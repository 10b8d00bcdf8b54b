------------------------------ MODULE KeyCache ------------------------------
(***************************************************************************)
(* internal/platform/middleware/auth.go: RequireAuth and RequireRole in    *)
(* front of the handlers, CognitoValidator.Validate, and its keyCache: the *)
(* public keys of the user pool, fetched from its JWKS when a token names  *)
(* a key that is not cached, by any number of requests at once.            *)
(*                                                                         *)
(* A request looks in the map under the read lock, releases it, and on a   *)
(* miss takes the write lock, fetches the key set over HTTP and replaces   *)
(* the map while it holds the lock.  The user pool rotates its keys as it  *)
(* likes.  What a token says beside its key is left open: it passes the    *)
(* tests of Validate and of the role, or not.                              *)
(***************************************************************************)
EXTENDS Naturals

CONSTANTS Kids,         \* key identifiers
          Requests,     \* the requests that may be served at once
          NoOne,        \* nobody holds the write lock
          MaxRotations, \* bound on the key rotations
          Faults        \* the kinds of failure that may occur

\* "fetch": a fetch fails or times out; "error": the answer is an error document,
\* which decodes as a key set without keys, because the status is not looked at
FaultKinds == {"fetch", "error"}

ASSUME KeyCacheAssumption ==
    /\ NoOne \notin Requests
    /\ MaxRotations \in Nat
    /\ Faults \subseteq FaultKinds

VARIABLES
    version,   \* rotations of the user pool so far
    jwks,      \* [0..MaxRotations -> SUBSET Kids]: the key sets it published
    keys,      \* the cached keys
    lock,      \* the request that holds the write lock
    pc,        \* per request: its next step
    kid,       \* per request: the key its token names
    response,  \* per request: the version of the key set it fetched
    answer,    \* per request: what became of the last one
    \* history, which no step reads:
    cached,    \* the version of the cached keys
    arrived,   \* per request: that version when it arrived
    stable     \* per request: its key has been published since it arrived, and
               \* its own fetch was not answered with an error document

vars == <<version, jwks, keys, lock, pc, kid, response, answer, cached, arrived, stable>>

\* in place of the version of a fetched key set
ErrorReply == MaxRotations + 1

\* "served": the handler gets the request; "forbidden": 403, the role is missing;
\* the rest are 401s: "rejected" for what the token is, "unknown" for a key that
\* is not in the key set, "failed" for a key set that could not be had
Answers == {"none", "served", "forbidden", "rejected", "unknown", "failed"}

TypeOK ==
    /\ version \in 0..MaxRotations
    /\ jwks \in [0..MaxRotations -> SUBSET Kids]
    /\ keys \in SUBSET Kids
    /\ lock \in Requests \cup {NoOne}
    /\ pc \in [Requests -> {"idle", "lookup", "lock", "fetch", "store", "verify"}]
    /\ kid \in [Requests -> Kids]
    /\ response \in [Requests -> (0..MaxRotations) \cup {ErrorReply}]
    /\ answer \in [Requests -> Answers]
    /\ cached \in 0..MaxRotations
    /\ arrived \in [Requests -> 0..MaxRotations]
    /\ stable \in [Requests -> BOOLEAN]

Init ==
    /\ version = 0
    /\ jwks \in [0..MaxRotations -> SUBSET Kids]
    /\ keys = {}
    /\ lock = NoOne
    /\ pc = [r \in Requests |-> "idle"]
    /\ kid \in [Requests -> Kids]
    /\ response = [r \in Requests |-> 0]
    /\ answer = [r \in Requests |-> "none"]
    /\ cached = 0
    /\ arrived = [r \in Requests |-> 0]
    /\ stable = [r \in Requests |-> FALSE]

\* the user pool publishes another key set
Rotate ==
    /\ version < MaxRotations
    /\ version' = version + 1
    /\ stable' = [r \in Requests |-> stable[r] /\ kid[r] \in jwks[version + 1]]
    /\ UNCHANGED <<jwks, keys, lock, pc, kid, response, answer, cached, arrived>>

\* a request whose bearer token names the key k comes to Validate
Arrive(r, k) ==
    /\ pc[r] = "idle"
    /\ pc' = [pc EXCEPT ![r] = "lookup"]
    /\ kid' = [kid EXCEPT ![r] = k]
    /\ answer' = [answer EXCEPT ![r] = "none"]
    /\ arrived' = [arrived EXCEPT ![r] = cached]
    /\ stable' = [stable EXCEPT ![r] = k \in jwks[version]]
    /\ UNCHANGED <<version, jwks, keys, lock, response, cached>>

\* mutant of Answer: no key and no error
AnswerNil(r, a) ==
    /\ pc' = [pc EXCEPT ![r] = "idle"]
    /\ answer' = [answer EXCEPT ![r] = IF a = "unknown" THEN "nil" ELSE a]

Answer(r, a) ==
    /\ pc' = [pc EXCEPT ![r] = "idle"]
    /\ answer' = [answer EXCEPT ![r] = a]

\* No token, a token that does not parse, or one not signed with RS256 is
\* refused before its key is looked up.
ArriveMalformed(r) ==
    /\ pc[r] = "idle"
    /\ Answer(r, "rejected")
    /\ UNCHANGED <<version, jwks, keys, lock, kid, response, cached, arrived, stable>>

\* get: RLock, read the map, RUnlock
Lookup(r) ==
    /\ pc[r] = "lookup"
    /\ lock = NoOne
    /\ pc' = [pc EXCEPT ![r] = IF kid[r] \in keys THEN "verify" ELSE "lock"]
    /\ UNCHANGED <<version, jwks, keys, lock, kid, response, answer, cached, arrived, stable>>

\* mutant of Lock: the key set is fetched before the lock is taken
LockLate(r) ==
    /\ pc[r] = "lock"
    /\ pc' = [pc EXCEPT ![r] = "fetch"]
    /\ UNCHANGED <<version, jwks, keys, lock, kid, response, answer, cached, arrived, stable>>

\* refresh: Lock
Lock(r) ==
    /\ pc[r] = "lock"
    /\ lock = NoOne
    /\ lock' = r
    /\ pc' = [pc EXCEPT ![r] = "fetch"]
    /\ UNCHANGED <<version, jwks, keys, kid, response, answer, cached, arrived, stable>>

\* the user pool answers with the key set it publishes now
Fetch(r) ==
    /\ pc[r] = "fetch"
    /\ response' = [response EXCEPT ![r] = version]
    /\ pc' = [pc EXCEPT ![r] = "store"]
    /\ UNCHANGED <<version, jwks, keys, lock, kid, answer, cached, arrived, stable>>

FetchError(r) ==
    /\ "error" \in Faults
    /\ pc[r] = "fetch"
    /\ response' = [response EXCEPT ![r] = ErrorReply]
    /\ pc' = [pc EXCEPT ![r] = "store"]
    /\ stable' = [stable EXCEPT ![r] = FALSE]
    /\ UNCHANGED <<version, jwks, keys, lock, kid, answer, cached, arrived>>

\* mutant of FetchFails: the lock is kept
FetchFailsLocked(r) ==
    /\ "fetch" \in Faults
    /\ pc[r] = "fetch"
    /\ Answer(r, "failed")
    /\ UNCHANGED <<version, jwks, keys, lock, kid, response, cached, arrived, stable>>

\* the fetch, or decoding the answer, fails: the deferred Unlock
FetchFails(r) ==
    /\ "fetch" \in Faults
    /\ pc[r] = "fetch"
    /\ lock' = NoOne
    /\ Answer(r, "failed")
    /\ UNCHANGED <<version, jwks, keys, kid, response, cached, arrived, stable>>

\* mutant of Fetched: the keys fetched are added to those in the map
FetchedToo(r) == keys \cup (IF response[r] = ErrorReply THEN {} ELSE jwks[response[r]])

Fetched(r) == IF response[r] = ErrorReply THEN {} ELSE jwks[response[r]]

\* mutant of Found: the key is looked for in the map the refresh replaces
FoundBefore(r) == kid[r] \in keys

Found(r) == kid[r] \in Fetched(r)

\* replace the map and look the key up in the new one; the deferred Unlock
Store(r) ==
    /\ pc[r] = "store"
    /\ keys' = Fetched(r)
    /\ cached' = IF response[r] = ErrorReply THEN cached ELSE response[r]
    /\ lock' = NoOne
    /\ IF Found(r)
       THEN pc' = [pc EXCEPT ![r] = "verify"] /\ UNCHANGED answer
       ELSE Answer(r, "unknown")
    /\ UNCHANGED <<version, jwks, kid, response, arrived, stable>>

\* The signature, the claims and the role are tested, with no shared state.
Verify(r) ==
    /\ pc[r] = "verify"
    /\ \E a \in {"served", "forbidden", "rejected"} : Answer(r, a)
    /\ UNCHANGED <<version, jwks, keys, lock, kid, response, cached, arrived, stable>>

Get(r) ==
    Lookup(r) \/ Lock(r) \/ Fetch(r) \/ FetchError(r) \/ FetchFails(r) \/ Store(r)

Next ==
    \/ Rotate
    \/ \E r \in Requests, k \in Kids : Arrive(r, k)
    \/ \E r \in Requests : ArriveMalformed(r) \/ Get(r) \/ Verify(r)

Spec == Init /\ [][Next]_vars

\* sync.RWMutex lets every waiting request have the lock in the end, and a fetch
\* ends within the client's timeout of 5 seconds.
Fairness ==
    \A r \in Requests :
        /\ SF_vars(Lookup(r))
        /\ SF_vars(Lock(r))
        /\ WF_vars(Fetch(r) \/ FetchError(r) \/ FetchFails(r))
        /\ WF_vars(Store(r))
        /\ WF_vars(Verify(r))

FairSpec == Spec /\ Fairness

-----------------------------------------------------------------------------
\* The cache is the key set the user pool published at one moment, or emptied by
\* an error document, and refreshes that overlap never bring an older one back.
CacheNeverGoesBack ==
    [][/\ cached' >= cached
       /\ \/ keys' = keys
          \/ keys' = jwks[cached']
          \/ keys' = {} /\ "error" \in Faults]_vars

\* A request whose key stays published while it is served is not told that the
\* key is unknown, whatever the refreshes of other requests put in the cache or
\* empty it with, unless its own fetch was answered with an error document.
PublishedKeyFound == \A r \in Requests : answer[r] = "unknown" => ~stable[r]

\* A retired key is refused from the first refresh on that brings a key set
\* without it: a request is served on a key of the key set that was cached when it
\* arrived, or of a later one (auth.go:127-170).
RetiredKeyRefused ==
    \A r \in Requests :
        answer[r] = "served" => \E v \in arrived[r]..version : kid[r] \in jwks[v]

\* A lookup that misses is answered, even when fetches of other requests fail.
EveryRequestAnswered == \A r \in Requests : pc[r] = "lookup" ~> pc[r] = "idle"
=============================================================================
