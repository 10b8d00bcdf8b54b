---------------------------- MODULE RateLimiter ----------------------------
(***************************************************************************)
(* IPRateLimiter (internal/platform/middleware/ratelimit.go), in front of  *)
(* every route of the Validator API: a map from client address to a token  *)
(* bucket of golang.org/x/time/rate, whose unused entries are evicted.     *)
(*                                                                         *)
(* The map is guarded by a mutex, but a request uses its bucket after the  *)
(* mutex is released.  One tick is the time in which a bucket gains one    *)
(* token (1/rate); the library computes the refill when asked, which is the*)
(* same as refilling at every tick.                                        *)
(***************************************************************************)
EXTENDS Naturals

CONSTANTS IPs, NoIP,           \* client addresses
          Requests,            \* the requests that may be served at once
          Limiters, NoLimiter, \* rate.Limiter objects
          Burst,               \* tokens of a new bucket
          Stale,               \* ticks without a request before an eviction:
                               \* 10 minutes
          MaxStall             \* bound on the ticks a request may wait between
                               \* getLimiter and Allow

\* validator-api sets rate 10/s and burst 20: Stale is 6000 ticks
ASSUME RateLimiterAssumption ==
    /\ NoIP \notin IPs
    /\ NoLimiter \notin Limiters
    /\ Burst \in Nat /\ Stale \in Nat /\ MaxStall \in Nat
    /\ Burst + MaxStall <= Stale

VARIABLES
    limiters,  \* [IPs -> limiter]: the map, NoLimiter without an entry
    unseen,    \* [IPs -> ticks]: the age of the entry's lastSeen
    tokens,    \* [Limiters -> Nat]
    client,    \* per request: its address
    holds,     \* per request: the limiter getLimiter returned
    stall,     \* per request: the ticks since then
    answer     \* per request: the last answer given

vars == <<limiters, unseen, tokens, client, holds, stall, answer>>

TypeOK ==
    /\ limiters \in [IPs -> Limiters \cup {NoLimiter}]
    /\ unseen \in [IPs -> 0..Stale + 1]
    /\ tokens \in [Limiters -> 0..Burst]
    /\ client \in [Requests -> IPs \cup {NoIP}]
    /\ holds \in [Requests -> Limiters \cup {NoLimiter}]
    /\ stall \in [Requests -> 0..MaxStall]
    /\ answer \in [Requests -> {"none", "served", "limited"}]

Init ==
    /\ limiters = [ip \in IPs |-> NoLimiter]
    /\ unseen = [ip \in IPs |-> 0]
    /\ tokens = [l \in Limiters |-> 0]
    /\ client = [r \in Requests |-> NoIP]
    /\ holds = [r \in Requests |-> NoLimiter]
    /\ stall = [r \in Requests |-> 0]
    /\ answer = [r \in Requests |-> "none"]

Arrive(r, ip) ==
    /\ client[r] = NoIP
    /\ client' = [client EXCEPT ![r] = ip]
    /\ answer' = [answer EXCEPT ![r] = "none"]
    /\ UNCHANGED <<limiters, unseen, tokens, holds, stall>>

\* mutant of Hold: an entry keeps the lastSeen of its first request
HoldUnstamped(r, l) ==
    /\ holds' = [holds EXCEPT ![r] = l]
    /\ stall' = [stall EXCEPT ![r] = 0]
    /\ unseen' = [unseen EXCEPT ![client[r]] = IF limiters[client[r]] = NoLimiter THEN 0 ELSE @]
    /\ UNCHANGED <<client, answer>>

\* getLimiter stamps the entry and hands out its limiter
Hold(r, l) ==
    /\ holds' = [holds EXCEPT ![r] = l]
    /\ stall' = [stall EXCEPT ![r] = 0]
    /\ unseen' = [unseen EXCEPT ![client[r]] = 0]
    /\ UNCHANGED <<client, answer>>

Waiting(r) == client[r] # NoIP /\ holds[r] = NoLimiter

\* no entry: rate.NewLimiter starts with a full bucket
GetNewLimiter(r) ==
    /\ Waiting(r)
    /\ limiters[client[r]] = NoLimiter
    /\ \E l \in Limiters :
        /\ \A ip \in IPs : limiters[ip] # l
        /\ \A q \in Requests : holds[q] # l
        /\ limiters' = [limiters EXCEPT ![client[r]] = l]
        /\ tokens' = [tokens EXCEPT ![l] = Burst]
        /\ Hold(r, l)

GetKnownLimiter(r) ==
    /\ Waiting(r)
    /\ limiters[client[r]] # NoLimiter
    /\ Hold(r, limiters[client[r]])
    /\ UNCHANGED <<limiters, tokens>>

Answer(r, a) ==
    /\ client' = [client EXCEPT ![r] = NoIP]
    /\ holds' = [holds EXCEPT ![r] = NoLimiter]
    /\ stall' = [stall EXCEPT ![r] = 0]
    /\ answer' = [answer EXCEPT ![r] = a]
    /\ UNCHANGED <<limiters, unseen>>

\* limiter.Allow, and the handler behind the middleware
Allowed(r) ==
    /\ holds[r] # NoLimiter
    /\ tokens[holds[r]] > 0
    /\ tokens' = [tokens EXCEPT ![holds[r]] = @ - 1]
    /\ Answer(r, "served")

\* limiter.Allow says no: 429
Limited(r) ==
    /\ holds[r] # NoLimiter
    /\ tokens[holds[r]] = 0
    /\ Answer(r, "limited")
    /\ UNCHANGED tokens

\* mutant of Refilled: the burst is no limit
RefilledUncapped(l) == tokens[l] + 1

Refilled(l) == IF tokens[l] < Burst THEN tokens[l] + 1 ELSE Burst

\* the clock; no request waits longer than MaxStall for its Allow
Tick ==
    /\ \A r \in Requests : holds[r] # NoLimiter => stall[r] < MaxStall
    /\ tokens' = [l \in Limiters |-> Refilled(l)]
    /\ unseen' = [ip \in IPs |-> IF unseen[ip] <= Stale THEN unseen[ip] + 1 ELSE unseen[ip]]
    /\ stall' = [r \in Requests |-> IF holds[r] # NoLimiter THEN stall[r] + 1 ELSE 0]
    /\ UNCHANGED <<limiters, client, holds, answer>>

IsStale(ip) == unseen[ip] > Stale

\* one round of cleanup, under the mutex; it may come at any tick
Cleanup ==
    /\ \E ip \in IPs : limiters[ip] # NoLimiter /\ IsStale(ip)
    /\ limiters' = [ip \in IPs |-> IF IsStale(ip) THEN NoLimiter ELSE limiters[ip]]
    /\ UNCHANGED <<unseen, tokens, client, holds, stall, answer>>

Next ==
    \/ \E r \in Requests, ip \in IPs : Arrive(r, ip)
    \/ \E r \in Requests :
        GetNewLimiter(r) \/ GetKnownLimiter(r) \/ Allowed(r) \/ Limited(r)
    \/ Tick
    \/ Cleanup

Spec == Init /\ [][Next]_vars

-----------------------------------------------------------------------------
\* A client whose entry was evicted owns a full bucket.
Bucket == [ip \in IPs |-> IF limiters[ip] = NoLimiter THEN Burst ELSE tokens[limiters[ip]]]

Ideal == INSTANCE TokenBucket WITH bucket <- Bucket

\* Evicting entries gives nobody a token early or late, and concurrent requests
\* of a client draw on one bucket: the limiter is a plain token bucket per
\* client (ratelimit.go:52-112).
ImplementsTokenBucket == Ideal!BucketSpec
=============================================================================
