------------------------- MODULE RateLimiterProofs -------------------------
(***************************************************************************)
(* The rate limiter is a token bucket per client, for any clients, requests*)
(* and limiter objects, and any burst that refills before an entry is      *)
(* evicted.                                                                *)
(***************************************************************************)
EXTENDS RateLimiter, TLAPS

\* No two clients share a limiter.
LimitersDistinct ==
    \A a, b \in IPs : limiters[a] = limiters[b] => a = b \/ limiters[a] = NoLimiter

\* A limiter in a request's hands is still the one in the map: its entry was
\* stamped no longer ago than the request has been waiting.
HeldLimitersCurrent ==
    \A r \in Requests :
        holds[r] # NoLimiter =>
            /\ client[r] \in IPs
            /\ holds[r] = limiters[client[r]]
            /\ unseen[client[r]] <= stall[r]

\* A bucket that is not full was used not long ago: every tick since then has
\* put a token back.
RefillKeepsUp ==
    \A ip \in IPs :
        limiters[ip] # NoLimiter =>
            \/ tokens[limiters[ip]] = Burst
            \/ unseen[ip] <= tokens[limiters[ip]] + MaxStall

LimiterInv ==
    /\ TypeOK
    /\ LimitersDistinct
    /\ HeldLimitersCurrent
    /\ RefillKeepsUp

LEMMA InitEstablishes == Init => LimiterInv
BY RateLimiterAssumption
   DEF Init, LimiterInv, TypeOK, LimitersDistinct, HeldLimitersCurrent, RefillKeepsUp

LEMMA ArrivePreserves ==
    ASSUME LimiterInv, NEW r \in Requests, NEW ip \in IPs, Arrive(r, ip)
    PROVE  LimiterInv'
<1> USE RateLimiterAssumption DEF LimiterInv, TypeOK, Arrive
<1>1. TypeOK'
  OBVIOUS
<1>2. LimitersDistinct' /\ RefillKeepsUp'
  BY DEF LimitersDistinct, RefillKeepsUp
<1>3. HeldLimitersCurrent'
  BY DEF HeldLimitersCurrent
<1> QED BY <1>1, <1>2, <1>3

LEMMA GetNewPreserves ==
    ASSUME LimiterInv, NEW r \in Requests, GetNewLimiter(r)
    PROVE  LimiterInv'
<1> USE RateLimiterAssumption DEF LimiterInv, TypeOK
<1>1. client[r] \in IPs /\ limiters[client[r]] = NoLimiter
  BY DEF GetNewLimiter, Waiting
<1>2. PICK l \in Limiters :
        /\ \A ip \in IPs : limiters[ip] # l
        /\ \A q \in Requests : holds[q] # l
        /\ limiters' = [limiters EXCEPT ![client[r]] = l]
        /\ tokens' = [tokens EXCEPT ![l] = Burst]
        /\ Hold(r, l)
  BY DEF GetNewLimiter
<1>3. TypeOK'
  BY <1>1, <1>2 DEF Hold
<1>4. LimitersDistinct'
  BY <1>1, <1>2 DEF LimitersDistinct
<1>5. HeldLimitersCurrent'
  BY <1>1, <1>2 DEF Hold, HeldLimitersCurrent
<1>6. RefillKeepsUp'
  BY <1>1, <1>2 DEF Hold, RefillKeepsUp
<1> QED BY <1>3, <1>4, <1>5, <1>6

LEMMA GetKnownPreserves ==
    ASSUME LimiterInv, NEW r \in Requests, GetKnownLimiter(r)
    PROVE  LimiterInv'
<1> USE RateLimiterAssumption DEF LimiterInv, TypeOK, GetKnownLimiter, Hold
<1>1. client[r] \in IPs
  BY DEF Waiting
<1>2. TypeOK'
  BY <1>1
<1>3. LimitersDistinct'
  BY DEF LimitersDistinct
<1>4. HeldLimitersCurrent'
  BY <1>1 DEF HeldLimitersCurrent
<1>5. RefillKeepsUp'
  BY <1>1 DEF RefillKeepsUp
<1> QED BY <1>2, <1>3, <1>4, <1>5

LEMMA AllowedPreserves ==
    ASSUME LimiterInv, NEW r \in Requests, Allowed(r)
    PROVE  LimiterInv'
<1> USE RateLimiterAssumption DEF LimiterInv, TypeOK, Allowed, Answer
<1>1. /\ client[r] \in IPs
      /\ holds[r] = limiters[client[r]]
      /\ unseen[client[r]] <= MaxStall
  BY DEF HeldLimitersCurrent
<1>2. TypeOK'
  BY <1>1
<1>3. LimitersDistinct'
  BY DEF LimitersDistinct
<1>4. HeldLimitersCurrent'
  BY DEF HeldLimitersCurrent
<1>5. RefillKeepsUp'
  BY <1>1 DEF RefillKeepsUp, LimitersDistinct
<1> QED BY <1>2, <1>3, <1>4, <1>5

LEMMA LimitedPreserves ==
    ASSUME LimiterInv, NEW r \in Requests, Limited(r)
    PROVE  LimiterInv'
BY RateLimiterAssumption
   DEF LimiterInv, TypeOK, Limited, Answer, LimitersDistinct, HeldLimitersCurrent, RefillKeepsUp

LEMMA TickPreserves ==
    ASSUME LimiterInv, Tick
    PROVE  LimiterInv'
<1> USE RateLimiterAssumption DEF LimiterInv, TypeOK, Tick, Refilled
<1>1. TypeOK'
  OBVIOUS
<1>2. LimitersDistinct'
  BY DEF LimitersDistinct
<1>3. HeldLimitersCurrent'
  BY DEF HeldLimitersCurrent
<1>4. RefillKeepsUp'
  BY DEF RefillKeepsUp
<1> QED BY <1>1, <1>2, <1>3, <1>4

\* An entry old enough to be evicted has a full bucket and is in nobody's hands.
LEMMA StaleBucketIsFull ==
    ASSUME LimiterInv, NEW ip \in IPs, limiters[ip] # NoLimiter, IsStale(ip)
    PROVE  /\ tokens[limiters[ip]] = Burst
           /\ \A r \in Requests : holds[r] # NoLimiter => client[r] # ip
BY RateLimiterAssumption
   DEF LimiterInv, TypeOK, RefillKeepsUp, HeldLimitersCurrent, IsStale

LEMMA CleanupPreserves ==
    ASSUME LimiterInv, Cleanup
    PROVE  LimiterInv'
<1> USE RateLimiterAssumption DEF LimiterInv, TypeOK, Cleanup
<1>1. TypeOK'
  OBVIOUS
<1>2. LimitersDistinct' /\ RefillKeepsUp'
  BY DEF LimitersDistinct, RefillKeepsUp
<1>3. HeldLimitersCurrent'
  BY StaleBucketIsFull DEF HeldLimitersCurrent
<1> QED BY <1>1, <1>2, <1>3

\* The invariant that makes evictions invisible holds in every reachable state.
THEOREM LimiterInvariance == Spec => []LimiterInv
<1>1. LimiterInv /\ [Next]_vars => LimiterInv'
  <2> SUFFICES ASSUME LimiterInv, [Next]_vars PROVE LimiterInv'
    OBVIOUS
  <2>1. CASE UNCHANGED vars
    BY <2>1 DEF vars, LimiterInv, TypeOK, LimitersDistinct, HeldLimitersCurrent, RefillKeepsUp
  <2> QED BY <2>1, ArrivePreserves, GetNewPreserves, GetKnownPreserves, AllowedPreserves,
             LimitedPreserves, TickPreserves, CleanupPreserves DEF Next
<1> QED BY <1>1, InitEstablishes, PTL DEF Spec

\* The limiter's variables keep their types.
THEOREM LimiterTypeCorrect == Spec => []TypeOK
<1>1. LimiterInv => TypeOK
  BY DEF LimiterInv
<1> QED BY <1>1, LimiterInvariance, PTL

-----------------------------------------------------------------------------
(* Refinement                                                              *)

LEMMA InitRefines == Init => Ideal!BucketInit
BY DEF Init, Ideal!BucketInit, Bucket

\* Handing out a limiter, new or known, is invisible.
LEMMA GetRefines ==
    ASSUME LimiterInv, NEW r \in Requests, GetNewLimiter(r) \/ GetKnownLimiter(r)
    PROVE  UNCHANGED Ideal!bucketVars
<1>1. CASE GetNewLimiter(r)
  <2>1. client[r] \in IPs /\ limiters[client[r]] = NoLimiter
    BY <1>1 DEF GetNewLimiter, Waiting, LimiterInv, TypeOK
  <2>2. PICK l \in Limiters :
          /\ \A ip \in IPs : limiters[ip] # l
          /\ limiters' = [limiters EXCEPT ![client[r]] = l]
          /\ tokens' = [tokens EXCEPT ![l] = Burst]
    BY <1>1 DEF GetNewLimiter
  <2>3. \A ip \in IPs : Bucket'[ip] = Bucket[ip]
    BY <2>1, <2>2, RateLimiterAssumption DEF Bucket, LimiterInv, TypeOK
  <2>4. Bucket' = Bucket
    BY <2>3 DEF Bucket
  <2> QED BY <1>1, <2>4 DEF Ideal!bucketVars, GetNewLimiter, Hold
<1>2. CASE GetKnownLimiter(r)
  BY <1>2 DEF GetKnownLimiter, Hold, Ideal!bucketVars, Bucket
<1> QED BY <1>1, <1>2

\* A request takes its token from the bucket of its own client only.
LEMMA AnswerRefines ==
    ASSUME LimiterInv, NEW r \in Requests, Allowed(r) \/ Limited(r)
    PROVE  Ideal!Serve(r) \/ Ideal!Refuse(r)
<1>1. /\ client[r] \in IPs
      /\ client[r] # NoIP
      /\ limiters[client[r]] # NoLimiter
      /\ holds[r] = limiters[client[r]]
      /\ limiters[client[r]] \in Limiters
      /\ Bucket[client[r]] = tokens[holds[r]]
  BY RateLimiterAssumption DEF Allowed, Limited, LimiterInv, HeldLimitersCurrent, TypeOK, Bucket
<1>2. CASE Allowed(r)
  <2>1. Bucket' = [Bucket EXCEPT ![client[r]] = @ - 1]
    <3>1. \A ip \in IPs : Bucket'[ip] = [Bucket EXCEPT ![client[r]] = @ - 1][ip]
      BY <1>1, <1>2, RateLimiterAssumption
         DEF Allowed, Answer, Bucket, LimiterInv, LimitersDistinct, TypeOK
    <3> QED BY <3>1 DEF Bucket
  <2> QED BY <1>1, <1>2, <2>1 DEF Allowed, Answer, Ideal!Serve, Ideal!Reply
<1>3. CASE Limited(r)
  BY <1>1, <1>3 DEF Limited, Answer, Bucket, Ideal!Refuse, Ideal!Reply
<1> QED BY <1>2, <1>3

LEMMA TickRefines ==
    ASSUME LimiterInv, Tick
    PROVE  Ideal!Refill
<1>1. \A ip \in IPs : Bucket'[ip] = IF Bucket[ip] < Burst THEN Bucket[ip] + 1 ELSE Burst
  BY RateLimiterAssumption DEF Tick, Refilled, Bucket, LimiterInv, TypeOK
<1> QED BY <1>1 DEF Tick, Ideal!Refill, Bucket

\* Eviction is invisible because the evicted buckets are full.
LEMMA CleanupRefines ==
    ASSUME LimiterInv, Cleanup
    PROVE  UNCHANGED Ideal!bucketVars
<1>1. \A ip \in IPs : Bucket'[ip] = Bucket[ip]
  BY StaleBucketIsFull DEF Cleanup, Bucket
<1>2. Bucket' = Bucket
  BY <1>1 DEF Bucket
<1> QED BY <1>2 DEF Cleanup, Ideal!bucketVars

\* Whatever is evicted and however requests overlap, every client is served as
\* by one token bucket that is never forgotten.
THEOREM LimiterImplementsTokenBucket == Spec => ImplementsTokenBucket
<1>1. LimiterInv /\ [Next]_vars => [Ideal!BucketNext]_Ideal!bucketVars
  <2> SUFFICES ASSUME LimiterInv, [Next]_vars
               PROVE  Ideal!BucketNext \/ UNCHANGED Ideal!bucketVars
    OBVIOUS
  <2>1. ASSUME NEW r \in Requests, NEW ip \in IPs, Arrive(r, ip)
        PROVE  Ideal!BucketNext
    BY <2>1 DEF Arrive, Ideal!BucketNext, Ideal!Ask, Bucket
  <2>2. ASSUME NEW r \in Requests, Allowed(r) \/ Limited(r)
        PROVE  Ideal!BucketNext
    BY <2>2, AnswerRefines DEF Ideal!BucketNext
  <2>3. CASE Tick
    BY <2>3, TickRefines DEF Ideal!BucketNext
  <2>4. CASE UNCHANGED vars
    BY <2>4 DEF vars, Ideal!bucketVars, Bucket
  <2> QED BY <2>1, <2>2, <2>3, <2>4, GetRefines, CleanupRefines DEF Next
<1> QED BY <1>1, InitRefines, LimiterInvariance, PTL DEF Spec, ImplementsTokenBucket, Ideal!BucketSpec

-----------------------------------------------------------------------------
(* The rate                                                                *)
(*                                                                         *)
(* Counters of one window of time, which no step of the limiter reads and  *)
(* which may start afresh in any state, so that they stand for every       *)
(* window.                                                                 *)

VARIABLES ticks,  \* ticks since the window was opened
          served  \* [IPs -> Nat]: requests of a client served since then

windowVars == <<vars, ticks, served>>

OpenWindow ==
    /\ ticks' = 0
    /\ served' = [ip \in IPs |-> 0]
    /\ UNCHANGED vars

ServedNow(ip) == \E r \in Requests : client[r] = ip /\ Allowed(r)

CountStep ==
    /\ Next
    /\ ticks' = IF Tick THEN ticks + 1 ELSE ticks
    /\ served' = [ip \in IPs |-> IF ServedNow(ip) THEN served[ip] + 1 ELSE served[ip]]

WindowInit == Init /\ ticks = 0 /\ served = [ip \in IPs |-> 0]
WindowSpec == WindowInit /\ [][OpenWindow \/ CountStep]_windowVars

\* What a client was served and what its bucket still holds came out of the burst
\* and the ticks of the window.
WindowInv ==
    /\ ticks \in Nat
    /\ served \in [IPs -> Nat]
    /\ \A ip \in IPs : Bucket[ip] + served[ip] <= Burst + ticks

LEMMA BucketType == LimiterInv => Bucket \in [IPs -> 0 .. Burst]
BY RateLimiterAssumption DEF LimiterInv, TypeOK, Bucket

\* A bucket gains a token at a tick only, and loses one for each request served.
LEMMA StepOfBucket ==
    ASSUME LimiterInv, LimiterInv', Next, NEW ip \in IPs
    PROVE  /\ Tick => Bucket'[ip] <= Bucket[ip] + 1 /\ ~ServedNow(ip)
           /\ ~Tick /\ ServedNow(ip) => Bucket'[ip] = Bucket[ip] - 1
           /\ ~Tick /\ ~ServedNow(ip) => Bucket'[ip] = Bucket[ip]
<1>1. Bucket \in [IPs -> 0 .. Burst] /\ Bucket' \in [IPs -> 0 .. Burst]
  <2>1. Bucket' \in [IPs -> 0 .. Burst]
    BY RateLimiterAssumption DEF LimiterInv, TypeOK, Bucket
  <2> QED BY <2>1, BucketType
<1>2. ASSUME NEW r \in Requests, Allowed(r)
      PROVE  /\ client[r] \in IPs /\ client'[r] = NoIP /\ client' # client
             /\ \A q \in Requests : Allowed(q) => q = r
  BY <1>2, RateLimiterAssumption
     DEF Allowed, Answer, LimiterInv, TypeOK, HeldLimitersCurrent
<1>3. CASE Tick
  <2>1. ~ServedNow(ip)
    BY <1>2, <1>3 DEF Tick, ServedNow
  <2>2. Bucket'[ip] = IF Bucket[ip] < Burst THEN Bucket[ip] + 1 ELSE Burst
    BY <1>3, TickRefines DEF Ideal!Refill
  <2> QED BY <1>1, <1>3, <2>1, <2>2, RateLimiterAssumption
<1>4. ASSUME NEW r \in Requests, Allowed(r), ~Tick
      PROVE  /\ ServedNow(ip) => Bucket'[ip] = Bucket[ip] - 1
             /\ ~ServedNow(ip) => Bucket'[ip] = Bucket[ip]
  <2>1. Bucket' = [Bucket EXCEPT ![client[r]] = @ - 1]
    <3>1. Ideal!Serve(r) \/ Ideal!Refuse(r)
      BY <1>4, AnswerRefines
    <3>2. answer'[r] = "served"
      BY <1>4 DEF Allowed, Answer, LimiterInv, TypeOK
    <3>3. ~Ideal!Refuse(r)
      BY <3>2 DEF Ideal!Refuse, Ideal!Reply, LimiterInv, TypeOK
    <3> QED BY <3>1, <3>3 DEF Ideal!Serve
  <2>2. ServedNow(ip) <=> client[r] = ip
    BY <1>2, <1>4 DEF ServedNow
  <2> QED BY <1>1, <1>2, <1>4, <2>1, <2>2
<1>5. CASE ~Tick /\ \A r \in Requests : ~Allowed(r)
  <2>1. ~ServedNow(ip)
    BY <1>5 DEF ServedNow
  <2>2. CASE \E r \in Requests : GetNewLimiter(r) \/ GetKnownLimiter(r)
    BY <1>5, <2>1, <2>2, GetRefines DEF Ideal!bucketVars
  <2>3. CASE Cleanup
    BY <1>5, <2>1, <2>3, CleanupRefines DEF Ideal!bucketVars
  <2>4. CASE (\E r \in Requests, a \in IPs : Arrive(r, a)) \/ (\E r \in Requests : Limited(r))
    <3>1. Bucket' = Bucket
      BY <2>4 DEF Arrive, Limited, Answer, Bucket
    <3> QED BY <1>5, <2>1, <3>1
  <2> QED BY <1>5, <2>2, <2>3, <2>4 DEF Next
<1> QED BY <1>3, <1>4, <1>5

LEMMA WindowStep ==
    ASSUME LimiterInv, LimiterInv', WindowInv, [OpenWindow \/ CountStep]_windowVars
    PROVE  WindowInv'
<1>1. Bucket \in [IPs -> 0 .. Burst] /\ Burst \in Nat
  BY BucketType, RateLimiterAssumption
<1>2. CASE OpenWindow
  <2>1. Bucket' = Bucket
    BY <1>2 DEF OpenWindow, vars, Bucket
  <2> QED BY <1>1, <1>2, <2>1 DEF OpenWindow, WindowInv
<1>3. CASE CountStep
  <2>1. ticks' \in Nat /\ served' \in [IPs -> Nat]
    BY <1>3 DEF CountStep, WindowInv
  <2>2. ASSUME NEW ip \in IPs PROVE Bucket'[ip] + served'[ip] <= Burst + ticks'
    <3>1. /\ served'[ip] = IF ServedNow(ip) THEN served[ip] + 1 ELSE served[ip]
          /\ ticks' = IF Tick THEN ticks + 1 ELSE ticks
      BY <1>3 DEF CountStep
    <3>2. Bucket[ip] \in Nat /\ served[ip] \in Nat /\ ticks \in Nat
          /\ Bucket[ip] + served[ip] <= Burst + ticks
      BY <1>1 DEF WindowInv
    <3>3. Bucket'[ip] \in Nat
      BY RateLimiterAssumption DEF LimiterInv, TypeOK, Bucket
    <3>4. /\ Tick => Bucket'[ip] <= Bucket[ip] + 1 /\ ~ServedNow(ip)
          /\ ~Tick /\ ServedNow(ip) => Bucket'[ip] = Bucket[ip] - 1
          /\ ~Tick /\ ~ServedNow(ip) => Bucket'[ip] = Bucket[ip]
      BY <1>3, StepOfBucket DEF CountStep
    <3> QED BY <1>1, <3>1, <3>2, <3>3, <3>4
  <2> QED BY <2>1, <2>2 DEF WindowInv
<1>4. CASE UNCHANGED windowVars
  BY <1>4 DEF windowVars, vars, WindowInv, Bucket
<1> QED BY <1>2, <1>3, <1>4

\* In any window of time a client is served at most its burst and what the window
\* has refilled (ratelimit.go:52-112), whatever is evicted and however its requests
\* overlap.
THEOREM RateBounded == WindowSpec => [](\A ip \in IPs : served[ip] <= Burst + ticks)
<1>1. WindowSpec => []LimiterInv
  <2>1. LimiterInv /\ [OpenWindow \/ CountStep]_windowVars => LimiterInv'
    <3>1. LimiterInv /\ [Next]_vars => LimiterInv'
      <4> SUFFICES ASSUME LimiterInv, [Next]_vars PROVE LimiterInv'
        OBVIOUS
      <4>1. CASE UNCHANGED vars
        BY <4>1 DEF vars, LimiterInv, TypeOK, LimitersDistinct, HeldLimitersCurrent,
                    RefillKeepsUp
      <4> QED BY <4>1, ArrivePreserves, GetNewPreserves, GetKnownPreserves,
                 AllowedPreserves, LimitedPreserves, TickPreserves, CleanupPreserves
              DEF Next
    <3>2. [OpenWindow \/ CountStep]_windowVars => [Next]_vars
      BY DEF OpenWindow, CountStep, windowVars
    <3> QED BY <3>1, <3>2
  <2> QED BY <2>1, InitEstablishes, PTL DEF WindowSpec, WindowInit
<1>2. WindowInit => WindowInv
  <2> SUFFICES ASSUME WindowInit PROVE WindowInv
    OBVIOUS
  <2>1. Bucket \in [IPs -> 0 .. Burst]
    BY InitEstablishes, BucketType DEF WindowInit
  <2> QED BY <2>1, RateLimiterAssumption DEF WindowInit, WindowInv
<1>3. LimiterInv /\ WindowInv => \A ip \in IPs : served[ip] <= Burst + ticks
  <2> SUFFICES ASSUME LimiterInv, WindowInv, NEW ip \in IPs
               PROVE  served[ip] <= Burst + ticks
    OBVIOUS
  <2>1. Bucket[ip] \in Nat
    BY BucketType
  <2> QED BY <2>1, RateLimiterAssumption DEF WindowInv
<1> QED BY <1>1, <1>2, <1>3, WindowStep, PTL DEF WindowSpec
=============================================================================
