---------------------------- MODULE TokenBucket ----------------------------
(***************************************************************************)
(* What the rate limiter promises: every client has one bucket of Burst    *)
(* tokens that refills by one per tick and is never forgotten, a request is*)
(* served at the price of a token, and refused only when none is left.     *)
(***************************************************************************)
EXTENDS Naturals

CONSTANTS IPs, NoIP, Requests, Burst

VARIABLES bucket,   \* [IPs -> 0..Burst]
          client,   \* per request: the client it comes from
          answer    \* per request: the last answer given

bucketVars == <<bucket, client, answer>>

BucketInit ==
    /\ bucket = [ip \in IPs |-> Burst]
    /\ client = [r \in Requests |-> NoIP]
    /\ answer = [r \in Requests |-> "none"]

Ask(r, ip) ==
    /\ client[r] = NoIP
    /\ client' = [client EXCEPT ![r] = ip]
    /\ answer' = [answer EXCEPT ![r] = "none"]
    /\ UNCHANGED bucket

Reply(r, a) ==
    /\ client[r] # NoIP
    /\ client' = [client EXCEPT ![r] = NoIP]
    /\ answer' = [answer EXCEPT ![r] = a]

Serve(r) ==
    /\ Reply(r, "served")
    /\ bucket[client[r]] > 0
    /\ bucket' = [bucket EXCEPT ![client[r]] = @ - 1]

Refuse(r) ==
    /\ Reply(r, "limited")
    /\ bucket[client[r]] = 0
    /\ UNCHANGED bucket

Refill ==
    /\ bucket' = [ip \in IPs |-> IF bucket[ip] < Burst THEN bucket[ip] + 1 ELSE Burst]
    /\ UNCHANGED <<client, answer>>

BucketNext ==
    \/ \E r \in Requests, ip \in IPs : Ask(r, ip)
    \/ \E r \in Requests : Serve(r) \/ Refuse(r)
    \/ Refill

BucketSpec == BucketInit /\ [][BucketNext]_bucketVars
=============================================================================
