------------------------------ MODULE RateLimit ------------------------------
(***************************************************************************)
(* The token buckets of packages/node/src/middleware/rate-limit.ts, used   *)
(* per principal on /api and per address on the public routes.             *)
(*                                                                         *)
(* The store is a Map in insertion order: a sequence of buckets whose head *)
(* is the least recently used.  One unit of time is long enough to refill  *)
(* `rpm` whole tokens.                                                     *)
(***************************************************************************)
EXTENDS Integers, Sequences, SequencesExt, Selection

CONSTANTS
    rpm,          \* tokens refilled in one unit of time
    burst,        \* tokens of a full bucket
    maxBuckets

ASSUME RateLimitAssumption ==
    rpm \in Nat \ {0} /\ burst \in Nat \ {0} /\ maxBuckets \in Nat \ {0}

ReadCost == 1
WriteCost == 5

Bucket(buckets, id) == Select(buckets, {b \in Range(buckets) : b.id = id})
Others(buckets, id) == Select(buckets, {b \in Range(buckets) : b.id # id})

Least(a, b) == IF a < b THEN a ELSE b
CeilDiv(a, b) == (a + b - 1) \div b

refill(b, now) == Least(burst, b.tokens + rpm * (now - b.lastRefill))

(* _evictIfOverCap runs on insertion only: it drops the least recently used. *)
evictBuckets(buckets) ==
    IF Len(buckets) > maxBuckets
    THEN SubSeq(buckets, Len(buckets) - maxBuckets + 1, Len(buckets)) ELSE buckets

(* The bucket of an identity, refilled up to now; a new one is full.       *)
Refilled(buckets, id, now) ==
    LET found == Bucket(buckets, id)
    IN  [id |-> id, lastRefill |-> now,
         tokens |-> IF found = <<>> THEN burst ELSE refill(found[1], now)]

allowed(buckets, id, cost, now) == Refilled(buckets, id, now).tokens >= cost

retryAfter(buckets, id, cost, now) ==
    CeilDiv(cost - Refilled(buckets, id, now).tokens, rpm)

(* The time of the last refill is not moved on, so a period is credited twice. *)
consume_KeepsRefillTime(buckets, id, cost, now) ==
    LET b == Refilled(buckets, id, now)
        found == Bucket(buckets, id)
        paid == [b EXCEPT !.tokens = IF @ >= cost THEN @ - cost ELSE @,
                          !.lastRefill = IF found = <<>> THEN now ELSE found[1].lastRefill]
    IN  evictBuckets(Append(Others(buckets, id), paid))

(* consume: the bucket moves to the tail and pays when it can.             *)
consume(buckets, id, cost, now) ==
    LET b == Refilled(buckets, id, now)
        paid == IF b.tokens >= cost THEN [b EXCEPT !.tokens = @ - cost] ELSE b
    IN  evictBuckets(Append(Others(buckets, id), paid))

(* sweepBuckets: a bucket that would be full again is dropped.             *)
Idle(b, now) == (now - b.lastRefill) * rpm >= burst

sweepBuckets(buckets, now) == Select(buckets, {b \in Range(buckets) : ~Idle(b, now)})
==============================================================================
