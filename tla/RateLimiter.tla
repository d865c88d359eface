---------------------------- MODULE RateLimiter ----------------------------
(* utils/rate_limit.py: attempts counted in buckets, in Redis or, when a    *)
(* call to Redis raises, in the memory of the process.  One key.  A bucket  *)
(* is BucketSize seconds long, the window NumBuckets of them.  Every call   *)
(* to Redis is a step; time may pass and other processes may run between.   *)
EXTENDS Naturals, FiniteSets, FiniteSetsExt, Sequences, Server

CONSTANTS
    Limit,          \* limit: attempts allowed in the window
    NumBuckets,     \* num_buckets: window // bucket_size
    BucketSize,     \* bucket_size, in ticks of the clock
    MaxTime,        \* bound: the clock stops here
    MaxAttempts,    \* bound: attempts made
    MaxOutages      \* bound: calls to Redis that raise

ASSUME RateAssumption ==
    /\ Limit \in Nat /\ NumBuckets \in Nat \ {0} /\ BucketSize \in Nat \ {0}
    /\ MaxTime \in Nat /\ MaxAttempts \in Nat /\ MaxOutages \in Nat

VARIABLES
    clock,      \* time.time()
    counts,     \* bucket index -> counter in Redis
    deadline,   \* bucket index -> when the counter expires, or NoExpiry
    memory,     \* _memory_store of each process
    attempt,    \* is_limited in progress in each process
    trail,      \* history: the attempts that were answered
    late,       \* history: an attempt was still at work when its bucket ended
    outages     \* calls that raised so far

rateVars == <<clock, counts, deadline, memory, attempt, trail, late, outages>>

Window == NumBuckets * BucketSize
Bucket == 0..(MaxTime \div BucketSize)
NoExpiry == MaxTime + Window + 2 * BucketSize
NoAttempt == [step |-> "none", at |-> 0]

(* _current_bucket, as of the time the attempt began *)
BucketAt(t) == t \div BucketSize

(* The buckets an attempt of bucket b adds up. *)
Recent(b) == {c \in Bucket : c <= b /\ b <= c + NumBuckets}

RateInit ==
    /\ clock = 0
    /\ counts = [b \in Bucket |-> 0]
    /\ deadline = [b \in Bucket |-> NoExpiry]
    /\ memory = [p \in Process |-> [b \in Bucket |-> 0]]
    /\ attempt = [p \in Process |-> NoAttempt]
    /\ trail = <<>> /\ late = FALSE /\ outages = 0

Pending == {p \in Process : attempt[p].step # "none"}

Answer(p, total) ==
    /\ trail' = Append(trail, [at |-> attempt[p].at, admitted |-> total <= Limit])
    /\ attempt' = [attempt EXCEPT ![p] = NoAttempt]

(* is_limited: the bucket is computed, nothing is counted yet. *)
is_limited(p) ==
    /\ attempt[p].step = "none"
    /\ Len(trail) + Cardinality(Pending) < MaxAttempts
    /\ attempt' = [attempt EXCEPT ![p] = [step |-> "incr", at |-> clock]]
    /\ UNCHANGED <<clock, counts, deadline, memory, trail, late, outages>>

(* INCR; the first attempt of the bucket sets its expiry. *)
Incr(p) ==
    LET b == BucketAt(attempt[p].at) IN
    /\ attempt[p].step = "incr"
    /\ counts' = [counts EXCEPT ![b] = @ + 1]
    /\ attempt' = [attempt EXCEPT ![p].step = IF counts[b] = 0 THEN "expire" ELSE "mget"]
    /\ UNCHANGED <<clock, deadline, memory, trail, late, outages>>

(* INCR is applied, the connection breaks before the answer, and the        *)
(* Sentinel proxy repeats it on the master it resolves again: the attempt   *)
(* counts twice, and the count it gets back is never 1.                     *)
IncrRetried(p) ==
    /\ attempt[p].step = "incr" /\ outages < MaxOutages
    /\ outages' = outages + 1
    /\ counts' = [counts EXCEPT ![BucketAt(attempt[p].at)] = @ + 2]
    /\ attempt' = [attempt EXCEPT ![p].step = "mget"]
    /\ UNCHANGED <<clock, deadline, memory, trail, late>>

(* The expiry is shorter by the bucket the sum reaches back into. *)
SetExpiry_WindowOnly(p) ==
    /\ attempt[p].step = "expire"
    /\ deadline' = [deadline EXCEPT ![BucketAt(attempt[p].at)] = clock + Window]
    /\ attempt' = [attempt EXCEPT ![p].step = "mget"]
    /\ UNCHANGED <<clock, counts, memory, trail, late, outages>>

(* EXPIRE. *)
SetExpiry(p) ==
    /\ attempt[p].step = "expire"
    /\ deadline' = [deadline EXCEPT ![BucketAt(attempt[p].at)] = clock + Window + BucketSize]
    /\ attempt' = [attempt EXCEPT ![p].step = "mget"]
    /\ UNCHANGED <<clock, counts, memory, trail, late, outages>>

(* MGET of the buckets and the answer. *)
is_limited_redis(p) ==
    /\ attempt[p].step = "mget"
    /\ Answer(p, FoldSet(LAMBDA c, n : counts[c] + n, 0, Recent(BucketAt(attempt[p].at))))
    /\ UNCHANGED <<clock, counts, deadline, memory, late, outages>>

(* A call to Redis raises: the attempt is counted and answered in memory,   *)
(* whether or not INCR has counted it; older buckets are dropped.           *)
is_limited_memory(p) ==
    LET b == BucketAt(clock)
        store == [c \in Bucket |-> IF c \notin Recent(b) /\ c < b THEN 0
                                   ELSE memory[p][c] + (IF c = b THEN 1 ELSE 0)]
    IN
    /\ attempt[p].step # "none" /\ outages < MaxOutages
    /\ outages' = outages + 1
    /\ memory' = [memory EXCEPT ![p] = store]
    /\ Answer(p, FoldSet(LAMBDA c, n : store[c] + n, 0, Bucket))
    /\ UNCHANGED <<clock, counts, deadline, late>>

(* Time passes: Redis drops the counters whose expiry has come. *)
ClockTick ==
    /\ clock < MaxTime /\ clock' = clock + 1
    /\ counts' = [b \in Bucket |-> IF deadline[b] <= clock' THEN 0 ELSE counts[b]]
    /\ deadline' = [b \in Bucket |-> IF deadline[b] <= clock' THEN NoExpiry ELSE deadline[b]]
    /\ late' = (late \/ \E p \in Pending : BucketAt(attempt[p].at) # BucketAt(clock'))
    /\ UNCHANGED <<memory, attempt, trail, outages>>

RateNext ==
    \/ ClockTick
    \/ \E p \in Process :
          is_limited(p) \/ Incr(p) \/ IncrRetried(p) \/ SetExpiry(p) \/ is_limited_redis(p) \/ is_limited_memory(p)

RateSpec == RateInit /\ [][RateNext]_rateVars
-----------------------------------------------------------------------------
Made(from, to) == {n \in 1..Len(trail) : trail[n].at \in from..to}
Admitted(from, to) == {n \in Made(from, to) : trail[n].admitted}

RateTypeOK ==
    /\ clock \in 0..MaxTime
    /\ counts \in [Bucket -> 0..(MaxAttempts + MaxOutages)]
    /\ deadline \in [Bucket -> 0..NoExpiry]
    /\ memory \in [Process -> [Bucket -> 0..MaxAttempts]]
    /\ attempt \in [Process -> [step : {"none", "incr", "expire", "mget"}, at : 0..MaxTime]]
    /\ trail \in Seq([at : 0..MaxTime, admitted : BOOLEAN])
    /\ late \in BOOLEAN /\ outages \in 0..MaxOutages

(* In any interval as long as the window no more than Limit attempts are    *)
(* admitted, by all processes together - with a store of its own for each   *)
(* process once Redis has failed - unless an attempt was still at work when *)
(* its bucket ended: it does not see what was counted in the next one.      *)
NeverOverLimit ==
    \/ late
    \/ \A t \in 0..MaxTime :
         Cardinality(Admitted(t, t + Window - 1))
           <= IF outages = 0 THEN Limit ELSE Limit * (1 + Cardinality(Process))

(* An attempt is refused only if more than Limit attempts, itself and those *)
(* a retry counted twice included, were begun in the window and the bucket  *)
(* before it: the rounding to whole buckets never blocks for longer.        *)
RefusedForCause ==
    \A n \in 1..Len(trail) :
        LET t == trail[n].at
            from == IF t + 1 >= Window + BucketSize THEN t + 1 - Window - BucketSize ELSE 0
            begun == {p \in Pending : attempt[p].at \in from..(t + BucketSize)}
        IN trail[n].admitted \/ late
           \/ Cardinality(Made(from, t + BucketSize)) + Cardinality(begun) + outages > Limit

(* A counter without an expiry is about to get one, or a call has raised.   *)
CountersExpire ==
    \A b \in Bucket : counts[b] > 0 /\ deadline[b] = NoExpiry =>
        outages > 0 \/ \E p \in Process : attempt[p].step = "expire" /\ BucketAt(attempt[p].at) = b

(* The limiter lets no more and hardly fewer attempts pass than its limit,  *)
(* and its counters in Redis do not stay.                                   *)
LimitKept == NeverOverLimit /\ RefusedForCause /\ CountersExpire
=============================================================================
