---------------------------- MODULE TokenBucket -----------------------------
(***************************************************************************)
(* One bucket of the distributed rate limiter: the script token_bucket.lua *)
(* as Redis runs it, and DistributedRateLimiter.check_token_bucket, which  *)
(* any number of gateways call on the same key.                            *)
(*                                                                         *)
(* Tokens are counted in units of which Rate are added per tick of the     *)
(* clock, so refill and cost are integers.  The key expires Ttl ticks      *)
(* after the last script; Redis may restart without it.                    *)
(***************************************************************************)
EXTENDS RedisCall

CONSTANTS Capacity, Rate, Cost, Ttl, TicksPerSecond, MaxTime, MaxRestarts

ASSUME BucketAssumption ==
    /\ Capacity \in Nat /\ Rate \in Nat \ {0} /\ Cost \in Nat
    /\ Ttl \in Nat \ {0} /\ TicksPerSecond \in Nat \ {0}
    /\ MaxTime \in Nat /\ MaxRestarts \in Nat

(* bucket is the key's hash: whether it exists, tokens, last_refill_ms (its  *)
(* last value even when it is gone) and the ticks since EXPIRE.  spent,      *)
(* fills, start, earliest, rewound and restarts are history: units the       *)
(* script has taken, times it started a bucket full, the first and the least *)
(* reading it ran with, how far last_refill_ms has been moved back in all.   *)
VARIABLES bucket, spent, fills, start, earliest, rewound, restarts

history == <<spent, fills, start, earliest, rewound>>
vars == <<bucket, call, now, history, restarts>>

Bucket == [exists : BOOLEAN, tokens : 0 .. Capacity, last : Nat, idle : 0 .. Ttl]

TypeOK ==
    /\ bucket \in Bucket
    /\ call \in [Requests -> Call]
    /\ now \in 0 .. MaxTime
    /\ spent \in Nat /\ fills \in Nat /\ rewound \in Nat
    /\ start \in Nat /\ earliest \in Nat
    /\ restarts \in 0 .. MaxRestarts

Init ==
    /\ bucket = [exists |-> FALSE, tokens |-> 0, last |-> 0, idle |-> 0]
    /\ call = [r \in Requests |-> NewCall]
    /\ now = 0 /\ spent = 0 /\ fills = 0 /\ rewound = 0
    /\ start = 0 /\ earliest = 0
    /\ restarts = 0

-----------------------------------------------------------------------------
(* The script.                                                             *)

\* Mutant of Elapsed: no guard against a reading before last_refill_ms.
ElapsedUnguarded(b, stamp) == stamp - b.last

Elapsed(b, stamp) == IF stamp < b.last THEN 0 ELSE stamp - b.last

\* The tokens there are before this request takes any.
Refilled(b, stamp) ==
    IF b.exists THEN Min({Capacity, b.tokens + Rate * Elapsed(b, stamp)})
                ELSE Capacity

Allows(b, stamp) == Refilled(b, stamp) >= Cost

\* Mutant of RetryAfter: rounded down.
RetryAfterFloor(b, stamp) ==
    IF Allows(b, stamp) THEN 0 ELSE (Cost - Refilled(b, stamp)) \div Rate

\* retry_after_ms, rounded up.
RetryAfter(b, stamp) ==
    IF Allows(b, stamp) THEN 0
    ELSE (Cost - Refilled(b, stamp) + Rate - 1) \div Rate

\* Mutant of Stored: HSET leaves last_refill_ms alone.
StoredUnstamped(b, stamp) ==
    [exists |-> TRUE, last |-> b.last, idle |-> 0,
     tokens |-> IF Allows(b, stamp) THEN Refilled(b, stamp) - Cost
                                    ELSE Refilled(b, stamp)]

\* HSET and EXPIRE.
Stored(b, stamp) ==
    [exists |-> TRUE, last |-> stamp, idle |-> 0,
     tokens |-> IF Allows(b, stamp) THEN Refilled(b, stamp) - Cost
                                    ELSE Refilled(b, stamp)]

\* Mutant of RetryAfterHeader: a constant.
RetryAfterHeaderFixed(b, stamp) == 0

\* The Retry-After header of the 429 response, in seconds.
RetryAfterHeader(b, stamp) ==
    Max({1, RetryAfter(b, stamp) \div TicksPerSecond})

RunScript(stamp) ==
    /\ bucket' = Stored(bucket, stamp)
    /\ spent' = IF Allows(bucket, stamp) THEN spent + Cost ELSE spent
    /\ fills' = IF bucket.exists THEN fills ELSE fills + 1
    /\ start' = IF fills = 0 THEN stamp ELSE start
    /\ earliest' = IF fills = 0 \/ stamp < earliest THEN stamp ELSE earliest
    /\ rewound' = IF fills > 0 /\ stamp < bucket.last
                  THEN rewound + (bucket.last - stamp) ELSE rewound

-----------------------------------------------------------------------------
Execute(r) ==
    /\ Executed(r, Allows(bucket, call[r].stamp))
    /\ RunScript(call[r].stamp)
    /\ UNCHANGED <<now, restarts>>

\* Redis runs a copy nobody waits for any more.
ExecuteOrphan(r) ==
    /\ OrphanGone(r)
    /\ RunScript(call[r].stamp)
    /\ UNCHANGED <<now, restarts>>

\* Redis restarts and the key is gone.
Restart ==
    /\ restarts < MaxRestarts
    /\ restarts' = restarts + 1
    /\ bucket' = [bucket EXCEPT !.exists = FALSE]
    /\ UNCHANGED <<call, now, history>>

Tick ==
    /\ now < MaxTime
    /\ NobodyOverdue
    /\ now' = now + 1
    /\ bucket' = [bucket EXCEPT !.idle = IF @ < Ttl THEN @ + 1 ELSE @,
                                !.exists = @ /\ bucket.idle + 1 < Ttl]
    /\ UNCHANGED <<call, history, restarts>>

Next ==
    \/ \E r \in Requests :
         \/ ClientStep(r) /\ UNCHANGED <<bucket, now, history, restarts>>
         \/ Execute(r) \/ ExecuteOrphan(r)
    \/ Restart
    \/ Tick

Spec == Init /\ [][Next]_vars

-----------------------------------------------------------------------------
Available == IF bucket.exists THEN bucket.tokens ELSE 0

\* What the bucket really guarantees: the units taken, with those still there,
\* are covered by one Capacity for every time it was started full, and Rate for
\* every tick last_refill_ms advanced - a tick counting again each time
\* last_refill_ms was moved back over it.
Budget ==
    fills > 0 => spent + Available
                   <= Capacity * fills + Rate * (bucket.last - start + rewound)

\* When the readings arrive in order and Redis keeps its data, the expiry of an
\* idle key gives nothing away: one Capacity and the refill cover everything,
\* however often the bucket was started anew.
InOrderBudget ==
    fills > 0 /\ rewound = 0 /\ restarts = 0
      => spent + Available <= Capacity + Rate * (bucket.last - start)

\* Bursts up to capacity, then refill_rate: the documented contract, under the
\* documented promise that concurrent checks cannot exceed it by a race.  The
\* time counted is all there can be: from the earliest reading any script ran
\* with until now.
BurstThenRate ==
    fills > 0 => spent <= Capacity + Rate * (now - earliest)

\* Every request let through was paid for in the bucket, except, in FAIL_OPEN
\* mode only, those decided without Redis.
Paid ==
    /\ Cost * Cardinality({r \in Requests : call[r].allowed /\ ~call[r].degraded})
         <= spent
    /\ \A r \in Requests : call[r].allowed /\ call[r].degraded => FailOpen

\* Undisturbed, bucket b next lets a request through, after refusing it at this
\* reading, exactly `wait` ticks later and not one tick sooner.
OpensAfter(b, stamp, wait) ==
    /\ Allows(Stored(b, stamp), stamp + wait)
    /\ ~Allows(Stored(b, stamp), stamp + wait - 1)

\* retry_after_ms is precise, whatever order the readings come in.
RetryAfterPrecise ==
    \A r \in Requests :
        call[r].sent /\ ~Allows(bucket, call[r].stamp) /\ Cost <= Capacity
          => OpensAfter(bucket, call[r].stamp, RetryAfter(bucket, call[r].stamp))

\* A client that waits a second longer than the header says, and is alone, is
\* not refused again: rounding down costs less than a second.
HeaderWithinSecond ==
    \A r \in Requests :
        call[r].sent /\ ~Allows(bucket, call[r].stamp) /\ Cost <= Capacity
          => Allows(Stored(bucket, call[r].stamp),
                    call[r].stamp + TicksPerSecond
                        * (1 + RetryAfterHeader(bucket, call[r].stamp)))
=============================================================================
