--------------------------- MODULE SlidingWindow ----------------------------
(***************************************************************************)
(* One window of the distributed rate limiter: the script                  *)
(* sliding_window.lua as Redis runs it, and check_sliding_window, which    *)
(* any number of gateways call on the same key.                            *)
(*                                                                         *)
(* A member of the sorted set is a call: its uuid and its reading, the     *)
(* score, are chosen once, before the first copy is sent, so a resent copy *)
(* adds the same member.  The key expires Ttl ticks after the last script. *)
(* Redis keeps its data; a restart without it would be a new window.       *)
(***************************************************************************)
EXTENDS RedisCall

CONSTANTS Limit, Window, Ttl, MaxTime

ASSUME WindowAssumption ==
    /\ Limit \in Nat /\ Window \in Nat \ {0} /\ Ttl \in Nat \ {0}
    /\ MaxTime \in Nat

(* window is the sorted set and idle the ticks since EXPIRE.  added and     *)
(* high are history: the calls ever added, the latest reading a script ran  *)
(* with.                                                                    *)
VARIABLES window, idle, added, high

history == <<added, high>>
vars == <<window, idle, call, now, history>>

Score(r) == call[r].stamp

TypeOK ==
    /\ window \subseteq added /\ added \subseteq Requests
    /\ Cardinality(window) <= Limit
    /\ call \in [Requests -> Call]
    /\ idle \in 0 .. Ttl /\ now \in 0 .. MaxTime
    /\ high \in Nat

Init ==
    /\ window = {} /\ idle = 0
    /\ call = [r \in Requests |-> NewCall]
    /\ now = 0 /\ added = {} /\ high = 0

-----------------------------------------------------------------------------
(* The script.                                                             *)

\* Mutant of Trimmed: entries go one tick early.
TrimmedEarly(w, stamp) == {q \in w : Score(q) > stamp - Window + 1}

\* ZREMRANGEBYSCORE key -inf window_start.
Trimmed(w, stamp) == {q \in w : Score(q) > stamp - Window}

\* Mutant of Allows: <= for <.
AllowsOneMore(w, stamp) == Cardinality(Trimmed(w, stamp)) <= Limit

Allows(w, stamp) == Cardinality(Trimmed(w, stamp)) < Limit

\* Mutant of RetryAfter: a tick short, as if entries fell out at < window_start.
RetryAfterShort(w, stamp) ==
    IF Allows(w, stamp) \/ Trimmed(w, stamp) = {} THEN 0
    ELSE Min({Score(q) : q \in Trimmed(w, stamp)}) + Window - stamp - 1

\* Until the oldest entry falls out of the window.  What is left after the
\* trimming is younger than Window, so the script's guard against a negative
\* wait has nothing to do.
RetryAfter(w, stamp) ==
    IF Allows(w, stamp) \/ Trimmed(w, stamp) = {} THEN 0
    ELSE Min({Score(q) : q \in Trimmed(w, stamp)}) + Window - stamp

RunScript(r) ==
    LET taken == IF Allows(window, Score(r)) THEN {r} ELSE {}
    IN  /\ window' = Trimmed(window, Score(r)) \cup taken
        /\ added' = added \cup taken
        /\ idle' = 0
        /\ high' = Max({high, Score(r)})

-----------------------------------------------------------------------------
Execute(r) ==
    /\ Executed(r, Allows(window, Score(r)))
    /\ RunScript(r)
    /\ UNCHANGED now

\* Redis runs a copy nobody waits for any more.
ExecuteOrphan(r) ==
    /\ OrphanGone(r)
    /\ RunScript(r)
    /\ UNCHANGED now

Tick ==
    /\ now < MaxTime
    /\ NobodyOverdue
    /\ now' = now + 1
    /\ idle' = Min({idle + 1, Ttl})
    /\ window' = IF idle + 1 < Ttl THEN window ELSE {}
    /\ UNCHANGED <<call, history>>

Next ==
    \/ \E r \in Requests :
         \/ ClientStep(r) /\ UNCHANGED <<window, idle, now, history>>
         \/ Execute(r) \/ ExecuteOrphan(r)
    \/ Tick

Spec == Init /\ [][Next]_vars

-----------------------------------------------------------------------------
\* Whatever the order of the scripts, the calls admitted in the window that
\* ends at the latest reading seen are at most Limit: a late script may be
\* let into a past window that was trimmed already, never into this one.
CurrentWindow ==
    Cardinality({r \in added : Score(r) > high - Window}) <= Limit

\* The limit of the docs: no stretch as long as the window, wherever it begins,
\* has more than Limit calls let through in it.
EveryWindow ==
    \A q \in added :
        Cardinality({r \in added : Score(r) - Score(q) \in 0 .. Window - 1}) <= Limit

\* No call is admitted with a reading older than one a script has run with.
NoneAdmittedLate == \A r \in added' \ added : Score(r) >= high

AdmitsInOrder == [][NoneAdmittedLate]_vars

\* How far late scripts can overfill a past window: at most Limit calls are
\* admitted in any stretch that is shorter than the window by the longest
\* delay and the spread of the clocks.
AnyShorterWindow ==
    LET short == Window - MaxDelay - Max(Skews \cup {0})
    IN  \A q \in added :
            Cardinality({r \in added :
                           Score(r) - Score(q) \in 0 .. short - 1}) <= Limit

\* Every call let through was counted, also when the answer came from a copy
\* sent again, except, in FAIL_OPEN mode only, those decided without Redis.
Counted ==
    \A r \in Requests :
        call[r].allowed => IF call[r].degraded THEN FailOpen ELSE r \in added

\* retry_after_ms is exact, whatever order the readings come in: undisturbed,
\* the window has room after that wait and not a tick before.
RetryAfterExact ==
    \A r \in Requests :
        LET wait == RetryAfter(window, Score(r))
            left == Trimmed(window, Score(r))
        IN  call[r].sent /\ ~Allows(window, Score(r)) /\ Limit > 0
              => /\ Allows(left, Score(r) + wait)
                 /\ ~Allows(left, Score(r) + wait - 1)
=============================================================================
