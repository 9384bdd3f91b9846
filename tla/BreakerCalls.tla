---------------------------- MODULE BreakerCalls ----------------------------
(***************************************************************************)
(* How the gateway uses one circuit breaker.  Several attempts at the same *)
(* backend are in flight at once; each asks the breaker for admission,     *)
(* awaits forward(), and reports its outcome to whatever state the breaker *)
(* has reached by then.  The actions are the breaker's part of             *)
(* _dispatch_with_resilience in src/apps/gateway/pipeline/pipeline.py,     *)
(* between one await and the next; module Dispatch adds the retry loop.    *)
(*                                                                         *)
(* out, age       the attempts awaiting forward(), and for how long        *)
(* probes         those of them admitted in the current HALF_OPEN period   *)
(* probe_wins     successes of such attempts in that period                *)
(* evidence       outcomes recorded since the breaker last became CLOSED,  *)
(*                counted up to MinimumRequests                            *)
(* The last three are history: no action reads them.                       *)
(*                                                                         *)
(* AttemptMax bounds the ticks forward() can take.  That there is a bound  *)
(* is assumed of the backend: httpx limits each wait for it, not how many  *)
(* there are (MaxWaits of Dispatch).                                       *)
(* UnrecordedEnds says whether an attempt may end with no outcome          *)
(* recorded: the httpx errors the pipeline does not catch (a connection    *)
(* reset while the response is read, a protocol error) and a status of 600 *)
(* or more.                                                                *)
(***************************************************************************)
EXTENDS CircuitBreaker

CONSTANTS Callers, AttemptMax, UnrecordedEnds

ASSUME CallersAssumption ==
    /\ IsFiniteSet(Callers)
    /\ AttemptMax \in Nat
    /\ UnrecordedEnds \in BOOLEAN

VARIABLES breaker, out, age, probes, probe_wins, evidence

vars == <<breaker, out, age, probes, probe_wins, evidence>>

\* Every variable has its type, and the breaker's window never outgrows the
\* deque's maxlen.
TypeOK ==
    /\ breaker \in Breaker
    /\ Len(breaker.outcomes) <= RollingWindowSize
    /\ out \subseteq Callers
    /\ age \in [Callers -> 0 .. AttemptMax]
    /\ probes \subseteq out
    /\ probe_wins \in 0 .. HalfOpenMaxRequests
    /\ evidence \in 0 .. MinimumRequests

Init ==
    /\ breaker = NewBreaker
    /\ out = {}
    /\ age = [c \in Callers |-> 0]
    /\ probes = {}
    /\ probe_wins = 0
    /\ evidence = 0

\* evidence once the outcome being recorded is counted.
MoreEvidence ==
    IF breaker.state # "CLOSED" THEN 0
    ELSE IF evidence < MinimumRequests THEN evidence + 1 ELSE evidence

-----------------------------------------------------------------------------
\* before_request returns, and forward() is awaited.
Admitted(c) ==
    LET b == ReadState(breaker)
    IN  /\ c \notin out
        /\ Admits(b)
        /\ breaker' = Admit(b)
        /\ out' = out \cup {c}
        /\ probes' = IF b.state = "HALF_OPEN" THEN probes \cup {c} ELSE probes
        /\ UNCHANGED <<age, probe_wins, evidence>>

\* before_request raises CircuitOpenError.
Refused(c) ==
    LET b == ReadState(breaker)
    IN  /\ c \notin out
        /\ ~Admits(b)
        /\ breaker' = b
        /\ UNCHANGED <<out, age, probes, probe_wins, evidence>>

\* before_request returns, but nothing can be sent: no routable instance, or
\* no time left.  A failure is recorded before the next await.
AdmittedInVain(c) ==
    LET b == ReadState(breaker)
    IN  /\ c \notin out
        /\ Admits(b)
        /\ breaker' = RecordFailure(Admit(b))
        /\ probes' = {}
        /\ probe_wins' = 0
        /\ evidence' = MoreEvidence
        /\ UNCHANGED <<out, age>>

Ended(c) ==
    /\ c \in out
    /\ out' = out \ {c}
    /\ age' = [age EXCEPT ![c] = 0]

\* A response below 500.
Succeeded(c) ==
    /\ Ended(c)
    /\ breaker' = RecordSuccess(breaker)
    /\ probes' = IF breaker'.state = "HALF_OPEN" THEN probes \ {c} ELSE {}
    /\ probe_wins' = IF c \in probes THEN probe_wins + 1 ELSE probe_wins
    /\ evidence' = MoreEvidence

\* A response from 500 to 599, a connection error or a timeout; is_retryable's
\* argument then reads the breaker's state.
Failed(c) ==
    /\ Ended(c)
    /\ breaker' = ReadState(RecordFailure(breaker))
    /\ probes' = {}
    /\ probe_wins' = 0
    /\ evidence' = MoreEvidence

\* The attempt ends and the breaker is not told.
Unrecorded(c) ==
    /\ UnrecordedEnds
    /\ Ended(c)
    /\ probes' = probes \ {c}
    /\ UNCHANGED <<breaker, probe_wins, evidence>>

\* Time passes; forward() never outlives AttemptMax.
Tick ==
    /\ \A c \in out : age[c] < AttemptMax
    /\ age' = [c \in Callers |-> IF c \in out THEN age[c] + 1 ELSE 0]
    /\ breaker' = Elapse(breaker)
    /\ UNCHANGED <<out, probes, probe_wins, evidence>>

Finish(c) == Succeeded(c) \/ Failed(c) \/ Unrecorded(c)

Next ==
    \/ \E c \in Callers : \/ Admitted(c)
                          \/ Refused(c)
                          \/ AdmittedInVain(c)
                          \/ Succeeded(c)
                          \/ Failed(c)
                          \/ Unrecorded(c)
    \/ Tick

Spec == Init /\ [][Next]_vars

\* forward() ends, by its timeouts and because the backend's waits do.
FairSpec == Spec /\ \A c \in Callers : WF_vars(Finish(c))

-----------------------------------------------------------------------------
\* What the counters say of the attempts in flight, however late outcomes
\* are reported: outside HALF_OPEN they are zero and there is no probe, and in
\* it the probes in flight are at most those counted as such plus the
\* successes so far, each of which may have freed a slot that was not its own.
ProbeAccounting ==
    /\ breaker.half_open_successes < HalfOpenMaxRequests
    /\ breaker.state = "OPEN" => breaker.open_for # NeverOpened /\ probe_wins = 0
    /\ breaker.state # "HALF_OPEN" => /\ breaker.half_open_in_flight = 0
                                      /\ breaker.half_open_successes = 0
                                      /\ probes = {}
    /\ breaker.state = "HALF_OPEN" =>
         /\ probe_wins <= breaker.half_open_successes
         /\ Cardinality(probes) <= breaker.half_open_in_flight
                                   + breaker.half_open_successes

\* When every attempt is over before open_duration is (AttemptMax <
\* OpenDuration) no outcome is late: what is in flight while OPEN is at least
\* as old as the opening, what is in flight while HALF_OPEN is a probe, and
\* the counters are exact or on the safe side.
PromptAccounting ==
    /\ breaker.state = "OPEN" => \A c \in out : age[c] >= breaker.open_for
    /\ breaker.state = "HALF_OPEN" =>
         /\ out = probes
         /\ probe_wins = breaker.half_open_successes
         /\ Cardinality(probes) <= breaker.half_open_in_flight

\* However late an outcome is reported, fewer than twice
\* half_open_max_requests attempts admitted in one HALF_OPEN period are in
\* flight together.  (An outcome of an earlier period frees the slot of a
\* probe that is still running, but half_open_max_requests such outcomes end
\* the period.)
ProbeBound == Cardinality(probes) <= 2 * HalfOpenMaxRequests - 1

\* before_request: "In HALF_OPEN, admits at most half_open_max_requests
\* concurrent probes and rejects the rest."
ProbeCap == Cardinality(probes) <= HalfOpenMaxRequests

\* HALF_OPEN ends in CLOSED only when half_open_max_requests attempts that
\* were admitted in that period have succeeded: the module docstring's "if
\* enough of them succeed the breaker closes".
ClosedByProbes ==
    [][breaker.state = "HALF_OPEN" /\ breaker'.state = "CLOSED"
       => probe_wins' = HalfOpenMaxRequests]_vars

\* A breaker that recovered is not tripped again by what it saw before: it
\* opens from CLOSED only on minimum_requests outcomes recorded since.
TrippedByFreshEvidence ==
    [][breaker.state = "CLOSED" /\ breaker'.state = "OPEN"
       => evidence' = MinimumRequests]_vars

\* docs/failure-model.md says that the circuit "opens once minimum_requests
\* reached and failure rate crosses failure_threshold".  Only record_failure
\* looks, so this much is true: when the breaker is CLOSED with the threshold
\* reached, the latest outcome was a success.
ThresholdWaitsForFailure ==
    breaker.state = "CLOSED" /\ RateReached(breaker.outcomes)
        => \/ breaker.outcomes = <<>>
           \/ breaker.outcomes[Len(breaker.outcomes)]

\* The circuit as its documentation draws it.
Contract ==
    INSTANCE Circuit
    WITH state <- breaker.state,
         since <- IF breaker.state = "OPEN" THEN breaker.open_for ELSE 0,
         wins <- breaker.half_open_successes

\* When every attempt is over before open_duration is, the breaker is a
\* Circuit: while OPEN it lets nothing through for open_duration, HALF_OPEN at
\* most half_open_max_requests at a time and beside no earlier attempt, and it
\* closes on the successes of those alone.
KeepsContract == Contract!Spec

Saturated == /\ breaker.state = "HALF_OPEN"
             /\ breaker.half_open_in_flight >= HalfOpenMaxRequests

\* If besides every outcome is recorded, a HALF_OPEN breaker turns requests
\* away only while a probe is in flight whose outcome will change that.
SaturatedByProbes == Saturated => probes # {}

\* Any outcome that is recorded ends the saturation.
OutcomeFrees ==
    [][Saturated /\ (\E c \in Callers : Succeeded(c) \/ Failed(c))
       => ~Saturated']_vars

\* The breaker waits for the outcome of a probe, and there is no probe.
Leaked == Saturated /\ out = {}

\* A HALF_OPEN breaker that turns everything away does so only for a while: a
\* probe reports, and it closes, reopens or has a free slot.
HalfOpenNeverStuck == Saturated ~> ~Saturated
=============================================================================
