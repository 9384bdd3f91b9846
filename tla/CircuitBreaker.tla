--------------------------- MODULE CircuitBreaker ---------------------------
(***************************************************************************)
(* The circuit breaker of one backend service, class CircuitBreaker of     *)
(* src/apps/gateway/circuitbreaker/breaker.py, as functions from a breaker *)
(* to the breaker a method call leaves behind.  Every method is            *)
(* synchronous, so on the gateway's event loop each one is atomic.         *)
(*                                                                         *)
(* A breaker is a record of the fields of __init__.  Two fields are        *)
(* abstracted:                                                             *)
(*   - the code keeps the instant _opened_at and reads the clock; only the *)
(*     difference is ever used, and only compared with open_duration, so   *)
(*     open_for is that difference in ticks, held at OpenDuration once it  *)
(*     gets there, and NeverOpened when _opened_at is None;                *)
(*   - _half_open_failures and the timestamps of outcomes are written and  *)
(*     never read, and are left out.                                       *)
(* failure_threshold is the fraction ThresholdNum / ThresholdDen.          *)
(***************************************************************************)
EXTENDS Integers, Sequences, FiniteSets

CONSTANTS ThresholdNum, ThresholdDen, MinimumRequests, OpenDuration,
          HalfOpenMaxRequests, RollingWindowSize

ASSUME ConfigAssumption ==
    /\ ThresholdNum \in Nat /\ ThresholdDen \in Nat \ {0}
    /\ MinimumRequests \in Nat
    /\ OpenDuration \in Nat \ {0}
    /\ HalfOpenMaxRequests \in Nat \ {0}
    /\ RollingWindowSize \in Nat \ {0}

CircuitState == {"CLOSED", "OPEN", "HALF_OPEN"}

NeverOpened == -1

Breaker == [state : CircuitState,
            outcomes : Seq(BOOLEAN),
            open_for : {NeverOpened} \cup 0 .. OpenDuration,
            half_open_in_flight : 0 .. HalfOpenMaxRequests,
            half_open_successes : 0 .. HalfOpenMaxRequests]

NewBreaker == [state |-> "CLOSED",
               outcomes |-> <<>>,
               open_for |-> NeverOpened,
               half_open_in_flight |-> 0,
               half_open_successes |-> 0]

-----------------------------------------------------------------------------
(* State transitions.                                                      *)

TransitionToOpen(b) == [state |-> "OPEN",
                        outcomes |-> b.outcomes,
                        open_for |-> 0,
                        half_open_in_flight |-> 0,
                        half_open_successes |-> 0]

TransitionToHalfOpen(b) == [b EXCEPT !.state = "HALF_OPEN",
                                     !.half_open_in_flight = 0,
                                     !.half_open_successes = 0]

\* Mutant of TransitionToClosed: the window survives the closing.
ClosedKeepsWindow(b) == [NewBreaker EXCEPT !.outcomes = b.outcomes]

\* Every field goes back to what __init__ gave it.
TransitionToClosed(b) == NewBreaker

-----------------------------------------------------------------------------
(* The window of recent outcomes, a deque with maxlen.                     *)

\* Mutant of Remember: a deque without maxlen.
RememberAll(outcomes, success) == Append(outcomes, success)

Remember(outcomes, success) ==
    IF Len(outcomes) < RollingWindowSize
    THEN Append(outcomes, success)
    ELSE Append(Tail(outcomes), success)

FailuresIn(outcomes) == Cardinality({i \in DOMAIN outcomes : ~outcomes[i]})

\* The condition of _maybe_open: enough outcomes, and a failure rate that
\* reaches the threshold.
RateReached(outcomes) ==
    /\ Len(outcomes) >= MinimumRequests
    /\ FailuresIn(outcomes) * ThresholdDen >= ThresholdNum * Len(outcomes)

\* Mutant of MaybeOpen: the rate has to exceed the threshold.
MaybeOpenAbove(b) ==
    IF /\ RateReached(b.outcomes)
       /\ FailuresIn(b.outcomes) * ThresholdDen
            > ThresholdNum * Len(b.outcomes)
    THEN TransitionToOpen(b) ELSE b

MaybeOpen(b) == IF RateReached(b.outcomes) THEN TransitionToOpen(b) ELSE b

-----------------------------------------------------------------------------
(* The public interface.                                                   *)

\* Mutant of ReadState: the rest ends one tick early.
ReadStateEarly(b) ==
    IF b.state = "OPEN" /\ b.open_for + 1 >= OpenDuration
    THEN TransitionToHalfOpen(b)
    ELSE b

\* The property `state`: reading it moves an OPEN breaker whose time is up
\* to HALF_OPEN.
ReadState(b) ==
    IF b.state = "OPEN" /\ b.open_for >= OpenDuration
    THEN TransitionToHalfOpen(b)
    ELSE b

\* before_request raises CircuitOpenError unless this holds of the breaker
\* it has just read.
Admits(b) == \/ b.state = "CLOSED"
             \/ /\ b.state = "HALF_OPEN"
                /\ b.half_open_in_flight < HalfOpenMaxRequests

\* Mutant of Admit: the probe is let through and not counted.
AdmitUncounted(b) == b

Admit(b) == IF b.state = "HALF_OPEN"
            THEN [b EXCEPT !.half_open_in_flight = @ + 1]
            ELSE b

\* max(0, _half_open_in_flight - 1)
OneLess(n) == IF n > 0 THEN n - 1 ELSE 0

\* Mutant of RecordSuccess: one success closes the circuit.
RecordSuccessEager(b) ==
    LET b1 == [b EXCEPT !.outcomes = Remember(@, TRUE)]
    IN  IF b.state = "HALF_OPEN" THEN TransitionToClosed(b1) ELSE b1

RecordSuccess(b) ==
    LET b1 == [b EXCEPT !.outcomes = Remember(@, TRUE)]
        b2 == [b1 EXCEPT !.half_open_in_flight = OneLess(@),
                         !.half_open_successes = @ + 1]
    IN  IF b.state # "HALF_OPEN" THEN b1
        ELSE IF b2.half_open_successes >= HalfOpenMaxRequests
             THEN TransitionToClosed(b2)
             ELSE b2

\* Mutant of RecordFailure: a failed probe neither reopens nor gives its
\* slot back.
RecordFailureIgnoresProbes(b) ==
    LET b1 == [b EXCEPT !.outcomes = Remember(@, FALSE)]
    IN  IF b.state = "CLOSED" THEN MaybeOpen(b1) ELSE b1

RecordFailure(b) ==
    LET b1 == [b EXCEPT !.outcomes = Remember(@, FALSE)]
    IN  CASE b.state = "HALF_OPEN" -> TransitionToOpen(b1)
          [] b.state = "CLOSED"    -> MaybeOpen(b1)
          [] b.state = "OPEN"      -> b1

\* One tick of the clock the breaker reads.
Elapse(b) == IF b.open_for \in 0 .. OpenDuration - 1
             THEN [b EXCEPT !.open_for = @ + 1]
             ELSE b
=============================================================================
