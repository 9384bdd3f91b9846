---------------------------- MODULE BreakerProofs ----------------------------
(***************************************************************************)
(* Proofs about BreakerCalls, for every configuration of the breaker and   *)
(* any finite set of callers.                                              *)
(***************************************************************************)
EXTENDS BreakerCalls, FiniteSetTheorems, TLAPS

\* What every method of the breaker preserves.
WellFormed(b) ==
    /\ b \in Breaker
    /\ Len(b.outcomes) <= RollingWindowSize
    /\ b.half_open_successes < HalfOpenMaxRequests
    /\ b.state = "OPEN" => b.open_for # NeverOpened
    /\ b.state # "HALF_OPEN" => /\ b.half_open_in_flight = 0
                                /\ b.half_open_successes = 0

\* Appending to the deque gives a window no longer than its maxlen.
LEMMA RememberType ==
    ASSUME NEW w \in Seq(BOOLEAN), Len(w) <= RollingWindowSize,
           NEW s \in BOOLEAN
    PROVE  /\ Remember(w, s) \in Seq(BOOLEAN)
           /\ Len(Remember(w, s)) <= RollingWindowSize
  <1>1. CASE Len(w) < RollingWindowSize
    BY <1>1, ConfigAssumption DEF Remember
  <1>2. CASE ~(Len(w) < RollingWindowSize)
    <2>1. w # <<>> /\ Len(w) = RollingWindowSize
      BY <1>2, ConfigAssumption
    <2>2. Tail(w) \in Seq(BOOLEAN) /\ Len(Tail(w)) = Len(w) - 1
      BY <2>1
    <2> QED  BY <1>2, <2>1, <2>2, ConfigAssumption DEF Remember
  <1> QED  BY <1>1, <1>2

\* A breaker is well formed when its fields are.
LEMMA WellFormedRecord ==
    ASSUME NEW st \in CircuitState,
           NEW w \in Seq(BOOLEAN), Len(w) <= RollingWindowSize,
           NEW o \in {NeverOpened} \cup 0 .. OpenDuration,
           NEW n \in 0 .. HalfOpenMaxRequests,
           NEW k \in 0 .. HalfOpenMaxRequests - 1,
           st = "OPEN" => o # NeverOpened,
           st # "HALF_OPEN" => n = 0 /\ k = 0
    PROVE  WellFormed([state |-> st, outcomes |-> w, open_for |-> o,
                       half_open_in_flight |-> n, half_open_successes |-> k])
  BY ConfigAssumption DEF WellFormed, Breaker

\* A breaker starts, and is after closing, well formed.
LEMMA NewBreakerWellFormed == WellFormed(NewBreaker)
  <1>1. /\ "CLOSED" \in CircuitState
        /\ <<>> \in Seq(BOOLEAN) /\ Len(<<>>) <= RollingWindowSize
        /\ 0 \in 0 .. HalfOpenMaxRequests /\ 0 \in 0 .. HalfOpenMaxRequests - 1
    BY ConfigAssumption DEF CircuitState
  <1> QED  BY <1>1, WellFormedRecord DEF NewBreaker

\* Opening gives a well formed breaker that has been open for no time.
LEMMA TransitionToOpenFacts ==
    ASSUME NEW b, WellFormed(b)
    PROVE  /\ WellFormed(TransitionToOpen(b))
           /\ TransitionToOpen(b).state = "OPEN"
           /\ TransitionToOpen(b).open_for = 0
  <1>1. TransitionToOpen(b) =
          [state |-> "OPEN", outcomes |-> b.outcomes, open_for |-> 0,
           half_open_in_flight |-> 0, half_open_successes |-> 0]
    BY DEF TransitionToOpen
  <1>2. /\ b.outcomes \in Seq(BOOLEAN) /\ Len(b.outcomes) <= RollingWindowSize
    BY DEF WellFormed, Breaker
  <1>3. /\ "OPEN" \in CircuitState /\ 0 # NeverOpened
        /\ 0 \in 0 .. OpenDuration
        /\ 0 \in 0 .. HalfOpenMaxRequests /\ 0 \in 0 .. HalfOpenMaxRequests - 1
    BY ConfigAssumption DEF CircuitState, NeverOpened
  <1>4. WellFormed(TransitionToOpen(b))
    BY <1>1, <1>2, <1>3, WellFormedRecord
  <1> QED  BY <1>1, <1>4

\* Reading `state` keeps a breaker well formed; it changes it only from OPEN
\* to a HALF_OPEN with no probe and no success, once open_duration is over.
LEMMA ReadStateFacts ==
    ASSUME NEW b, WellFormed(b)
    PROVE  /\ WellFormed(ReadState(b))
           /\ \/ ReadState(b) = b
              \/ /\ b.state = "OPEN" /\ b.open_for = OpenDuration
                 /\ ReadState(b).state = "HALF_OPEN"
                 /\ ReadState(b).half_open_in_flight = 0
                 /\ ReadState(b).half_open_successes = 0
                 /\ ReadState(b).open_for = b.open_for
  <1>1. CASE b.state = "OPEN" /\ b.open_for >= OpenDuration
    <2>1. ReadState(b) = [state |-> "HALF_OPEN", outcomes |-> b.outcomes,
                          open_for |-> b.open_for,
                          half_open_in_flight |-> 0,
                          half_open_successes |-> 0]
      BY <1>1 DEF WellFormed, Breaker, ReadState, TransitionToHalfOpen
    <2>2. b.open_for = OpenDuration
      BY <1>1, ConfigAssumption DEF WellFormed, Breaker, NeverOpened
    <2> QED
      BY <1>1, <2>1, <2>2, ConfigAssumption
         DEF WellFormed, Breaker, CircuitState
  <1>2. CASE ~(b.state = "OPEN" /\ b.open_for >= OpenDuration)
    BY <1>2 DEF ReadState
  <1> QED  BY <1>1, <1>2

\* Admission counts the probe it lets through and changes nothing else.
LEMMA AdmitFacts ==
    ASSUME NEW b, WellFormed(b), Admits(b)
    PROVE  /\ WellFormed(Admit(b))
           /\ Admit(b).state = b.state /\ b.state \in {"CLOSED", "HALF_OPEN"}
           /\ Admit(b).half_open_successes = b.half_open_successes
           /\ b.state = "HALF_OPEN" => Admit(b).half_open_in_flight
                                         = b.half_open_in_flight + 1
  BY ConfigAssumption
     DEF WellFormed, Admits, Admit, Breaker, CircuitState

\* record_success leaves CLOSED and OPEN as they are; in HALF_OPEN it counts
\* one success and either stays, one slot freer, or closes at the last one.
LEMMA RecordSuccessFacts ==
    ASSUME NEW b, WellFormed(b)
    PROVE  /\ WellFormed(RecordSuccess(b))
           /\ b.state # "HALF_OPEN" =>
                /\ RecordSuccess(b).state = b.state
                /\ RecordSuccess(b).open_for = b.open_for
           /\ b.state = "HALF_OPEN" =>
                \/ /\ RecordSuccess(b).state = "CLOSED"
                   /\ b.half_open_successes + 1 = HalfOpenMaxRequests
                \/ /\ RecordSuccess(b).state = "HALF_OPEN"
                   /\ RecordSuccess(b).half_open_successes
                        = b.half_open_successes + 1
                   /\ RecordSuccess(b).half_open_in_flight
                        = OneLess(b.half_open_in_flight)
  <1>1. /\ Remember(b.outcomes, TRUE) \in Seq(BOOLEAN)
        /\ Len(Remember(b.outcomes, TRUE)) <= RollingWindowSize
    BY RememberType DEF WellFormed, Breaker
  <1>2. OneLess(b.half_open_in_flight) \in 0 .. HalfOpenMaxRequests
    BY ConfigAssumption DEF WellFormed, Breaker, OneLess
  <1>3. CASE b.state # "HALF_OPEN"
    BY <1>1, <1>3, ConfigAssumption
       DEF WellFormed, Breaker, RecordSuccess
  <1>4. CASE b.state = "HALF_OPEN" /\
             b.half_open_successes + 1 >= HalfOpenMaxRequests
    <2>1. RecordSuccess(b) = NewBreaker
      BY <1>4 DEF WellFormed, Breaker, RecordSuccess, TransitionToClosed
    <2>2. b.half_open_successes + 1 = HalfOpenMaxRequests
      BY <1>4, ConfigAssumption DEF WellFormed, Breaker
    <2> QED  BY <1>4, <2>1, <2>2, NewBreakerWellFormed DEF NewBreaker
  <1>5. CASE b.state = "HALF_OPEN" /\
             ~(b.half_open_successes + 1 >= HalfOpenMaxRequests)
    <2>1. RecordSuccess(b) =
            [state |-> "HALF_OPEN", outcomes |-> Remember(b.outcomes, TRUE),
             open_for |-> b.open_for,
             half_open_in_flight |-> OneLess(b.half_open_in_flight),
             half_open_successes |-> b.half_open_successes + 1]
      BY <1>5 DEF WellFormed, Breaker, RecordSuccess
    <2>2. b.half_open_successes + 1 \in 0 .. HalfOpenMaxRequests - 1
      BY <1>5, ConfigAssumption DEF WellFormed, Breaker
    <2>3. WellFormed(RecordSuccess(b))
      <3>1. b.open_for \in {NeverOpened} \cup 0 .. OpenDuration
        BY DEF WellFormed, Breaker
      <3> QED
        BY <1>1, <1>2, <2>1, <2>2, <3>1, WellFormedRecord DEF CircuitState
    <2> QED  BY <1>5, <2>1, <2>3
  <1> QED  BY <1>3, <1>4, <1>5

\* record_failure reopens a HALF_OPEN breaker, may open a CLOSED one, and
\* leaves an OPEN one open; a breaker it opens has been open for no time.
LEMMA RecordFailureFacts ==
    ASSUME NEW b, WellFormed(b)
    PROVE  /\ WellFormed(RecordFailure(b))
           /\ RecordFailure(b).state \in {"CLOSED", "OPEN"}
           /\ RecordFailure(b).state = "CLOSED" => b.state = "CLOSED"
           /\ b.state = "OPEN" => RecordFailure(b).open_for = b.open_for
           /\ b.state # "OPEN" /\ RecordFailure(b).state = "OPEN"
                => RecordFailure(b).open_for = 0
  <1> DEFINE b1 == [b EXCEPT !.outcomes = Remember(@, FALSE)]
  <1>1. /\ Remember(b.outcomes, FALSE) \in Seq(BOOLEAN)
        /\ Len(Remember(b.outcomes, FALSE)) <= RollingWindowSize
    BY RememberType DEF WellFormed, Breaker
  <1>2. /\ WellFormed(b1) /\ b1.state = b.state /\ b1.open_for = b.open_for
    BY <1>1 DEF WellFormed, Breaker
  <1>3. /\ WellFormed(TransitionToOpen(b1))
        /\ TransitionToOpen(b1).state = "OPEN"
        /\ TransitionToOpen(b1).open_for = 0
    BY <1>2, TransitionToOpenFacts
  <1>4. b.state \in CircuitState
    BY DEF WellFormed, Breaker
  <1>5. CASE b.state = "HALF_OPEN"
    BY <1>3, <1>5 DEF RecordFailure
  <1>6. CASE b.state = "CLOSED"
    <2>1. RecordFailure(b) = MaybeOpen(b1)
      BY <1>6 DEF RecordFailure
    <2>2. MaybeOpen(b1) = TransitionToOpen(b1) \/ MaybeOpen(b1) = b1
      BY DEF MaybeOpen
    <2> QED  BY <1>2, <1>3, <1>6, <2>1, <2>2
  <1>7. CASE b.state = "OPEN"
    BY <1>2, <1>7 DEF RecordFailure
  <1> QED  BY <1>4, <1>5, <1>6, <1>7 DEF CircuitState

\* A tick ages an open breaker by one, up to OpenDuration.
LEMMA ElapseFacts ==
    ASSUME NEW b, WellFormed(b)
    PROVE  /\ WellFormed(Elapse(b))
           /\ Elapse(b).state = b.state
           /\ Elapse(b).half_open_in_flight = b.half_open_in_flight
           /\ Elapse(b).half_open_successes = b.half_open_successes
           /\ Elapse(b).open_for \in {b.open_for, b.open_for + 1}
  <1>1. CASE b.open_for \in 0 .. OpenDuration - 1
    <2>1. Elapse(b) = [state |-> b.state, outcomes |-> b.outcomes,
                       open_for |-> b.open_for + 1,
                       half_open_in_flight |-> b.half_open_in_flight,
                       half_open_successes |-> b.half_open_successes]
      BY <1>1 DEF WellFormed, Breaker, Elapse
    <2> QED
      BY <1>1, <2>1, ConfigAssumption DEF WellFormed, Breaker, NeverOpened
  <1>2. CASE b.open_for \notin 0 .. OpenDuration - 1
    BY <1>2 DEF Elapse
  <1> QED  BY <1>1, <1>2

-----------------------------------------------------------------------------
(* The invariant of every configuration.                                   *)

Inv == TypeOK /\ ProbeAccounting

\* What Inv says of the variables other than the breaker.
ProbeHistory ==
    /\ out \subseteq Callers
    /\ age \in [Callers -> 0 .. AttemptMax]
    /\ probes \subseteq out
    /\ probe_wins \in 0 .. HalfOpenMaxRequests
    /\ evidence \in 0 .. MinimumRequests
    /\ breaker.state = "OPEN" => probe_wins = 0
    /\ breaker.state # "HALF_OPEN" => probes = {}
    /\ breaker.state = "HALF_OPEN" =>
         /\ probe_wins <= breaker.half_open_successes
         /\ Cardinality(probes) <= breaker.half_open_in_flight
                                   + breaker.half_open_successes

\* The inductive invariant, by what it says of the breaker and of the probes.
LEMMA InvSplit == Inv <=> WellFormed(breaker) /\ ProbeHistory
  BY DEF Inv, TypeOK, ProbeAccounting, WellFormed, ProbeHistory

\* A set of callers is finite, and its size changes by one when a caller
\* joins or leaves.
LEMMA CallerCount ==
    ASSUME NEW P \in SUBSET Callers, NEW c
    PROVE  /\ Cardinality(P) \in Nat
           /\ Cardinality(P \cup {c}) <= Cardinality(P) + 1
           /\ Cardinality(P \ {c}) <= Cardinality(P)
           /\ c \in P => Cardinality(P \ {c}) = Cardinality(P) - 1
           /\ Cardinality({}) = 0
  <1>1. IsFiniteSet(P)
    BY CallersAssumption, FS_Subset
  <1>2. Cardinality(P) \in Nat
    BY <1>1, FS_CardinalityType
  <1>3. Cardinality(P \cup {c}) = IF c \in P THEN Cardinality(P)
                                              ELSE Cardinality(P) + 1
    BY <1>1, FS_AddElement
  <1>4. Cardinality(P \ {c}) = IF c \in P THEN Cardinality(P) - 1
                                           ELSE Cardinality(P)
    BY <1>1, FS_RemoveElement
  <1>5. Cardinality({}) = 0
    BY FS_EmptySet
  <1> QED  BY <1>2, <1>3, <1>4, <1>5

\* A new breaker has no probes.
LEMMA InitInv == Init => Inv
  <1> SUFFICES ASSUME Init PROVE Inv
    OBVIOUS
  <1>1. WellFormed(breaker) /\ breaker.state = "CLOSED"
    BY NewBreakerWellFormed DEF Init, NewBreaker
  <1> QED
    BY <1>1, InvSplit, ConfigAssumption, CallersAssumption DEF Init, ProbeHistory

\* Recording an outcome keeps evidence within its bound.
LEMMA EvidenceType ==
    ASSUME evidence \in 0 .. MinimumRequests
    PROVE  MoreEvidence \in 0 .. MinimumRequests
  BY ConfigAssumption DEF MoreEvidence

\* Inv is inductive: one step per action.
LEMMA NextInv == Inv /\ [Next]_vars => Inv'
  <1> SUFFICES ASSUME Inv, [Next]_vars PROVE Inv'
    OBVIOUS
  <1>1. WellFormed(breaker) /\ ProbeHistory
    BY InvSplit
  <1>2. SUFFICES WellFormed(breaker') /\ ProbeHistory'
    BY DEF Inv, TypeOK, ProbeAccounting, WellFormed, ProbeHistory
  <1> DEFINE b == ReadState(breaker)
  <1>3. /\ WellFormed(b)
        /\ \/ b = breaker
           \/ /\ breaker.state = "OPEN" /\ b.state = "HALF_OPEN"
              /\ b.half_open_in_flight = 0 /\ b.half_open_successes = 0
    BY <1>1, ReadStateFacts
  <1> HIDE DEF b
  <1>4. Cardinality({}) = 0
    BY FS_EmptySet
  <1>5. probes \in SUBSET Callers /\ Cardinality(probes) \in Nat
    BY <1>1, CallerCount DEF ProbeHistory
  \* The history matches what the breaker has become by reading `state`.
  <1>6. b.state = "HALF_OPEN" =>
          /\ probe_wins <= b.half_open_successes
          /\ Cardinality(probes) <= b.half_open_in_flight + b.half_open_successes
    BY <1>1, <1>3, <1>4 DEF ProbeHistory
  <1>7. /\ b.half_open_in_flight \in 0 .. HalfOpenMaxRequests
        /\ b.half_open_successes \in 0 .. HalfOpenMaxRequests
        /\ breaker.half_open_in_flight \in 0 .. HalfOpenMaxRequests
        /\ breaker.half_open_successes \in 0 .. HalfOpenMaxRequests
    BY <1>1, <1>3 DEF WellFormed, Breaker
  <1>8. MoreEvidence \in 0 .. MinimumRequests
    BY <1>1, EvidenceType DEF ProbeHistory
  <1>9. ASSUME NEW c \in Callers, Admitted(c)
        PROVE  WellFormed(breaker') /\ ProbeHistory'
    <2>1. /\ Admits(b) /\ breaker' = Admit(b) /\ out' = out \cup {c}
          /\ probes' = IF b.state = "HALF_OPEN" THEN probes \cup {c} ELSE probes
          /\ age' = age /\ probe_wins' = probe_wins /\ evidence' = evidence
      BY <1>9 DEF Admitted, b
    <2>2. /\ WellFormed(breaker') /\ breaker'.state = b.state
          /\ b.state \in {"CLOSED", "HALF_OPEN"}
          /\ breaker'.half_open_successes = b.half_open_successes
          /\ b.state = "HALF_OPEN" => breaker'.half_open_in_flight
                                        = b.half_open_in_flight + 1
      BY <1>3, <2>1, AdmitFacts
    <2>3. Cardinality(probes \cup {c}) <= Cardinality(probes) + 1
          /\ Cardinality(probes \cup {c}) \in Nat
      BY <1>1, <1>5, CallerCount DEF ProbeHistory
    <2>4. CASE b.state = "HALF_OPEN"
      BY <1>1, <1>5, <1>6, <1>7, <2>1, <2>2, <2>3, <2>4, ConfigAssumption
         DEF ProbeHistory
    <2>5. CASE b.state = "CLOSED"
      BY <1>1, <1>3, <2>1, <2>2, <2>5 DEF ProbeHistory
    <2> QED  BY <2>2, <2>4, <2>5
  <1>10. ASSUME NEW c \in Callers, Refused(c)
         PROVE  WellFormed(breaker') /\ ProbeHistory'
    <2>1. /\ breaker' = b /\ out' = out /\ age' = age /\ probes' = probes
          /\ probe_wins' = probe_wins /\ evidence' = evidence
      BY <1>10 DEF Refused, b
    <2> QED  BY <1>1, <1>3, <1>6, <2>1 DEF ProbeHistory
  <1>11. ASSUME NEW c \in Callers, AdmittedInVain(c)
         PROVE  WellFormed(breaker') /\ ProbeHistory'
    <2>1. /\ Admits(b) /\ breaker' = RecordFailure(Admit(b)) /\ out' = out
          /\ age' = age /\ probes' = {} /\ probe_wins' = 0
          /\ evidence' = MoreEvidence
      BY <1>11 DEF AdmittedInVain, b
    <2>2. WellFormed(breaker') /\ breaker'.state \in {"CLOSED", "OPEN"}
      BY <1>3, <2>1, AdmitFacts, RecordFailureFacts
    <2> QED
      BY <1>1, <1>8, <2>1, <2>2, ConfigAssumption DEF ProbeHistory
  <1>12. ASSUME NEW c \in Callers, Ended(c)
         PROVE  /\ c \in out /\ out' = out \ {c}
                /\ age' \in [Callers -> 0 .. AttemptMax]
    BY <1>1, <1>12, CallersAssumption DEF Ended, ProbeHistory
  <1>13. ASSUME NEW c \in Callers, Succeeded(c)
         PROVE  WellFormed(breaker') /\ ProbeHistory'
    <2>1. /\ breaker' = RecordSuccess(breaker)
          /\ probes' = IF breaker'.state = "HALF_OPEN" THEN probes \ {c} ELSE {}
          /\ probe_wins' = IF c \in probes THEN probe_wins + 1 ELSE probe_wins
          /\ evidence' = MoreEvidence
      BY <1>13 DEF Succeeded
    <2>2. /\ c \in out /\ out' = out \ {c}
          /\ age' \in [Callers -> 0 .. AttemptMax]
      BY <1>12, <1>13 DEF Succeeded
    <2>3. WellFormed(breaker')
      BY <1>1, <2>1, RecordSuccessFacts
    <2>4. CASE breaker.state # "HALF_OPEN"
      <3>1. breaker'.state = breaker.state
        BY <1>1, <2>1, <2>4, RecordSuccessFacts
      <3> QED
        BY <1>1, <1>8, <2>1, <2>2, <2>3, <2>4, <3>1 DEF ProbeHistory
    <2>5. CASE breaker.state = "HALF_OPEN" /\ breaker'.state = "CLOSED"
      <3>1. breaker.half_open_successes + 1 = HalfOpenMaxRequests
        BY <1>1, <2>1, <2>5, RecordSuccessFacts
      <3>2. probe_wins' \in 0 .. HalfOpenMaxRequests
        BY <1>1, <1>7, <2>1, <2>5, <3>1, ConfigAssumption DEF ProbeHistory
      <3> QED
        BY <1>1, <1>8, <2>1, <2>2, <2>3, <2>5, <3>2 DEF ProbeHistory
    <2>6. CASE breaker.state = "HALF_OPEN" /\ breaker'.state = "HALF_OPEN"
      <3>1. /\ breaker'.half_open_successes = breaker.half_open_successes + 1
            /\ breaker'.half_open_in_flight
                 = OneLess(breaker.half_open_in_flight)
        BY <1>1, <2>1, <2>6, RecordSuccessFacts
      <3>2. Cardinality(probes \ {c}) <= Cardinality(probes)
            /\ Cardinality(probes \ {c}) \in Nat
        BY <1>5, CallerCount
      <3>3. Cardinality(probes') <= breaker'.half_open_in_flight
                                   + breaker'.half_open_successes
        BY <1>1, <1>5, <1>7, <2>1, <2>6, <3>1, <3>2
           DEF ProbeHistory, OneLess
      <3>4. breaker'.half_open_successes <= HalfOpenMaxRequests
        BY <2>3, ConfigAssumption DEF WellFormed, Breaker
      <3>5. /\ probe_wins' \in 0 .. HalfOpenMaxRequests
            /\ probe_wins' <= breaker'.half_open_successes
        BY <1>1, <1>7, <2>1, <2>6, <3>1, <3>4, ConfigAssumption
           DEF ProbeHistory
      <3> QED
        BY <1>1, <1>8, <2>1, <2>2, <2>3, <2>6, <3>3, <3>5 DEF ProbeHistory
    <2> QED  BY <1>1, <2>1, <2>4, <2>5, <2>6, RecordSuccessFacts
  <1>14. ASSUME NEW c \in Callers, Failed(c)
         PROVE  WellFormed(breaker') /\ ProbeHistory'
    <2>1. /\ breaker' = ReadState(RecordFailure(breaker))
          /\ probes' = {} /\ probe_wins' = 0 /\ evidence' = MoreEvidence
      BY <1>14 DEF Failed
    <2>2. /\ out' = out \ {c} /\ age' \in [Callers -> 0 .. AttemptMax]
      BY <1>12, <1>14 DEF Failed
    <2>3. WellFormed(breaker')
      BY <1>1, <2>1, RecordFailureFacts, ReadStateFacts
    <2>4. /\ breaker'.half_open_in_flight \in 0 .. HalfOpenMaxRequests
          /\ breaker'.half_open_successes \in 0 .. HalfOpenMaxRequests
      BY <2>3 DEF WellFormed, Breaker
    <2> QED
      BY <1>1, <1>4, <1>8, <2>1, <2>2, <2>3, <2>4, ConfigAssumption
         DEF ProbeHistory
  <1>15. ASSUME NEW c \in Callers, Unrecorded(c)
         PROVE  WellFormed(breaker') /\ ProbeHistory'
    <2>1. /\ breaker' = breaker /\ probes' = probes \ {c}
          /\ probe_wins' = probe_wins /\ evidence' = evidence
      BY <1>15 DEF Unrecorded
    <2>2. /\ out' = out \ {c} /\ age' \in [Callers -> 0 .. AttemptMax]
      BY <1>12, <1>15 DEF Unrecorded
    <2>3. Cardinality(probes \ {c}) <= Cardinality(probes)
          /\ Cardinality(probes \ {c}) \in Nat
      BY <1>5, CallerCount
    <2> QED
      BY <1>1, <1>5, <1>7, <2>1, <2>2, <2>3, ConfigAssumption DEF ProbeHistory
  <1>16. CASE Tick
    <2>1. /\ breaker' = Elapse(breaker) /\ out' = out /\ probes' = probes
          /\ probe_wins' = probe_wins /\ evidence' = evidence
      BY <1>16 DEF Tick
    <2>2. age' \in [Callers -> 0 .. AttemptMax]
      BY <1>1, <1>16, CallersAssumption DEF Tick, ProbeHistory
    <2>3. /\ WellFormed(breaker') /\ breaker'.state = breaker.state
          /\ breaker'.half_open_in_flight = breaker.half_open_in_flight
          /\ breaker'.half_open_successes = breaker.half_open_successes
      BY <1>1, <2>1, ElapseFacts
    <2> QED  BY <1>1, <2>1, <2>2, <2>3 DEF ProbeHistory
  <1>17. CASE UNCHANGED vars
    BY <1>1, <1>17 DEF vars, ProbeHistory
  <1> QED
    BY <1>9, <1>10, <1>11, <1>13, <1>14, <1>15, <1>16, <1>17 DEF Next

\* Every behaviour of the breaker and its callers keeps the types of
\* breaker.py's fields, the deque's maxlen included.
THEOREM TypeCorrect == Spec => []TypeOK
  <1>1. Inv => TypeOK
    BY DEF Inv
  <1> QED  BY <1>1, InitInv, NextInv, PTL DEF Spec

\* The probe counters of breaker.py account for the probes in flight in every
\* reachable state, late outcomes and unrecorded ends included.
THEOREM ProbesAccounted == Spec => []ProbeAccounting
  <1>1. Inv => ProbeAccounting
    BY DEF Inv
  <1> QED  BY <1>1, InitInv, NextInv, PTL DEF Spec

\* before_request never lets twice half_open_max_requests probes of one
\* HALF_OPEN period be in flight together.
THEOREM ProbesBounded == Spec => []ProbeBound
  <1>1. Inv => ProbeBound
    <2> SUFFICES ASSUME Inv PROVE ProbeBound
      OBVIOUS
    <2>1. WellFormed(breaker) /\ ProbeHistory
      BY InvSplit
    <2>2. probes \in SUBSET Callers
      BY <2>1 DEF ProbeHistory
    <2>3. Cardinality(probes) \in Nat /\ Cardinality({}) = 0
      BY <2>2, CallerCount
    <2>4. /\ breaker.half_open_in_flight \in 0 .. HalfOpenMaxRequests
          /\ breaker.half_open_successes \in 0 .. HalfOpenMaxRequests - 1
      BY <2>1, ConfigAssumption DEF WellFormed, Breaker
    <2>5. CASE breaker.state = "HALF_OPEN"
      BY <2>1, <2>3, <2>4, <2>5, ConfigAssumption DEF ProbeHistory, ProbeBound
    <2>6. CASE breaker.state # "HALF_OPEN"
      <3>1. Cardinality(probes) = 0
        BY <2>1, <2>3, <2>6 DEF ProbeHistory
      <3> QED  BY <3>1, ConfigAssumption DEF ProbeBound
    <2> QED  BY <2>5, <2>6
  <1> QED  BY <1>1, InitInv, NextInv, PTL DEF Spec

-----------------------------------------------------------------------------
(* Attempts that are over before open_duration is.                         *)

\* PromptAccounting is inductive relative to Inv.
LEMMA NextPrompt ==
    ASSUME AttemptMax < OpenDuration, Inv, PromptAccounting, [Next]_vars
    PROVE  /\ PromptAccounting'
           /\ breaker.state = "HALF_OPEN" /\ breaker'.state = "CLOSED"
                => probe_wins' = HalfOpenMaxRequests
  <1>1. WellFormed(breaker) /\ ProbeHistory
    BY InvSplit
  <1> DEFINE b == ReadState(breaker)
  <1>2. /\ WellFormed(b)
        /\ \/ b = breaker
           \/ /\ breaker.state = "OPEN" /\ breaker.open_for = OpenDuration
              /\ b.state = "HALF_OPEN"
              /\ b.half_open_in_flight = 0 /\ b.half_open_successes = 0
    BY <1>1, ReadStateFacts
  <1> HIDE DEF b
  \* Nobody is left in flight when open_duration is over.
  <1>3. breaker.state = "OPEN" /\ breaker.open_for = OpenDuration => out = {}
    BY <1>1, ConfigAssumption, CallersAssumption
       DEF PromptAccounting, ProbeHistory
  <1>4. Cardinality({}) = 0
    BY FS_EmptySet
  <1>5. probes \in SUBSET Callers /\ Cardinality(probes) \in Nat
    BY <1>1, CallerCount DEF ProbeHistory
  <1>6. b.state = "HALF_OPEN" =>
          /\ out = probes /\ probe_wins = b.half_open_successes
          /\ Cardinality(probes) <= b.half_open_in_flight
    <2>1. CASE b = breaker
      BY <2>1 DEF PromptAccounting
    <2>2. CASE breaker.state = "OPEN" /\ breaker.open_for = OpenDuration
               /\ b.half_open_in_flight = 0 /\ b.half_open_successes = 0
      BY <1>1, <1>3, <1>4, <2>2 DEF ProbeHistory
    <2> QED  BY <1>2, <2>1, <2>2
  <1>7. /\ b.half_open_in_flight \in 0 .. HalfOpenMaxRequests
        /\ breaker.half_open_in_flight \in 0 .. HalfOpenMaxRequests
        /\ breaker.half_open_successes \in 0 .. HalfOpenMaxRequests
    BY <1>1, <1>2 DEF WellFormed, Breaker
  <1>8. ASSUME NEW c \in out PROVE age[c] \in 0 .. AttemptMax
    BY <1>1, <1>8 DEF ProbeHistory
  <1> DEFINE Goal == /\ PromptAccounting'
                     /\ breaker.state = "HALF_OPEN" /\ breaker'.state = "CLOSED"
                          => probe_wins' = HalfOpenMaxRequests
  <1>9. ASSUME NEW c \in Callers, Admitted(c) PROVE Goal
    <2>1. /\ Admits(b) /\ breaker' = Admit(b) /\ out' = out \cup {c}
          /\ probes' = IF b.state = "HALF_OPEN" THEN probes \cup {c} ELSE probes
          /\ age' = age /\ probe_wins' = probe_wins
      BY <1>9 DEF Admitted, b
    <2>2. /\ breaker'.state = b.state /\ b.state \in {"CLOSED", "HALF_OPEN"}
          /\ breaker'.half_open_successes = b.half_open_successes
          /\ b.state = "HALF_OPEN" => breaker'.half_open_in_flight
                                        = b.half_open_in_flight + 1
      BY <1>2, <2>1, AdmitFacts
    <2>3. Cardinality(probes \cup {c}) <= Cardinality(probes) + 1
          /\ Cardinality(probes \cup {c}) \in Nat
      BY <1>1, <1>5, CallerCount DEF ProbeHistory
    <2> QED
      BY <1>2, <1>5, <1>6, <1>7, <2>1, <2>2, <2>3, ConfigAssumption
         DEF PromptAccounting
  <1>10. ASSUME NEW c \in Callers, Refused(c) PROVE Goal
    <2>1. /\ breaker' = b /\ out' = out /\ age' = age /\ probes' = probes
          /\ probe_wins' = probe_wins
      BY <1>10 DEF Refused, b
    <2> QED  BY <1>2, <1>6, <2>1 DEF PromptAccounting
  <1>11. ASSUME NEW c \in Callers, AdmittedInVain(c) PROVE Goal
    <2>1. /\ Admits(b) /\ breaker' = RecordFailure(Admit(b)) /\ out' = out
          /\ age' = age
      BY <1>11 DEF AdmittedInVain, b
    <2>2. /\ WellFormed(Admit(b)) /\ Admit(b).state = b.state
          /\ b.state \in {"CLOSED", "HALF_OPEN"}
      BY <1>2, <2>1, AdmitFacts
    <2>3. /\ breaker'.state \in {"CLOSED", "OPEN"}
          /\ breaker'.state = "CLOSED" => b.state = "CLOSED"
          /\ breaker'.state = "OPEN" => breaker'.open_for = 0
      BY <2>1, <2>2, RecordFailureFacts
    <2>4. breaker.state = "HALF_OPEN" => b.state = "HALF_OPEN"
      BY <1>2
    <2> QED  BY <1>8, <2>1, <2>3, <2>4, CallersAssumption DEF PromptAccounting
  <1>12. ASSUME NEW c \in Callers, Ended(c)
         PROVE  /\ c \in out /\ out' = out \ {c}
                /\ \A d \in out' : age'[d] = age[d]
    BY <1>1, <1>12 DEF Ended, ProbeHistory
  <1>13. ASSUME NEW c \in Callers, Succeeded(c) PROVE Goal
    <2>1. /\ breaker' = RecordSuccess(breaker)
          /\ probes' = IF breaker'.state = "HALF_OPEN" THEN probes \ {c} ELSE {}
          /\ probe_wins' = IF c \in probes THEN probe_wins + 1 ELSE probe_wins
      BY <1>13 DEF Succeeded
    <2>2. /\ c \in out /\ out' = out \ {c} /\ \A d \in out' : age'[d] = age[d]
      BY <1>12, <1>13 DEF Succeeded
    <2>3. CASE breaker.state # "HALF_OPEN"
      BY <1>1, <2>1, <2>2, <2>3, RecordSuccessFacts DEF PromptAccounting
    <2>4. CASE breaker.state = "HALF_OPEN"
      <3>1. /\ c \in probes /\ out = probes
            /\ probe_wins = breaker.half_open_successes
            /\ Cardinality(probes) <= breaker.half_open_in_flight
        BY <2>2, <2>4 DEF PromptAccounting
      <3>2. Cardinality(probes \ {c}) = Cardinality(probes) - 1
            /\ Cardinality(probes \ {c}) \in Nat
        BY <1>5, <3>1, CallerCount
      <3>3. \/ /\ breaker'.state = "CLOSED"
               /\ breaker.half_open_successes + 1 = HalfOpenMaxRequests
            \/ /\ breaker'.state = "HALF_OPEN"
               /\ breaker'.half_open_successes = breaker.half_open_successes + 1
               /\ breaker'.half_open_in_flight
                    = OneLess(breaker.half_open_in_flight)
        BY <1>1, <2>1, <2>4, RecordSuccessFacts
      <3> QED
        BY <1>5, <1>7, <2>1, <2>2, <3>1, <3>2, <3>3
           DEF PromptAccounting, OneLess
    <2> QED  BY <2>3, <2>4
  <1>14. ASSUME NEW c \in Callers, Failed(c) PROVE Goal
    <2>1. breaker' = ReadState(RecordFailure(breaker))
      BY <1>14 DEF Failed
    <2>2. /\ c \in out /\ out' = out \ {c} /\ \A d \in out' : age'[d] = age[d]
      BY <1>12, <1>14 DEF Failed
    <2>3. /\ WellFormed(RecordFailure(breaker))
          /\ RecordFailure(breaker).state \in {"CLOSED", "OPEN"}
          /\ RecordFailure(breaker).state = "CLOSED" => breaker.state = "CLOSED"
          /\ breaker.state = "OPEN"
               => RecordFailure(breaker).open_for = breaker.open_for
          /\ breaker.state # "OPEN" /\ RecordFailure(breaker).state = "OPEN"
               => RecordFailure(breaker).open_for = 0
      BY <1>1, RecordFailureFacts
    \* c was in flight, so the breaker has not been open for open_duration.
    <2>4. breaker' = RecordFailure(breaker)
      <3>1. CASE RecordFailure(breaker).state = "OPEN"
                 /\ RecordFailure(breaker).open_for = OpenDuration
        BY <1>1, <1>3, <2>2, <2>3, <3>1, ConfigAssumption
      <3>2. CASE ~(RecordFailure(breaker).state = "OPEN"
                   /\ RecordFailure(breaker).open_for = OpenDuration)
        BY <2>1, <2>3, <3>2, ReadStateFacts
      <3> QED  BY <3>1, <3>2
    <2>5. CASE breaker.state = "OPEN"
      BY <2>2, <2>3, <2>4, <2>5 DEF PromptAccounting
    <2>6. CASE breaker.state # "OPEN"
      BY <1>8, <2>2, <2>3, <2>4, <2>6, CallersAssumption DEF PromptAccounting
    <2> QED  BY <2>5, <2>6
  <1>15. ASSUME NEW c \in Callers, Unrecorded(c) PROVE Goal
    <2>1. /\ breaker' = breaker /\ probes' = probes \ {c}
          /\ probe_wins' = probe_wins
      BY <1>15 DEF Unrecorded
    <2>2. /\ out' = out \ {c} /\ \A d \in out' : age'[d] = age[d]
      BY <1>12, <1>15 DEF Unrecorded
    <2>3. Cardinality(probes \ {c}) <= Cardinality(probes)
          /\ Cardinality(probes \ {c}) \in Nat
      BY <1>5, CallerCount
    <2> QED  BY <1>5, <1>7, <2>1, <2>2, <2>3 DEF PromptAccounting
  <1>16. CASE Tick
    <2>1. /\ breaker' = Elapse(breaker) /\ out' = out /\ probes' = probes
          /\ probe_wins' = probe_wins
      BY <1>16 DEF Tick
    <2>2. \A d \in out : age'[d] = age[d] + 1
      BY <1>1, <1>16 DEF Tick, ProbeHistory
    <2>3. /\ breaker'.state = breaker.state
          /\ breaker'.half_open_in_flight = breaker.half_open_in_flight
          /\ breaker'.half_open_successes = breaker.half_open_successes
          /\ breaker'.open_for \in {breaker.open_for, breaker.open_for + 1}
          /\ breaker.open_for \in Int
      BY <1>1, <2>1, ElapseFacts, ConfigAssumption
         DEF WellFormed, Breaker, NeverOpened
    <2> QED
      BY <1>8, <2>1, <2>2, <2>3, CallersAssumption DEF PromptAccounting
  <1>17. CASE UNCHANGED vars
    BY <1>17 DEF vars, PromptAccounting
  <1> QED
    BY <1>9, <1>10, <1>11, <1>13, <1>14, <1>15, <1>16, <1>17 DEF Next

\* Nothing is in flight at first.
LEMMA InitPrompt == Init => PromptAccounting
  BY DEF Init, NewBreaker, PromptAccounting

\* Where every outcome is prompt, before_request's count caps the probes.
LEMMA PromptCap == Inv /\ PromptAccounting => ProbeCap
  <1> SUFFICES ASSUME Inv, PromptAccounting PROVE ProbeCap
    OBVIOUS
  <1>1. WellFormed(breaker) /\ ProbeHistory
    BY InvSplit
  <1>2. probes \in SUBSET Callers
    BY <1>1 DEF ProbeHistory
  <1>3. Cardinality(probes) \in Nat /\ Cardinality({}) = 0
    BY <1>2, CallerCount
  <1>4. breaker.half_open_in_flight \in 0 .. HalfOpenMaxRequests
    BY <1>1 DEF WellFormed, Breaker
  <1>5. CASE breaker.state = "HALF_OPEN"
    BY <1>3, <1>4, <1>5, ConfigAssumption DEF PromptAccounting, ProbeCap
  <1>6. CASE breaker.state # "HALF_OPEN"
    <2>1. Cardinality(probes) = 0
      BY <1>1, <1>3, <1>6 DEF ProbeHistory
    <2> QED  BY <2>1, ConfigAssumption DEF ProbeCap
  <1> QED  BY <1>5, <1>6

\* When attempts end before open_duration does, no outcome reaches a later
\* period than its own, and breaker.py's probe counters are exact.
THEOREM PromptAccounted ==
    ASSUME AttemptMax < OpenDuration
    PROVE  Spec => []PromptAccounting
  <1>1. Inv /\ PromptAccounting /\ [Next]_vars => PromptAccounting'
    BY NextPrompt
  <1> QED
    BY <1>1, InitInv, NextInv, InitPrompt, PTL DEF Spec

\* When attempts end before open_duration does, before_request keeps its
\* documented promise of at most half_open_max_requests concurrent probes.
THEOREM ProbesCapped ==
    ASSUME AttemptMax < OpenDuration
    PROVE  Spec => []ProbeCap
  <1>1. Inv /\ PromptAccounting /\ [Next]_vars => PromptAccounting'
    BY NextPrompt
  <1> QED
    BY <1>1, InitInv, NextInv, InitPrompt, PromptCap, PTL DEF Spec

\* Under the same condition the breaker closes only on successes of probes of
\* the HALF_OPEN period it leaves, half_open_max_requests of them.
THEOREM ClosesOnProbes ==
    ASSUME AttemptMax < OpenDuration
    PROVE  Spec => ClosedByProbes
  <1>1. Inv /\ PromptAccounting /\ [Next]_vars => PromptAccounting'
    BY NextPrompt
  <1>2. Inv /\ PromptAccounting /\ [Next]_vars
          => [breaker.state = "HALF_OPEN" /\ breaker'.state = "CLOSED"
                => probe_wins' = HalfOpenMaxRequests]_vars
    BY NextPrompt
  <1> QED
    BY <1>1, <1>2, InitInv, NextInv, InitPrompt, PTL DEF Spec, ClosedByProbes

-----------------------------------------------------------------------------
(* Prompt attempts: the breaker is a Circuit.                              *)

\* The circuit counts as the breaker does.
LEMMA SameCardinality == \A S : Contract!Cardinality(S) = Cardinality(S)
  BY DEF Contract!Cardinality, Cardinality

\* Under AttemptMax < OpenDuration a step of the breaker and its callers is a
\* step of the circuit, or leaves it as it is.
LEMMA ContractStep ==
    ASSUME AttemptMax < OpenDuration, Inv, PromptAccounting, [Next]_vars
    PROVE  [Contract!Next]_(Contract!vars)
  <1>1. WellFormed(breaker) /\ ProbeHistory
    BY InvSplit
  <1> DEFINE b == ReadState(breaker)
             Goal == [Contract!Next]_(Contract!vars)
  <1>2. /\ WellFormed(b)
        /\ \/ b = breaker
           \/ /\ breaker.state = "OPEN" /\ breaker.open_for = OpenDuration
              /\ b.state = "HALF_OPEN"
              /\ b.half_open_in_flight = 0 /\ b.half_open_successes = 0
    BY <1>1, ReadStateFacts
  <1> HIDE DEF b
  \* Nobody is left in flight when open_duration is over.
  <1>3. breaker.state = "OPEN" /\ breaker.open_for = OpenDuration => out = {}
    BY <1>1, ConfigAssumption, CallersAssumption
       DEF PromptAccounting, ProbeHistory
  <1>4. Cardinality({}) = 0 /\ out \in SUBSET Callers /\ Cardinality(out) \in Nat
    BY <1>1, FS_EmptySet, CallerCount DEF ProbeHistory
  <1>5. /\ breaker.state \in CircuitState
        /\ breaker.half_open_in_flight \in 0 .. HalfOpenMaxRequests
        /\ breaker.half_open_successes \in 0 .. HalfOpenMaxRequests - 1
        /\ breaker.state # "HALF_OPEN" => breaker.half_open_successes = 0
    BY <1>1, ConfigAssumption DEF WellFormed, Breaker
  <1>6. ASSUME NEW c \in Callers, Admitted(c) PROVE Goal
    <2>1. /\ Admits(b) /\ breaker' = Admit(b) /\ out' = out \cup {c}
      BY <1>6 DEF Admitted, b
    <2>2. /\ breaker'.state = b.state /\ b.state \in {"CLOSED", "HALF_OPEN"}
          /\ breaker'.half_open_successes = b.half_open_successes
      BY <1>2, <2>1, AdmitFacts
    <2>3. CASE b = breaker /\ b.state = "CLOSED"
      <3>1. Contract!Pass(c)
        BY <2>1, <2>2, <2>3 DEF Contract!Pass
      <3> QED  BY <3>1 DEF Contract!Next
    <2>4. CASE b = breaker /\ b.state = "HALF_OPEN"
      <3>1. Cardinality(out) < HalfOpenMaxRequests
        <4>1. breaker.half_open_in_flight < HalfOpenMaxRequests
          BY <2>1, <2>4 DEF Admits
        <4>2. Cardinality(out) <= breaker.half_open_in_flight
          BY <2>4 DEF PromptAccounting
        <4> QED  BY <1>4, <1>5, <4>1, <4>2, ConfigAssumption
      <3>2. Contract!Probe(c)
        BY <2>1, <2>2, <2>4, <3>1, SameCardinality DEF Contract!Probe
      <3> QED  BY <3>2 DEF Contract!Next
    <2>5. CASE b # breaker
      <3>1. /\ breaker.state = "OPEN" /\ breaker.open_for = OpenDuration
            /\ out = {} /\ b.state = "HALF_OPEN" /\ b.half_open_successes = 0
        BY <1>2, <1>3, <2>5
      <3>2. Contract!Rested
        BY <3>1 DEF Contract!Rested
      <3>3. Cardinality(out) < HalfOpenMaxRequests
        BY <1>4, <3>1, ConfigAssumption
      <3>4. breaker'.half_open_successes = breaker.half_open_successes
        BY <1>5, <2>2, <3>1
      <3>5. Contract!Probe(c)
        BY <2>1, <2>2, <3>1, <3>2, <3>3, <3>4, SameCardinality DEF Contract!Probe
      <3> QED  BY <3>5 DEF Contract!Next
    <2> QED  BY <2>2, <2>3, <2>4, <2>5
  <1>7. ASSUME NEW c \in Callers, Refused(c) PROVE Goal
    <2>1. breaker' = b /\ out' = out /\ ~Admits(b)
      BY <1>7 DEF Refused, b
    <2>2. b = breaker
      BY <1>2, <2>1, ConfigAssumption DEF Admits
    <2> QED  BY <2>1, <2>2 DEF Contract!vars
  <1>8. ASSUME NEW c \in Callers, AdmittedInVain(c) PROVE Goal
    <2>1. /\ Admits(b) /\ breaker' = RecordFailure(Admit(b)) /\ out' = out
          /\ c \notin out
      BY <1>8 DEF AdmittedInVain, b
    <2>2. /\ WellFormed(Admit(b)) /\ Admit(b).state = b.state
          /\ b.state \in {"CLOSED", "HALF_OPEN"}
      BY <1>2, <2>1, AdmitFacts
    <2>3. /\ WellFormed(breaker')
          /\ breaker'.state \in {"CLOSED", "OPEN"}
          /\ breaker'.state = "CLOSED" => b.state = "CLOSED"
          /\ breaker'.state = "OPEN" => breaker'.open_for = 0
      BY <2>1, <2>2, RecordFailureFacts
    <2>4. breaker'.half_open_successes = 0
      BY <2>3 DEF WellFormed
    <2>5. CASE breaker'.state = "CLOSED"
      <3>1. breaker.state = "CLOSED" /\ breaker.half_open_successes = 0
        BY <1>2, <1>5, <2>3, <2>5
      <3> QED  BY <2>1, <2>4, <2>5, <3>1 DEF Contract!vars
    <2>6. CASE breaker'.state = "OPEN"
      <3>1. breaker.state # "OPEN" \/ Contract!Rested
        BY <1>2, <1>3, <2>2 DEF Contract!Rested
      <3>2. out' = out \ {c}
        BY <2>1
      <3>3. Contract!Trip(c)
        BY <2>3, <2>4, <2>6, <3>1, <3>2 DEF Contract!Trip
      <3> QED  BY <3>3 DEF Contract!Next
    <2> QED  BY <2>3, <2>5, <2>6
  <1>9. ASSUME NEW c \in Callers, Succeeded(c) PROVE Goal
    <2>1. /\ breaker' = RecordSuccess(breaker) /\ c \in out /\ out' = out \ {c}
      BY <1>9 DEF Succeeded, Ended
    <2>2. CASE breaker.state # "HALF_OPEN"
      <3>1. /\ WellFormed(breaker') /\ breaker'.state = breaker.state
            /\ breaker'.open_for = breaker.open_for
        BY <1>1, <2>1, <2>2, RecordSuccessFacts
      <3>2. breaker'.half_open_successes = breaker.half_open_successes
        BY <1>5, <2>2, <3>1 DEF WellFormed
      <3>3. Contract!Return(c)
        BY <2>1, <3>1, <3>2 DEF Contract!Return
      <3> QED  BY <3>3 DEF Contract!Next
    <2>3. CASE breaker.state = "HALF_OPEN"
      <3>1. /\ WellFormed(breaker')
            /\ \/ /\ breaker'.state = "CLOSED"
                  /\ breaker.half_open_successes + 1 = HalfOpenMaxRequests
               \/ /\ breaker'.state = "HALF_OPEN"
                  /\ breaker'.half_open_successes
                       = breaker.half_open_successes + 1
        BY <1>1, <2>1, <2>3, RecordSuccessFacts
      <3>2. /\ breaker'.half_open_successes < HalfOpenMaxRequests
            /\ breaker'.state # "HALF_OPEN" => breaker'.half_open_successes = 0
        BY <3>1 DEF WellFormed
      <3>3. Contract!Win(c)
        BY <2>1, <2>3, <3>1, <3>2 DEF Contract!Win
      <3> QED  BY <3>3 DEF Contract!Next
    <2> QED  BY <2>2, <2>3
  <1>10. ASSUME NEW c \in Callers, Failed(c) PROVE Goal
    <2>1. /\ breaker' = ReadState(RecordFailure(breaker))
          /\ c \in out /\ out' = out \ {c}
      BY <1>10 DEF Failed, Ended
    <2>2. /\ WellFormed(RecordFailure(breaker))
          /\ RecordFailure(breaker).state \in {"CLOSED", "OPEN"}
          /\ RecordFailure(breaker).state = "CLOSED" => breaker.state = "CLOSED"
          /\ breaker.state = "OPEN"
               => RecordFailure(breaker).open_for = breaker.open_for
          /\ breaker.state # "OPEN" /\ RecordFailure(breaker).state = "OPEN"
               => RecordFailure(breaker).open_for = 0
      BY <1>1, RecordFailureFacts
    \* c was in flight, so the breaker has not been open for open_duration.
    <2>3. breaker' = RecordFailure(breaker)
      <3>1. ~(RecordFailure(breaker).state = "OPEN"
              /\ RecordFailure(breaker).open_for = OpenDuration)
        BY <1>3, <2>1, <2>2, ConfigAssumption
      <3> QED  BY <2>1, <2>2, <3>1, ReadStateFacts
    <2>4. breaker'.half_open_successes = 0
      BY <2>2, <2>3 DEF WellFormed
    <2>5. CASE breaker'.state = "CLOSED" \/ breaker.state = "OPEN"
      <3>1. /\ breaker'.state = breaker.state
            /\ breaker.state = "OPEN" => breaker'.open_for = breaker.open_for
            /\ breaker.half_open_successes = 0
        BY <1>5, <2>2, <2>3, <2>5
      <3>2. Contract!Return(c)
        BY <2>1, <2>4, <3>1 DEF Contract!Return
      <3> QED  BY <3>2 DEF Contract!Next
    <2>6. CASE breaker'.state = "OPEN" /\ breaker.state # "OPEN"
      <3>1. Contract!Trip(c)
        BY <2>1, <2>2, <2>3, <2>4, <2>6 DEF Contract!Trip
      <3> QED  BY <3>1 DEF Contract!Next
    <2> QED  BY <2>2, <2>3, <2>5, <2>6
  <1>11. ASSUME NEW c \in Callers, Unrecorded(c) PROVE Goal
    <2>1. Contract!Return(c)
      BY <1>11 DEF Unrecorded, Ended, Contract!Return
    <2> QED  BY <2>1 DEF Contract!Next
  <1>12. CASE Tick
    <2>1. breaker' = Elapse(breaker) /\ out' = out
      BY <1>12 DEF Tick
    <2>2. /\ breaker'.state = breaker.state
          /\ breaker'.half_open_successes = breaker.half_open_successes
      BY <1>1, <2>1, ElapseFacts
    <2>3. CASE breaker.state = "OPEN" /\ breaker.open_for < OpenDuration
      <3>1. breaker'.open_for = breaker.open_for + 1
        BY <1>1, <2>1, <2>3, ConfigAssumption
           DEF Elapse, WellFormed, Breaker, NeverOpened
      <3>2. Contract!Rest
        BY <2>1, <2>2, <2>3, <3>1 DEF Contract!Rest
      <3> QED  BY <3>2 DEF Contract!Next
    <2>4. CASE breaker.state = "OPEN" /\ ~(breaker.open_for < OpenDuration)
      <3>1. breaker' = breaker
        BY <1>1, <2>1, <2>4, ConfigAssumption
           DEF Elapse, WellFormed, Breaker, NeverOpened
      <3> QED  BY <2>1, <3>1 DEF Contract!vars
    <2>5. CASE breaker.state # "OPEN"
      BY <2>1, <2>2, <2>5 DEF Contract!vars
    <2> QED  BY <2>3, <2>4, <2>5
  <1>13. CASE UNCHANGED vars
    BY <1>13 DEF vars, Contract!vars
  <1> QED
    BY <1>6, <1>7, <1>8, <1>9, <1>10, <1>11, <1>12, <1>13 DEF Next

\* When attempts end before open_duration does, breaker.py keeps the contract
\* of a circuit: OPEN it sends nothing for open_duration, HALF_OPEN only
\* probes and at most half_open_max_requests at a time, and it closes on that
\* many successes of theirs.
THEOREM ImplementsCircuit ==
    ASSUME AttemptMax < OpenDuration
    PROVE  Spec => KeepsContract
  <1>1. Inv /\ PromptAccounting /\ [Next]_vars => PromptAccounting'
    BY NextPrompt
  <1>2. Init => Contract!Init
    BY DEF Init, NewBreaker, Contract!Init
  <1>3. Inv /\ PromptAccounting /\ [Next]_vars => [Contract!Next]_(Contract!vars)
    BY ContractStep
  <1> QED
    BY <1>1, <1>2, <1>3, InitInv, NextInv, InitPrompt, PTL
       DEF Spec, KeepsContract, Contract!Spec

-----------------------------------------------------------------------------
(* What becomes of a HALF_OPEN breaker that turns requests away.           *)

\* The count of probes is exact when, besides, every outcome is recorded.
ExactCount ==
    breaker.state = "HALF_OPEN"
        => breaker.half_open_in_flight = Cardinality(probes)

\* ExactCount is inductive relative to PromptAccounting.
LEMMA NextExact ==
    ASSUME AttemptMax < OpenDuration, ~UnrecordedEnds,
           Inv, PromptAccounting, ExactCount, [Next]_vars
    PROVE  ExactCount'
  <1>1. WellFormed(breaker) /\ ProbeHistory
    BY InvSplit
  <1> DEFINE b == ReadState(breaker)
  <1>2. /\ WellFormed(b)
        /\ \/ b = breaker
           \/ /\ breaker.state = "OPEN" /\ breaker.open_for = OpenDuration
              /\ b.half_open_in_flight = 0
    BY <1>1, ReadStateFacts
  <1> HIDE DEF b
  <1>3. Cardinality({}) = 0 /\ probes \in SUBSET Callers /\ IsFiniteSet(probes)
    BY <1>1, FS_EmptySet, FS_Subset, CallersAssumption DEF ProbeHistory
  <1>4. b.state = "HALF_OPEN" => b.half_open_in_flight = Cardinality(probes)
    <2>1. CASE b = breaker
      BY <2>1 DEF ExactCount
    <2>2. CASE breaker.state = "OPEN" /\ b.half_open_in_flight = 0
      BY <1>1, <1>3, <2>2 DEF ProbeHistory
    <2> QED  BY <1>2, <2>1, <2>2
  <1>5. /\ Cardinality(probes) \in Nat
        /\ \A c : c \notin probes
             => Cardinality(probes \cup {c}) = Cardinality(probes) + 1
        /\ \A c : c \in probes
             => Cardinality(probes \ {c}) = Cardinality(probes) - 1
    BY <1>3, FS_CardinalityType, FS_AddElement, FS_RemoveElement
  <1>6. ASSUME NEW c \in Callers, Admitted(c) PROVE ExactCount'
    <2>1. /\ Admits(b) /\ breaker' = Admit(b) /\ c \notin out
          /\ probes' = IF b.state = "HALF_OPEN" THEN probes \cup {c} ELSE probes
      BY <1>6 DEF Admitted, b
    <2>2. /\ breaker'.state = b.state
          /\ b.state = "HALF_OPEN" => breaker'.half_open_in_flight
                                        = b.half_open_in_flight + 1
      BY <1>2, <2>1, AdmitFacts
    <2>3. c \notin probes
      BY <1>1, <2>1 DEF ProbeHistory
    <2> QED  BY <1>4, <1>5, <2>1, <2>2, <2>3 DEF ExactCount
  <1>7. ASSUME NEW c \in Callers, Refused(c) PROVE ExactCount'
    BY <1>4, <1>7 DEF Refused, ExactCount, b
  <1>8. ASSUME NEW c \in Callers, AdmittedInVain(c) PROVE ExactCount'
    <2>1. Admits(b) /\ breaker' = RecordFailure(Admit(b))
      BY <1>8 DEF AdmittedInVain, b
    <2>2. breaker'.state # "HALF_OPEN"
      BY <1>2, <2>1, AdmitFacts, RecordFailureFacts
    <2> QED  BY <2>2 DEF ExactCount
  <1>9. ASSUME NEW c \in Callers, Succeeded(c) PROVE ExactCount'
    <2>1. /\ breaker' = RecordSuccess(breaker) /\ c \in out
          /\ probes' = IF breaker'.state = "HALF_OPEN" THEN probes \ {c} ELSE {}
      BY <1>9 DEF Succeeded, Ended
    <2>2. CASE breaker'.state = "HALF_OPEN"
      <3>1. /\ breaker.state = "HALF_OPEN"
            /\ breaker'.half_open_in_flight
                 = OneLess(breaker.half_open_in_flight)
        BY <1>1, <2>1, <2>2, RecordSuccessFacts
      <3>2. c \in probes
        BY <2>1, <3>1 DEF PromptAccounting
      <3>3. /\ Cardinality(probes \ {c}) = Cardinality(probes) - 1
            /\ Cardinality(probes \ {c}) \in Nat
        BY <1>3, <1>5, <3>2, CallerCount
      <3> QED
        BY <1>5, <2>1, <2>2, <3>1, <3>3 DEF ExactCount, OneLess
    <2> QED  BY <2>2 DEF ExactCount
  <1>10. ASSUME NEW c \in Callers, Failed(c) PROVE ExactCount'
    <2>1. /\ breaker' = ReadState(RecordFailure(breaker)) /\ probes' = {}
      BY <1>10 DEF Failed
    <2>2. /\ WellFormed(RecordFailure(breaker))
          /\ RecordFailure(breaker).state \in {"CLOSED", "OPEN"}
      BY <1>1, RecordFailureFacts
    <2>3. breaker'.state = "HALF_OPEN" => breaker'.half_open_in_flight = 0
      BY <2>1, <2>2, ReadStateFacts
    <2> QED  BY <1>3, <2>1, <2>3 DEF ExactCount
  <1>11. CASE Tick
    <2>1. breaker' = Elapse(breaker) /\ probes' = probes
      BY <1>11 DEF Tick
    <2>2. /\ breaker'.state = breaker.state
          /\ breaker'.half_open_in_flight = breaker.half_open_in_flight
      BY <1>1, <2>1, ElapseFacts
    <2> QED  BY <2>1, <2>2 DEF ExactCount
  <1>12. CASE UNCHANGED vars
    BY <1>12 DEF vars, ExactCount
  <1> QED
    BY <1>6, <1>7, <1>8, <1>9, <1>10, <1>11, <1>12 DEF Next, Unrecorded

\* When attempts end before open_duration does and each reports its outcome,
\* before_request turns a request away in HALF_OPEN only while a probe that
\* will report is in flight.
THEOREM SaturationHasProbes ==
    ASSUME AttemptMax < OpenDuration, ~UnrecordedEnds
    PROVE  Spec => []SaturatedByProbes
  <1>1. Inv /\ PromptAccounting /\ [Next]_vars => PromptAccounting'
    BY NextPrompt
  <1>2. Inv /\ PromptAccounting /\ ExactCount /\ [Next]_vars => ExactCount'
    BY NextExact
  <1>3. Init => ExactCount
    BY DEF Init, NewBreaker, ExactCount
  <1>4. ExactCount => SaturatedByProbes
    BY FS_EmptySet, ConfigAssumption
       DEF ExactCount, SaturatedByProbes, Saturated
  <1> QED
    BY <1>1, <1>2, <1>3, <1>4, InitInv, NextInv, InitPrompt, PTL DEF Spec

\* Whatever came before, the next outcome reported to a HALF_OPEN breaker that
\* turns requests away closes it, reopens it or frees a slot: record_success
\* and record_failure never leave it saturated.
THEOREM OutcomesFreeSlots == Spec => OutcomeFrees
  <1>1. ASSUME Inv, Saturated,
               NEW c \in Callers, Succeeded(c) \/ Failed(c)
        PROVE  ~Saturated'
    <2>1. /\ WellFormed(breaker) /\ breaker.state = "HALF_OPEN"
          /\ breaker.half_open_in_flight >= HalfOpenMaxRequests
      BY <1>1, InvSplit DEF Saturated
    <2>2. breaker.half_open_in_flight = HalfOpenMaxRequests
      BY <2>1, ConfigAssumption DEF WellFormed, Breaker
    <2>3. CASE Succeeded(c)
      <3>1. \/ breaker'.state = "CLOSED"
            \/ breaker'.half_open_in_flight = OneLess(HalfOpenMaxRequests)
        BY <2>1, <2>2, <2>3, RecordSuccessFacts DEF Succeeded
      <3> QED  BY <3>1, ConfigAssumption DEF Saturated, OneLess
    <2>4. CASE Failed(c)
      <3>1. /\ WellFormed(RecordFailure(breaker))
            /\ RecordFailure(breaker).state \in {"CLOSED", "OPEN"}
        BY <2>1, RecordFailureFacts
      <3>2. breaker'.state = "HALF_OPEN" => breaker'.half_open_in_flight = 0
        BY <2>4, <3>1, ReadStateFacts DEF Failed
      <3> QED  BY <3>2, ConfigAssumption DEF Saturated
    <2> QED  BY <1>1, <2>3, <2>4
  <1>2. Inv /\ [Next]_vars
          => [Saturated /\ (\E c \in Callers : Succeeded(c) \/ Failed(c))
                => ~Saturated']_vars
    BY <1>1
  <1> QED  BY <1>2, InitInv, NextInv, PTL DEF Spec, OutcomeFrees

\* An outcome that is never recorded costs more than its slot: once they are
\* all lost to attempts that are over, no request reaches the backend again.
\* breaker.py has no way out of HALF_OPEN but an outcome.
THEOREM LeakIsForever == Spec => [](Leaked => []Leaked)
  <1>1. ASSUME Inv, Leaked, [Next]_vars PROVE Leaked'
    <2>1. /\ WellFormed(breaker) /\ breaker.state = "HALF_OPEN"
          /\ breaker.half_open_in_flight >= HalfOpenMaxRequests /\ out = {}
      BY <1>1, InvSplit DEF Leaked, Saturated
    <2>2. ReadState(breaker) = breaker
      BY <2>1 DEF ReadState
    <2>3. ~Admits(breaker)
      BY <2>1, ConfigAssumption DEF Admits, WellFormed, Breaker
    <2>4. \A c \in Callers : ~Admitted(c) /\ ~AdmittedInVain(c)
      BY <2>2, <2>3 DEF Admitted, AdmittedInVain
    <2>5. \A c \in Callers : ~Succeeded(c) /\ ~Failed(c) /\ ~Unrecorded(c)
      BY <2>1 DEF Succeeded, Failed, Unrecorded, Ended
    <2>6. ASSUME NEW c \in Callers, Refused(c) PROVE Leaked'
      BY <1>1, <2>2, <2>6 DEF Refused, Leaked, Saturated
    <2>7. CASE Tick
      <3>1. breaker' = Elapse(breaker) /\ out' = out
        BY <2>7 DEF Tick
      <3> QED  BY <2>1, <3>1, ElapseFacts DEF Leaked, Saturated
    <2>8. CASE UNCHANGED vars
      BY <1>1, <2>8 DEF vars, Leaked, Saturated
    <2> QED  BY <1>1, <2>4, <2>5, <2>6, <2>7, <2>8 DEF Next
  <1> QED  BY <1>1, InitInv, NextInv, PTL DEF Spec

-----------------------------------------------------------------------------
(* What trips a CLOSED breaker.                                            *)

\* The window of a CLOSED breaker holds nothing from before it closed.
FreshWindow ==
    breaker.state = "CLOSED" => \/ Len(breaker.outcomes) <= evidence
                                \/ evidence = MinimumRequests

\* Remembering an outcome lengthens the window by at most one.
LEMMA RememberLength ==
    ASSUME NEW w \in Seq(BOOLEAN), NEW s \in BOOLEAN
    PROVE  Len(Remember(w, s)) <= Len(w) + 1
  <1>1. CASE Len(w) < RollingWindowSize
    BY <1>1 DEF Remember
  <1>2. CASE ~(Len(w) < RollingWindowSize)
    <2>1. w # <<>>
      BY <1>2, ConfigAssumption
    <2>2. Tail(w) \in Seq(BOOLEAN) /\ Len(Tail(w)) = Len(w) - 1
      BY <2>1
    <2> QED  BY <1>2, <2>2 DEF Remember
  <1> QED  BY <1>1, <1>2

\* record_success and record_failure on a CLOSED breaker: the window grows by
\* at most one, and opening takes a window of minimum_requests.
LEMMA ClosedWindow ==
    ASSUME NEW b, WellFormed(b), b.state = "CLOSED"
    PROVE  /\ RecordSuccess(b).state = "CLOSED"
           /\ Len(RecordSuccess(b).outcomes) <= Len(b.outcomes) + 1
           /\ Len(RecordFailure(b).outcomes) <= Len(b.outcomes) + 1
           /\ RecordFailure(b).state = "OPEN"
                => Len(RecordFailure(b).outcomes) >= MinimumRequests
  <1> DEFINE b1 == [b EXCEPT !.outcomes = Remember(@, FALSE)]
  <1>1. /\ Len(Remember(b.outcomes, TRUE)) <= Len(b.outcomes) + 1
        /\ Len(Remember(b.outcomes, FALSE)) <= Len(b.outcomes) + 1
    BY RememberLength DEF WellFormed, Breaker
  <1>2. /\ RecordSuccess(b).outcomes = Remember(b.outcomes, TRUE)
        /\ RecordSuccess(b).state = "CLOSED"
    BY DEF WellFormed, Breaker, RecordSuccess
  <1>3. RecordFailure(b) = MaybeOpen(b1)
    BY DEF RecordFailure
  <1>4. b1.outcomes = Remember(b.outcomes, FALSE) /\ b1.state = "CLOSED"
    BY DEF WellFormed, Breaker
  <1> HIDE DEF b1
  <1>5. CASE RateReached(b1.outcomes)
    <2>1. RecordFailure(b).outcomes = b1.outcomes
      BY <1>3, <1>5 DEF MaybeOpen, TransitionToOpen
    <2>2. Len(b1.outcomes) >= MinimumRequests
      BY <1>5 DEF RateReached
    <2> QED  BY <1>1, <1>2, <1>4, <2>1, <2>2
  <1>6. CASE ~RateReached(b1.outcomes)
    BY <1>1, <1>2, <1>3, <1>4, <1>6 DEF MaybeOpen
  <1> QED  BY <1>5, <1>6

\* The window never holds more outcomes than were recorded since the breaker
\* last became CLOSED, and opening takes minimum_requests of them.
LEMMA NextFresh ==
    ASSUME Inv, FreshWindow, [Next]_vars
    PROVE  /\ FreshWindow'
           /\ breaker.state = "CLOSED" /\ breaker'.state = "OPEN"
                => evidence' = MinimumRequests
  <1> DEFINE Goal == /\ FreshWindow'
                     /\ breaker.state = "CLOSED" /\ breaker'.state = "OPEN"
                          => evidence' = MinimumRequests
  <1>1. WellFormed(breaker) /\ evidence \in 0 .. MinimumRequests
    BY InvSplit DEF ProbeHistory
  <1>2. Len(breaker.outcomes) \in Nat
    BY <1>1 DEF WellFormed, Breaker
  <1>3. breaker.state = "CLOSED" => ReadState(breaker) = breaker
    BY DEF ReadState
  <1>4. breaker.state # "CLOSED" => ReadState(breaker).state # "CLOSED"
    BY <1>1, ReadStateFacts
  \* An outcome recorded in a CLOSED breaker.
  <1>5. ASSUME NEW b, breaker.state = "CLOSED", breaker' = b,
               evidence' = MoreEvidence,
               Len(b.outcomes) \in Nat,
               Len(b.outcomes) <= Len(breaker.outcomes) + 1,
               b.state = "OPEN" => Len(b.outcomes) >= MinimumRequests
        PROVE  Goal
    BY <1>1, <1>2, <1>5, ConfigAssumption DEF FreshWindow, MoreEvidence
  <1>6. /\ WellFormed(RecordFailure(breaker)) /\ WellFormed(RecordSuccess(breaker))
    BY <1>1, RecordFailureFacts, RecordSuccessFacts
  <1>7. /\ Len(RecordFailure(breaker).outcomes) \in Nat
        /\ Len(RecordSuccess(breaker).outcomes) \in Nat
    BY <1>6 DEF WellFormed, Breaker
  <1>8. ASSUME NEW c \in Callers, Admitted(c) PROVE Goal
    <2>1. CASE breaker.state = "CLOSED"
      BY <1>3, <1>8, <2>1 DEF Admitted, Admit, FreshWindow
    <2>2. CASE breaker.state # "CLOSED"
      <3>1. breaker'.state # "CLOSED"
        BY <1>1, <1>4, <1>8, <2>2, ReadStateFacts, AdmitFacts DEF Admitted
      <3> QED  BY <2>2, <3>1 DEF FreshWindow
    <2> QED  BY <2>1, <2>2
  <1>9. ASSUME NEW c \in Callers, Refused(c) PROVE Goal
    <2>1. CASE breaker.state = "CLOSED"
      BY <1>3, <1>9, <2>1 DEF Refused, Admits
    <2>2. CASE breaker.state # "CLOSED"
      BY <1>4, <1>9, <2>2 DEF Refused, FreshWindow
    <2> QED  BY <2>1, <2>2
  <1>10. ASSUME NEW c \in Callers, AdmittedInVain(c) PROVE Goal
    <2>1. CASE breaker.state = "CLOSED"
      <3>1. breaker' = RecordFailure(breaker) /\ evidence' = MoreEvidence
        BY <1>3, <1>10, <2>1 DEF AdmittedInVain, Admit
      <3> QED  BY <1>1, <1>5, <1>7, <2>1, <3>1, ClosedWindow
    <2>2. CASE breaker.state # "CLOSED"
      <3>1. breaker'.state # "CLOSED"
        BY <1>1, <1>4, <1>10, <2>2, ReadStateFacts, AdmitFacts,
           RecordFailureFacts DEF AdmittedInVain
      <3> QED  BY <2>2, <3>1 DEF FreshWindow
    <2> QED  BY <2>1, <2>2
  <1>11. ASSUME NEW c \in Callers, Succeeded(c) PROVE Goal
    <2>1. breaker' = RecordSuccess(breaker) /\ evidence' = MoreEvidence
      BY <1>11 DEF Succeeded
    <2>2. CASE breaker.state = "CLOSED"
      <3>1. /\ RecordSuccess(breaker).state = "CLOSED"
            /\ Len(RecordSuccess(breaker).outcomes)
                 <= Len(breaker.outcomes) + 1
        BY <1>1, <2>2, ClosedWindow
      <3> QED  BY <1>5, <1>7, <2>1, <2>2, <3>1
    <2>3. CASE breaker.state # "CLOSED"
      <3>1. breaker'.state = "CLOSED" => breaker'.outcomes = <<>>
        BY <1>1, <2>1, <2>3
           DEF RecordSuccess, TransitionToClosed, NewBreaker, WellFormed, Breaker
      <3>2. evidence' = 0
        BY <2>1, <2>3 DEF MoreEvidence
      <3> QED  BY <2>3, <3>1, <3>2 DEF FreshWindow
    <2> QED  BY <2>2, <2>3
  <1>12. ASSUME NEW c \in Callers, Failed(c) PROVE Goal
    <2>1. /\ breaker' = ReadState(RecordFailure(breaker))
          /\ evidence' = MoreEvidence
      BY <1>12 DEF Failed
    <2>2. CASE breaker.state = "CLOSED"
      <3>1. RecordFailure(breaker).state = "OPEN"
              => RecordFailure(breaker).open_for = 0
        BY <1>1, <2>2, RecordFailureFacts
      <3>2. breaker' = RecordFailure(breaker)
        BY <2>1, <3>1, ConfigAssumption DEF ReadState
      <3> QED  BY <1>1, <1>5, <1>7, <2>1, <2>2, <3>2, ClosedWindow
    <2>3. CASE breaker.state # "CLOSED"
      <3>1. breaker'.state # "CLOSED"
        BY <1>1, <2>1, <2>3, RecordFailureFacts, ReadStateFacts
      <3> QED  BY <2>3, <3>1 DEF FreshWindow
    <2> QED  BY <2>2, <2>3
  <1>13. ASSUME NEW c \in Callers, Unrecorded(c) PROVE Goal
    BY <1>13 DEF Unrecorded, FreshWindow
  <1>14. CASE Tick
    <2>1. breaker'.state = breaker.state
      BY <1>1, <1>14, ElapseFacts DEF Tick
    <2>2. breaker'.outcomes = breaker.outcomes
      BY <1>1, <1>14 DEF Tick, Elapse, WellFormed, Breaker
    <2> QED  BY <1>14, <2>1, <2>2 DEF Tick, FreshWindow
  <1>15. CASE UNCHANGED vars
    BY <1>15 DEF vars, FreshWindow
  <1> QED
    BY <1>8, <1>9, <1>10, <1>11, <1>12, <1>13, <1>14, <1>15 DEF Next

\* _transition_to_closed clears the window: a breaker that recovered opens
\* again only on minimum_requests outcomes recorded since.
THEOREM TripsOnFreshEvidence == Spec => TrippedByFreshEvidence
  <1>1. Init => FreshWindow
    BY ConfigAssumption DEF Init, NewBreaker, FreshWindow
  <1>2. Inv /\ FreshWindow /\ [Next]_vars => FreshWindow'
    BY NextFresh
  <1>3. Inv /\ FreshWindow /\ [Next]_vars
          => [breaker.state = "CLOSED" /\ breaker'.state = "OPEN"
                => evidence' = MinimumRequests]_vars
    BY NextFresh
  <1> QED
    BY <1>1, <1>2, <1>3, InitInv, NextInv, PTL DEF Spec, TrippedByFreshEvidence

\* The latest outcome is at the end of the window.
LEMMA RememberLast ==
    ASSUME NEW w \in Seq(BOOLEAN), NEW s \in BOOLEAN, NEW v, v = Remember(w, s)
    PROVE  v[Len(v)] = s
  <1>1. CASE Len(w) < RollingWindowSize
    BY <1>1 DEF Remember
  <1>2. CASE ~(Len(w) < RollingWindowSize)
    <2>1. w # <<>>
      BY <1>2, ConfigAssumption
    <2>2. Tail(w) \in Seq(BOOLEAN)
      BY <2>1
    <2>3. \A u \in Seq(BOOLEAN) : Append(u, s)[Len(Append(u, s))] = s
      OBVIOUS
    <2> QED  BY <1>2, <2>2, <2>3 DEF Remember
  <1> QED  BY <1>1, <1>2

\* ThresholdWaitsForFailure, of a breaker.
Waits(b) == b.state = "CLOSED" /\ RateReached(b.outcomes)
              => b.outcomes = <<>> \/ b.outcomes[Len(b.outcomes)]

\* A failure recorded in a CLOSED breaker is weighed; a success is the latest
\* outcome.
LEMMA RecordedWaits ==
    ASSUME NEW b, WellFormed(b)
    PROVE  Waits(RecordSuccess(b)) /\ Waits(RecordFailure(b))
  <1> DEFINE b1 == [b EXCEPT !.outcomes = Remember(@, FALSE)]
             w == Remember(b.outcomes, TRUE)
  <1>1. w[Len(w)] = TRUE
    BY RememberLast DEF WellFormed, Breaker
  <1>2. CASE b.state = "CLOSED"
    <2>1. RecordSuccess(b).outcomes = w
      BY <1>2 DEF WellFormed, Breaker, RecordSuccess
    <2>2. Waits(RecordSuccess(b))
      BY <1>1, <2>1 DEF Waits
    <2>3. RecordFailure(b) = MaybeOpen(b1)
      BY <1>2 DEF RecordFailure
    <2> HIDE DEF b1
    <2>4. Waits(MaybeOpen(b1))
      BY DEF Waits, MaybeOpen, TransitionToOpen
    <2> QED  BY <2>2, <2>3, <2>4
  <1>3. CASE b.state # "CLOSED"
    <2>1. RecordFailure(b).state # "CLOSED"
      BY <1>3, RecordFailureFacts
    <2>2. RecordSuccess(b).state = "CLOSED" => RecordSuccess(b).outcomes = <<>>
      BY <1>3
         DEF RecordSuccess, TransitionToClosed, NewBreaker, WellFormed, Breaker
    <2> QED  BY <2>1, <2>2 DEF Waits
  <1> QED  BY <1>2, <1>3

\* _maybe_open is called by record_failure alone: a CLOSED breaker past its
\* threshold has a success as its latest outcome.
THEOREM ThresholdSeenByFailures == Spec => []ThresholdWaitsForFailure
  <1>1. Init => ThresholdWaitsForFailure
    BY DEF Init, NewBreaker, ThresholdWaitsForFailure
  <1>2. ASSUME Inv, ThresholdWaitsForFailure, [Next]_vars
        PROVE  ThresholdWaitsForFailure'
    <2>1. WellFormed(breaker) /\ Waits(breaker)
      BY <1>2, InvSplit DEF ThresholdWaitsForFailure, Waits
    <2>2. SUFFICES Waits(breaker')
      BY DEF ThresholdWaitsForFailure, Waits
    <2> DEFINE b == ReadState(breaker)
    <2>3. WellFormed(b) /\ Waits(b)
      BY <2>1, ReadStateFacts DEF Waits
    <2> HIDE DEF b
    <2>4. CASE \E c \in Callers : Admitted(c) \/ Refused(c)
      <3>1. Admits(b) => Waits(Admit(b))
        BY <2>3 DEF Waits, Admit, WellFormed, Breaker
      <3>2. breaker' = b \/ (Admits(b) /\ breaker' = Admit(b))
        BY <2>4 DEF Admitted, Refused, b
      <3> QED  BY <2>3, <3>1, <3>2
    <2>5. CASE \E c \in Callers : AdmittedInVain(c)
      <3>1. Admits(b) /\ breaker' = RecordFailure(Admit(b))
        BY <2>5 DEF AdmittedInVain, b
      <3> QED  BY <2>3, <3>1, AdmitFacts, RecordedWaits
    <2>6. CASE \E c \in Callers : Succeeded(c)
      BY <2>1, <2>6, RecordedWaits DEF Succeeded
    <2>7. CASE \E c \in Callers : Failed(c)
      <3>1. /\ WellFormed(RecordFailure(breaker))
            /\ Waits(RecordFailure(breaker))
        BY <2>1, RecordFailureFacts, RecordedWaits
      <3>2. breaker' = ReadState(RecordFailure(breaker))
        BY <2>7 DEF Failed
      <3> QED  BY <3>1, <3>2, ReadStateFacts DEF Waits
    <2>8. CASE \E c \in Callers : Unrecorded(c)
      BY <2>1, <2>8 DEF Unrecorded
    <2>9. CASE Tick
      <3>1. breaker'.state = breaker.state /\ breaker'.outcomes = breaker.outcomes
        BY <2>1, <2>9 DEF Tick, Elapse, WellFormed, Breaker
      <3> QED  BY <2>1, <3>1 DEF Waits
    <2>10. CASE UNCHANGED vars
      BY <2>1, <2>10 DEF vars
    <2> QED
      BY <1>2, <2>4, <2>5, <2>6, <2>7, <2>8, <2>9, <2>10 DEF Next
  <1> QED  BY <1>1, <1>2, InitInv, NextInv, PTL DEF Spec
=============================================================================
