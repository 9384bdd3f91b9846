---------------------------- MODULE BackendPool -----------------------------
(***************************************************************************)
(* The instances of one backend service: HealthChecker of                  *)
(* src/apps/gateway/health/checker.py, which writes their status, and      *)
(* WeightedRoundRobinSelector of src/apps/gateway/routing/router.py, which *)
(* reads it whenever an attempt is about to be forwarded.                  *)
(*                                                                         *)
(* The checker awaits one instance after another, then sleeps; a selection *)
(* does not await and may come at any point of a round.  Instances are     *)
(* numbered in the order of the configuration.  The checker goes through   *)
(* all services in one round, so an instance that is never routable may    *)
(* also stand for one of another service.  No code drains an instance:     *)
(* DRAINING is a status that the checker respects and nothing sets.        *)
(***************************************************************************)
EXTENDS Integers, Sequences, FiniteSetsExt

CONSTANTS Instances, Weight, FailureThreshold, SuccessThreshold, Broken

ASSUME PoolAssumption ==
    /\ IsFiniteSet(Instances) /\ Instances \subseteq Nat \ {0}
    /\ Weight \in [Instances -> Int]
    /\ FailureThreshold \in Nat \ {0} /\ SuccessThreshold \in Nat \ {0}
    /\ Broken \subseteq Instances

InstanceStatus == {"HEALTHY", "UNHEALTHY", "DRAINING", "UNKNOWN"}

(* up is whether an instance answers /health below 500 (it may change at    *)
(* any time); Broken holds those whose check raises an error that is not an *)
(* httpx.HTTPError.  checking is the instance awaited, 0 during the sleep.  *)
(* The counters stop at their thresholds: only >= is asked of them.  cycle, *)
(* place (of the instance last taken) and signature are the selector's      *)
(* entry for the service; weights do not change, so a signature is a set.   *)
(* The rest is history: picked is the instance the last step selected, 0 if *)
(* it was no selection, picks the selections of this turn of the cycle, and *)
(* results the last results of an instance's checks.                        *)
VARIABLES up, status, consecutive_successes, consecutive_failures, checking,
          cycle, place, signature, picked, picks, results

health == <<status, consecutive_successes, consecutive_failures, results>>
selector == <<cycle, place, signature, picks>>
vars == <<up, health, checking, selector, picked>>

\* As many results as a status may depend on.
Memory == Max({FailureThreshold, SuccessThreshold})

-----------------------------------------------------------------------------
IsRoutable(i) == status[i] = "HEALTHY"

Routable == {i \in Instances : IsRoutable(i)}

\* max(1, weight).
Share(i) == IF Weight[i] >= 1 THEN Weight[i] ELSE 1

\* How often i occurs in a sequence.
Occurrences(s, i) == Cardinality({k \in DOMAIN s : s[k] = i})

\* The entries of `expanded`, told apart.
Expanded(S) == UNION {{<<i, k>> : k \in 1 .. Share(i)} : i \in S}

\* Mutant of Shuffles: weights are ignored.
ShufflesUnweighted(S) ==
    {c \in [1 .. Cardinality(S) -> S] : \A i \in S : Occurrences(c, i) = 1}

\* The outcomes of random.shuffle(expanded).
Shuffles(S) ==
    {c \in [1 .. Cardinality(Expanded(S)) -> S] :
        \A i \in S : Occurrences(c, i) = Share(i)}

TypeOK ==
    /\ up \in [Instances -> BOOLEAN]
    /\ status \in [Instances -> InstanceStatus]
    /\ consecutive_successes \in [Instances -> 0 .. SuccessThreshold]
    /\ consecutive_failures \in [Instances -> 0 .. FailureThreshold]
    /\ checking \in Instances \cup {0}
    /\ signature \subseteq Instances
    /\ cycle \in Seq(signature) /\ place \in 0 .. Len(cycle)
    /\ picked \in Instances \cup {0}
    /\ picks \in [Instances -> Nat]
    /\ results \in [Instances -> Seq(BOOLEAN)]

\* Instances are loaded with status UNKNOWN.
Init ==
    /\ up \in [Instances -> BOOLEAN]
    /\ status = [i \in Instances |-> "UNKNOWN"]
    /\ consecutive_successes = [i \in Instances |-> 0]
    /\ consecutive_failures = [i \in Instances |-> 0]
    /\ checking = 0
    /\ cycle = <<>> /\ place = 0 /\ signature = {}
    /\ picked = 0
    /\ picks = [i \in Instances |-> 0]
    /\ results = [i \in Instances |-> <<>>]

-----------------------------------------------------------------------------
(* The health checker.                                                     *)

\* The instance check_once awaits after i, 0 if that was the last one.
Following(i) ==
    LET rest == {j \in Instances : j > i /\ status[j] # "DRAINING"}
    IN  IF rest = {} THEN 0 ELSE Min(rest)

\* The sleep ends and a round begins.
BeginRound ==
    /\ checking = 0
    /\ checking' = Following(0)
    /\ picked' = 0
    /\ UNCHANGED <<up, health, selector>>

\* Mutant of SucceedCheck: the failures before are not forgotten.
SucceedCheckForgetless(i) ==
    LET n == Min({consecutive_successes[i] + 1, SuccessThreshold})
    IN  /\ consecutive_successes' = [consecutive_successes EXCEPT ![i] = n]
        /\ status' = [status EXCEPT ![i] = IF n >= SuccessThreshold
                                           THEN "HEALTHY" ELSE @]
        /\ UNCHANGED consecutive_failures

SucceedCheck(i) ==
    LET n == Min({consecutive_successes[i] + 1, SuccessThreshold})
    IN  /\ consecutive_successes' = [consecutive_successes EXCEPT ![i] = n]
        /\ consecutive_failures' = [consecutive_failures EXCEPT ![i] = 0]
        /\ status' = [status EXCEPT ![i] = IF n >= SuccessThreshold
                                           THEN "HEALTHY" ELSE @]

FailCheck(i) ==
    LET n == Min({consecutive_failures[i] + 1, FailureThreshold})
    IN  /\ consecutive_failures' = [consecutive_failures EXCEPT ![i] = n]
        /\ consecutive_successes' = [consecutive_successes EXCEPT ![i] = 0]
        /\ status' = [status EXCEPT ![i] = IF n >= FailureThreshold
                                           THEN "UNHEALTHY" ELSE @]

\* _check_instance returns, and check_once goes on to the next instance.
CheckInstance(i) ==
    /\ checking = i /\ i \notin Broken
    /\ IF up[i] THEN SucceedCheck(i) ELSE FailCheck(i)
    /\ results' = [results EXCEPT ![i] =
                     LET all == Append(@, up[i])
                     IN  IF Len(all) > Memory THEN Tail(all) ELSE all]
    /\ checking' = Following(i)
    /\ picked' = 0
    /\ UNCHANGED <<up, selector>>

\* Mutant of AbortRound: the error ends the task.
AbortRoundForGood(i) ==
    /\ checking = i /\ i \in Broken
    /\ picked' = 0
    /\ UNCHANGED <<up, health, checking, selector>>

\* _check_instance raises; run_forever logs it and sleeps.
AbortRound(i) ==
    /\ checking = i /\ i \in Broken
    /\ checking' = 0
    /\ picked' = 0
    /\ UNCHANGED <<up, health, selector>>

Poll == BeginRound \/ \E i \in Instances : CheckInstance(i) \/ AbortRound(i)

-----------------------------------------------------------------------------
(* The selector.                                                           *)

\* Mutant of Stale: only a larger set of instances is noticed.
StaleWhenGrown == ~(Routable \subseteq signature)

\* The cycle was made for other instances.
Stale == signature # Routable

\* Mutant of NewSignature: the new cycle's signature is not stored.
NewSignatureForgotten == signature

\* The signature is stored with a new cycle, and only then.
NewSignature == IF Stale THEN Routable ELSE signature

\* select() returns the next instance of the cycle, a new one if need be.
Select ==
    /\ Routable # {}
    /\ \E c \in IF Stale THEN Shuffles(Routable) ELSE {cycle} :
         LET k == IF Stale \/ place = Len(c) THEN 1 ELSE place + 1
         IN  /\ cycle' = c
             /\ place' = k
             /\ picked' = c[k]
             /\ picks' = [i \in Instances |->
                            (IF k = 1 THEN 0 ELSE picks[i])
                              + (IF i = c[k] THEN 1 ELSE 0)]
    /\ signature' = NewSignature
    /\ UNCHANGED <<up, health, checking>>

\* NoHealthyBackendError: the cycle is left as it is.
SelectNone ==
    /\ Routable = {}
    /\ picked' = 0
    /\ UNCHANGED <<up, health, checking, selector>>

\* An instance begins or ceases to answer.
Turn(i) ==
    /\ up' = [up EXCEPT ![i] = ~@]
    /\ picked' = 0
    /\ UNCHANGED <<health, checking, selector>>

Next == Poll \/ Select \/ SelectNone \/ \E i \in Instances : Turn(i)

\* The sleep ends, and so does the check of an instance: httpx ends a wait for
\* it after the timeout, and what it may trickle out, one wait after another,
\* is assumed to end.
Spec == Init /\ [][Next]_vars /\ WF_vars(Poll)

-----------------------------------------------------------------------------
\* Whatever the checker did since the cycle was made, the instance select()
\* returns is HEALTHY at that moment.
SelectsHealthy == picked # 0 => IsRoutable(picked)

\* When a turn of the cycle is complete each instance it was made for has been
\* selected max(1, weight) times, and no other, however many status changes and
\* failed selections lay between.
FairTurn ==
    place = Len(cycle) =>
        \A i \in Instances : picks[i] = IF i \in signature THEN Share(i) ELSE 0

\* One flaky check flips nothing: a status changes only when all of the last
\* success_threshold or failure_threshold results agree.
Hysteresis ==
    [][\A i \in Instances : status'[i] # status[i] =>
         LET n == IF status'[i] = "HEALTHY" THEN SuccessThreshold
                                           ELSE FailureThreshold
             all == results'[i]
         IN  /\ Len(all) >= n
             /\ \A k \in Len(all) - n + 1 .. Len(all) :
                  all[k] = (status'[i] = "HEALTHY")]_vars

\* The error ends the round, so an instance from the first broken one on is
\* never given a status and never selected, however long it has been up.
ShadowedNeverUsed ==
    \A b \in Broken : \A i \in Instances : i >= b =>
        status[i] = "UNKNOWN" /\ picked # i

\* The loop never dies: an instance that stays up, or down, comes to be
\* treated so, although the check of another raises in every round - provided
\* that one comes later, since the error ends the round.
Converges ==
    \A i \in Instances : (\A b \in Broken : i < b) =>
        /\ <>[]up[i] => <>[](status[i] = "HEALTHY")
        /\ <>[]~up[i] => <>[](status[i] = "UNHEALTHY")
=============================================================================
