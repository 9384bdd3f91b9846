----------------------------- MODULE PoolProofs -----------------------------
(***************************************************************************)
(* For any number of instances, any weights and thresholds, and any        *)
(* interleaving of selector and health checker: selections are HEALTHY,    *)
(* turns of the cycle are fair, and a status changes only after a run of   *)
(* results.                                                                *)
(***************************************************************************)
EXTENDS BackendPool, FiniteSetTheorems, WellFoundedInduction, TLAPS

\* The expanded list of select() is finite.
LEMMA ExpandedFinite ==
    ASSUME NEW S \in SUBSET Instances
    PROVE  IsFiniteSet(Expanded(S))
  <1> DEFINE Part(i) == {<<i, k>> : k \in 1 .. Share(i)}
             Parts == {Part(i) : i \in S}
  <1>1. IsFiniteSet(S)
    BY PoolAssumption, FS_Subset
  <1>2. ASSUME NEW i \in S
        PROVE  IsFiniteSet(Part(i))
    <2> DEFINE f == [k \in 1 .. Share(i) |-> <<i, k>>]
    <2>1. Share(i) \in Int
      BY PoolAssumption DEF Share
    <2>2. IsFiniteSet(1 .. Share(i))
      BY <2>1, FS_Interval
    <2>3. f \in Surjection(1 .. Share(i), Part(i))
      BY DEF Surjection
    <2> HIDE DEF f, Part
    <2>q. QED BY <2>2, <2>3, FS_Surjection
  <1>3. IsFiniteSet(Parts)
    <2> DEFINE f == [i \in S |-> Part(i)]
    <2> HIDE DEF Part
    <2>1. f \in Surjection(S, Parts)
      BY DEF Surjection
    <2> HIDE DEF f, Parts
    <2>q. QED BY <2>1, <1>1, FS_Surjection
  <1>4. \A T \in Parts : IsFiniteSet(T)
    BY <1>2
  <1>5. Expanded(S) = UNION Parts
    BY DEF Expanded
  <1> HIDE DEF Parts
  <1>q. QED BY <1>3, <1>4, <1>5, FS_UNION

\* A new cycle is a non-empty list of the instances it is made for.
LEMMA ShuffleIsCycle ==
    ASSUME NEW S \in SUBSET Instances, S # {}, NEW c \in Shuffles(S)
    PROVE  c \in Seq(S) /\ Len(c) > 0
  <1> DEFINE n == Cardinality(Expanded(S))
  <1>1. n \in Nat
    BY ExpandedFinite, FS_CardinalityType
  <1>2. c \in [1 .. n -> S]
    BY DEF Shuffles
  <1>3. PICK i \in S : Cardinality({k \in DOMAIN c : c[k] = i}) = Share(i)
    BY DEF Shuffles, Occurrences
  <1>4. Share(i) # 0
    BY PoolAssumption DEF Share
  <1>5. {k \in DOMAIN c : c[k] = i} # {}
    BY <1>3, <1>4, FS_EmptySet
  <1> HIDE DEF n
  <1>6. n > 0
    BY <1>1, <1>2, <1>5
  <1>7. c \in Seq(S) /\ Len(c) = n
    BY <1>1, <1>2
  <1>q. QED BY <1>1, <1>6, <1>7

\* The cycle holds only instances of the signature, and some if that has any.
Inv ==
    /\ signature \in SUBSET Instances
    /\ cycle \in Seq(signature)
    /\ signature # {} => Len(cycle) > 0
    /\ place \in 0 .. Len(cycle)
    /\ SelectsHealthy

\* select() keeps the invariant: it takes an instance of a cycle made for the
\* instances that are routable now.
LEMMA SelectInv ==
    ASSUME Inv, Select
    PROVE  Inv'
  <1>1. Routable \in SUBSET Instances /\ Routable # {} /\ signature' = Routable
    BY DEF Select, Routable, NewSignature, Stale
  <1>2. PICK c \in IF Stale THEN Shuffles(Routable) ELSE {cycle} :
          LET k == IF Stale \/ place = Len(c) THEN 1 ELSE place + 1
          IN  cycle' = c /\ place' = k /\ picked' = c[k]
    BY DEF Select
  <1>3. c \in Seq(Routable) /\ Len(c) > 0
    <2>1. CASE Stale
      BY <2>1, <1>1, <1>2, ShuffleIsCycle
    <2>2. CASE ~Stale
      BY <2>2, <1>1, <1>2 DEF Stale, Inv
    <2>q. QED BY <2>1, <2>2
  <1>4. cycle' = c /\ place' \in 1 .. Len(c) /\ picked' = c[place']
    <2>1. CASE Stale
      BY <2>1, <1>2, <1>3
    <2>2. CASE ~Stale
      BY <2>2, <1>2, <1>3 DEF Inv
    <2>q. QED BY <2>1, <2>2
  <1>5. picked' \in Routable
    BY <1>3, <1>4
  <1>6. SelectsHealthy'
    <2>1. status' = status
      BY DEF Select, health
    <2>q. QED BY <1>5, <2>1 DEF SelectsHealthy, Routable, IsRoutable
  <1>q. QED BY <1>1, <1>3, <1>4, <1>6 DEF Inv

\* Every other step leaves the selector alone and selects nothing.
LEMMA NextInv ==
    Inv /\ [Next]_vars => Inv'
  <1> SUFFICES ASSUME Inv, [Next]_vars
               PROVE  Inv'
    OBVIOUS
  <1>1. CASE Select
    BY <1>1, SelectInv
  <1>2. ASSUME UNCHANGED selector, picked' = 0
        PROVE  Inv'
    BY <1>2 DEF selector, Inv, SelectsHealthy
  <1>3. CASE Poll
    BY <1>2, <1>3 DEF Poll, BeginRound, CheckInstance, AbortRound
  <1>4. CASE SelectNone
    BY <1>2, <1>4 DEF SelectNone
  <1>5. CASE \E i \in Instances : Turn(i)
    BY <1>2, <1>5 DEF Turn
  <1>6. CASE UNCHANGED vars
    BY <1>6 DEF vars, selector, health, Inv, SelectsHealthy, IsRoutable
  <1>q. QED BY <1>1, <1>3, <1>4, <1>5, <1>6 DEF Next

\* WeightedRoundRobinSelector.select never returns an instance that is not
\* HEALTHY as it returns, whatever the health checker wrote since the cycle
\* was built.
THEOREM SelectionsHealthy ==
    Spec => []SelectsHealthy
  <1>1. Init => Inv
    BY DEF Init, Inv, SelectsHealthy
  <1>2. Inv => SelectsHealthy
    BY DEF Inv
  <1>q. QED BY <1>1, <1>2, NextInv, PTL DEF Spec

-----------------------------------------------------------------------------
(* Every turn of the cycle is fair.                                         *)

\* The places of the first n entries of c that hold i.
Taken(c, n, i) == {k \in 1 .. n : c[k] = i}

\* The cycle is a shuffle of the weighted instances it was made for, and the
\* selections of this turn are its first entries.
Fair ==
    /\ cycle \in Shuffles(signature)
    /\ \A i \in Instances : picks[i] = Cardinality(Taken(cycle, place, i))

\* One more entry is one more selection of the instance there.
LEMMA TakeOne ==
    ASSUME NEW c, NEW n \in Nat, NEW i
    PROVE  /\ Cardinality(Taken(c, n, i)) \in Nat
           /\ Cardinality(Taken(c, n + 1, i))
                = Cardinality(Taken(c, n, i)) + (IF i = c[n + 1] THEN 1 ELSE 0)
  <1> DEFINE S == Taken(c, n, i)
             T == Taken(c, n + 1, i)
  <1>1. IsFiniteSet(S)
    <2>1. IsFiniteSet(1 .. n)
      BY FS_Interval
    <2>2. S \in SUBSET (1 .. n)
      BY DEF Taken
    <2> HIDE DEF S
    <2> QED  BY <2>1, <2>2, FS_Subset
  <1>2. Cardinality(S) \in Nat
    BY <1>1, FS_CardinalityType
  <1>3. CASE i = c[n + 1]
    <2>1. T = S \cup {n + 1} /\ n + 1 \notin S
      BY <1>3 DEF Taken
    <2> HIDE DEF S, T
    <2>2. Cardinality(T) = Cardinality(S) + 1
      BY <1>1, <2>1, FS_AddElement
    <2> QED  BY <1>2, <1>3, <2>2 DEF S, T
  <1>4. CASE i # c[n + 1]
    <2>1. T = S
      BY <1>4 DEF Taken
    <2> QED  BY <1>2, <1>4, <2>1
  <1> QED  BY <1>3, <1>4

\* Nothing is taken of no entries.
LEMMA TakeNone ==
    ASSUME NEW c, NEW i
    PROVE  Cardinality(Taken(c, 0, i)) = 0
  <1>1. Taken(c, 0, i) = {}
    BY DEF Taken
  <1> QED  BY <1>1, FS_EmptySet

\* A selection takes the next entry, or the first of the next turn.
LEMMA SelectFair ==
    ASSUME Inv, Fair, Select
    PROVE  Fair'
  <1>1. Routable \in SUBSET Instances /\ Routable # {} /\ signature' = Routable
    BY DEF Select, Routable, NewSignature, Stale
  <1>2. PICK c \in IF Stale THEN Shuffles(Routable) ELSE {cycle} :
          LET k == IF Stale \/ place = Len(c) THEN 1 ELSE place + 1
          IN  /\ cycle' = c /\ place' = k
              /\ picks' = [i \in Instances |->
                             (IF k = 1 THEN 0 ELSE picks[i])
                               + (IF i = c[k] THEN 1 ELSE 0)]
    BY DEF Select
  <1> DEFINE k == IF Stale \/ place = Len(c) THEN 1 ELSE place + 1
  <1>3. cycle' \in Shuffles(signature')
    <2>1. CASE Stale
      BY <1>1, <1>2, <2>1
    <2>2. CASE ~Stale
      BY <1>1, <1>2, <2>2 DEF Stale, Fair
    <2> QED  BY <2>1, <2>2
  <1>4. ASSUME NEW i \in Instances
        PROVE  picks'[i] = Cardinality(Taken(c, k, i))
    <2>0. place \in Nat
      BY DEF Inv
    <2>1. picks'[i] = (IF k = 1 THEN 0 ELSE picks[i]) + (IF i = c[k] THEN 1 ELSE 0)
      BY <1>2
    <2>2. CASE k = 1
      <3>1. picks'[i] = 0 + (IF i = c[0 + 1] THEN 1 ELSE 0)
        <4>1. 0 + 1 = k
          BY <2>2
        <4> HIDE DEF k
        <4> QED  BY <2>1, <2>2, <4>1
      <3>2. Cardinality(Taken(c, 0 + 1, i))
              = Cardinality(Taken(c, 0, i)) + (IF i = c[0 + 1] THEN 1 ELSE 0)
        BY TakeOne
      <3>3. 0 + 1 = k
        BY <2>2
      <3> HIDE DEF k
      <3> QED  BY <3>1, <3>2, <3>3, TakeNone
    <2>3. CASE k # 1
      <3>1. k = place + 1 /\ c = cycle
        BY <1>2, <2>3
      <3> HIDE DEF k
      <3>2. picks[i] = Cardinality(Taken(c, place, i))
        BY <3>1 DEF Fair
      <3>3. Cardinality(Taken(c, place + 1, i))
              = Cardinality(Taken(c, place, i))
                  + (IF i = c[place + 1] THEN 1 ELSE 0)
        BY <2>0, TakeOne
      <3> QED  BY <2>1, <2>3, <3>1, <3>2, <3>3
    <2> QED  BY <2>2, <2>3
  <1>5. cycle' = c /\ place' = k
    BY <1>2
  <1> HIDE DEF k
  <1> QED  BY <1>3, <1>4, <1>5 DEF Fair

\* No other step touches the selector.
LEMMA NextFair == Inv /\ Fair /\ [Next]_vars => Fair'
  <1> SUFFICES ASSUME Inv, Fair, [Next]_vars PROVE Fair'
    OBVIOUS
  <1>1. CASE Select
    BY <1>1, SelectFair
  <1>2. CASE UNCHANGED selector
    BY <1>2 DEF selector, Fair
  <1> QED  BY <1>1, <1>2 DEF Next, Poll, BeginRound, CheckInstance, AbortRound,
                             SelectNone, Turn, vars

\* Nothing is selected and the cycle is empty.
LEMMA InitFair == Init => Fair
  <1> SUFFICES ASSUME Init PROVE Fair
    OBVIOUS
  <1>1. Expanded({}) = {}
    BY DEF Expanded
  <1>2. Cardinality(Expanded({})) = 0
    BY <1>1, FS_EmptySet
  <1>3. cycle \in Shuffles({})
    BY <1>2 DEF Init, Shuffles
  <1> QED  BY <1>3, TakeNone DEF Init, Fair

\* A complete turn of WeightedRoundRobinSelector's cycle has selected each
\* instance it was made for max(1, weight) times and no other, for any
\* weights.
THEOREM TurnsAreFair == Spec => []FairTurn
  <1>1. Init => Inv
    BY DEF Init, Inv, SelectsHealthy
  <1>2. Inv /\ Fair => FairTurn
    <2> SUFFICES ASSUME Inv, Fair, place = Len(cycle), NEW i \in Instances
                 PROVE  picks[i] = IF i \in signature THEN Share(i) ELSE 0
      BY DEF FairTurn
    <2>1. cycle \in Seq(signature)
      BY DEF Inv
    <2>2. Taken(cycle, place, i) = {k \in DOMAIN cycle : cycle[k] = i}
      BY <2>1 DEF Taken
    <2>3. picks[i] = Occurrences(cycle, i)
      BY <2>2 DEF Fair, Occurrences
    <2>4. CASE i \in signature
      BY <2>3, <2>4 DEF Fair, Shuffles
    <2>5. CASE i \notin signature
      <3>1. {k \in DOMAIN cycle : cycle[k] = i} = {}
        BY <2>1, <2>5
      <3> QED  BY <2>3, <2>5, <3>1, FS_EmptySet DEF Occurrences
    <2> QED  BY <2>4, <2>5
  <1> QED  BY <1>1, <1>2, InitFair, NextFair, NextInv, PTL DEF Spec

-----------------------------------------------------------------------------
(* The health checker.                                                      *)

\* A counter of the checker stops at its threshold, and reaches it one by one.
LEMMA Counted ==
    ASSUME NEW t \in Nat \ {0}, NEW x \in 0 .. t
    PROVE  /\ Min({x + 1, t}) \in 1 .. t
           /\ Min({x + 1, t}) <= x + 1
  <1>1. \E z \in {x + 1, t} : \A y \in {x + 1, t} : z <= y
    <2>1. CASE x + 1 <= t
      BY <2>1
    <2>2. CASE t < x + 1
      BY <2>2
    <2> QED  BY <2>1, <2>2
  <1>2. /\ Min({x + 1, t}) \in {x + 1, t}
        /\ \A y \in {x + 1, t} : Min({x + 1, t}) <= y
    BY <1>1 DEF Min
  <1> QED  BY <1>2

\* The results kept are at least as many as a threshold.
LEMMA MemoryEnough ==
    /\ Memory \in Nat \ {0}
    /\ Memory >= FailureThreshold /\ Memory >= SuccessThreshold
  <1> DEFINE S == {FailureThreshold, SuccessThreshold}
  <1>1. \E z \in S : \A y \in S : z >= y
    <2>1. CASE FailureThreshold >= SuccessThreshold
      BY <2>1, PoolAssumption
    <2>2. CASE FailureThreshold < SuccessThreshold
      BY <2>2, PoolAssumption
    <2> QED  BY <2>1, <2>2, PoolAssumption
  <1>2. Max(S) \in S /\ \A y \in S : Max(S) >= y
    BY <1>1 DEF Max
  <1> QED  BY <1>2, PoolAssumption DEF Memory

\* check_once goes on to an instance, the next it may check, or ends.
LEMMA FollowingType ==
    ASSUME NEW i
    PROVE  /\ Following(i) \in Instances \cup {0}
           /\ \A j \in Instances :
                j > i /\ status[j] # "DRAINING" => Following(i) <= j
  <1> DEFINE rest == {j \in Instances : j > i /\ status[j] # "DRAINING"}
             R == OpToRel(<, Nat)
  <1>1. CASE rest = {}
    BY <1>1 DEF Following
  <1>2. CASE rest # {}
    <2>1. rest \in SUBSET Nat /\ rest \subseteq Instances
      BY PoolAssumption
    <2>2. Following(i) = Min(rest)
      BY <1>2 DEF Following
    <2>3. IsWellFoundedOn(R, Nat)
      BY NatLessThanWellFounded
    <2>4. \A x, y \in Nat : y < x => <<y, x>> \in R
      BY DEF OpToRel
    <2> HIDE DEF rest, R
    <2>5. PICK x \in rest : \A y \in rest : ~(<<y, x>> \in R)
      BY <1>2, <2>1, <2>3, WFMin
    <2>6. \A y \in rest : ~(y < x)
      BY <2>1, <2>4, <2>5, Zenon
    <2>7. \A y \in rest : x <= y
      BY <2>1, <2>6
    <2>8. Min(rest) \in rest /\ \A y \in rest : Min(rest) <= y
      BY <2>7 DEF Min
    <2>9. \A j \in Instances : j > i /\ status[j] # "DRAINING" => j \in rest
      BY DEF rest
    <2> QED  BY <2>1, <2>2, <2>8, <2>9
  <1> QED  BY <1>1, <1>2

\* The last n results in s were all b.
Agree(s, n, b) == n <= Len(s) /\ \A k \in Len(s) - n + 1 .. Len(s) : s[k] = b

\* What results' of a check is.
Recall(s, b) ==
    LET all == Append(s, b) IN IF Len(all) > Memory THEN Tail(all) ELSE all

\* A further result that agrees extends the run; none is lost that matters.
LEMMA RecallAgrees ==
    ASSUME NEW s \in Seq(BOOLEAN), NEW b \in BOOLEAN, Len(s) <= Memory,
           NEW n \in Nat, Agree(s, n, b), NEW m \in 1 .. Memory, m <= n + 1
    PROVE  Agree(Recall(s, b), m, b)
  <1> DEFINE all == Append(s, b)
             l == Len(s)
  <1>1. all \in Seq(BOOLEAN) /\ Len(all) = l + 1 /\ l \in Nat
        /\ all[l + 1] = b /\ \A k \in 1 .. l : all[k] = s[k]
    OBVIOUS
  <1>2. Memory \in Nat \ {0}
    BY MemoryEnough
  <1>3. \A k \in l + 2 - m .. l + 1 : all[k] = b
    <2> SUFFICES ASSUME NEW k \in l + 2 - m .. l + 1 PROVE all[k] = b
      OBVIOUS
    <2>1. CASE k = l + 1
      BY <1>1, <2>1
    <2>2. CASE k # l + 1
      <3>1. k \in l - n + 1 .. l /\ k \in 1 .. l
        BY <1>1, <2>2 DEF Agree
      <3> QED  BY <1>1, <3>1 DEF Agree
    <2> QED  BY <2>1, <2>2
  <1> HIDE DEF all
  <1>4. CASE l + 1 > Memory
    <2> DEFINE u == Tail(all)
    <2>1. Recall(s, b) = u
      BY <1>1, <1>4 DEF Recall, all
    <2>2. Len(u) = l /\ \A k \in 1 .. l : u[k] = all[k + 1]
      BY <1>1
    <2> HIDE DEF u, l
    <2>3. m <= l
      BY <1>1, <1>2, <1>4
    <2>4. \A k \in l - m + 1 .. l : u[k] = b
      <3> SUFFICES ASSUME NEW k \in l - m + 1 .. l PROVE u[k] = b
        OBVIOUS
      <3>1. k \in 1 .. l /\ k + 1 \in l + 2 - m .. l + 1
        BY <1>1, <2>3
      <3> QED  BY <1>3, <2>2, <3>1
    <2> QED  BY <2>1, <2>2, <2>3, <2>4 DEF Agree
  <1>5. CASE ~(l + 1 > Memory)
    <2>1. Recall(s, b) = all
      BY <1>1, <1>5 DEF Recall, all
    <2>2. m <= l + 1
      BY <1>1 DEF Agree
    <2>3. \A k \in (l + 1) - m + 1 .. l + 1 : all[k] = b
      <3>1. (l + 1) - m + 1 = l + 2 - m
        BY <1>1
      <3> QED  BY <1>3, <3>1
    <2> HIDE DEF l
    <2> QED  BY <1>1, <2>1, <2>2, <2>3 DEF Agree
  <1> QED  BY <1>4, <1>5

\* The results kept are no more than Memory.
LEMMA RecallType ==
    ASSUME NEW s \in Seq(BOOLEAN), NEW b \in BOOLEAN, Len(s) <= Memory
    PROVE  Recall(s, b) \in Seq(BOOLEAN) /\ Len(Recall(s, b)) <= Memory
  <1> DEFINE all == Append(s, b)
  <1>1. all \in Seq(BOOLEAN) /\ Len(all) = Len(s) + 1 /\ Len(s) \in Nat
    OBVIOUS
  <1>2. Memory \in Nat \ {0}
    BY MemoryEnough
  <1>3. Recall(s, b) = IF Len(all) > Memory THEN Tail(all) ELSE all
    BY DEF Recall
  <1> HIDE DEF all
  <1>4. all # <<>>
    BY <1>1
  <1>5. Tail(all) \in Seq(BOOLEAN) /\ Len(Tail(all)) = Len(all) - 1
    BY <1>1, <1>4
  <1>6. CASE Len(all) > Memory
    <2>1. Recall(s, b) = Tail(all)
      BY <1>3, <1>6
    <2> QED  BY <1>1, <1>2, <1>5, <2>1
  <1>7. CASE ~(Len(all) > Memory)
    <2>1. Recall(s, b) = all
      BY <1>3, <1>7
    <2> QED  BY <1>1, <1>2, <1>7, <2>1
  <1> QED  BY <1>6, <1>7

\* The counters count the results that agreed in a row.
Tracked ==
    \A i \in Instances :
        /\ Len(results[i]) <= Memory
        /\ Agree(results[i], consecutive_successes[i], TRUE)
        /\ Agree(results[i], consecutive_failures[i], FALSE)

\* A check with result b moves the counter of b by at most one and sets the
\* other to 0; a status changes only when the counter of b is full.
Moves(i, b, hits, misses, limit, new) ==
    /\ hits'[i] \in 1 .. limit /\ hits'[i] <= hits[i] + 1
    /\ misses'[i] = 0
    /\ status'[i] # status[i] => status'[i] = new /\ hits'[i] = limit
    /\ results'[i] = Recall(results[i], b)

\* What a check does, and that it does so to one instance.
LEMMA CheckMoves ==
    ASSUME TypeOK, NEW i \in Instances, CheckInstance(i)
    PROVE  /\ \/ Moves(i, TRUE, consecutive_successes, consecutive_failures,
                       SuccessThreshold, "HEALTHY")
              \/ Moves(i, FALSE, consecutive_failures, consecutive_successes,
                       FailureThreshold, "UNHEALTHY")
           /\ \A j \in Instances \ {i} :
                /\ status'[j] = status[j] /\ results'[j] = results[j]
                /\ consecutive_successes'[j] = consecutive_successes[j]
                /\ consecutive_failures'[j] = consecutive_failures[j]
           /\ status' \in [Instances -> InstanceStatus]
           /\ consecutive_successes' \in [Instances -> 0 .. SuccessThreshold]
           /\ consecutive_failures' \in [Instances -> 0 .. FailureThreshold]
           /\ results' = [results EXCEPT ![i] = Recall(results[i], up[i])]
  <1>1. /\ status \in [Instances -> InstanceStatus]
        /\ consecutive_successes \in [Instances -> 0 .. SuccessThreshold]
        /\ consecutive_failures \in [Instances -> 0 .. FailureThreshold]
        /\ results \in [Instances -> Seq(BOOLEAN)] /\ up \in [Instances -> BOOLEAN]
        /\ FailureThreshold \in Nat \ {0} /\ SuccessThreshold \in Nat \ {0}
    BY PoolAssumption DEF TypeOK
  <1>2. results' = [results EXCEPT ![i] = Recall(results[i], up[i])]
    BY <1>1 DEF CheckInstance, Recall
  <1>3. /\ results'[i] = Recall(results[i], up[i])
        /\ \A j \in Instances \ {i} : results'[j] = results[j]
    BY <1>1, <1>2
  <1>4. CASE up[i]
    <2> DEFINE n == Min({consecutive_successes[i] + 1, SuccessThreshold})
    <2>1. /\ consecutive_successes' = [consecutive_successes EXCEPT ![i] = n]
          /\ consecutive_failures' = [consecutive_failures EXCEPT ![i] = 0]
          /\ status' = [status EXCEPT ![i] = IF n >= SuccessThreshold
                                             THEN "HEALTHY" ELSE @]
      BY <1>4 DEF CheckInstance, SucceedCheck
    <2>2. n \in 1 .. SuccessThreshold /\ n <= consecutive_successes[i] + 1
      BY <1>1, Counted
    <2> HIDE DEF n
    <2>3. up[i] = TRUE
      BY <1>1, <1>4
    <2>4. Moves(i, TRUE, consecutive_successes, consecutive_failures,
                SuccessThreshold, "HEALTHY")
      <3>1. results'[i] = Recall(results[i], TRUE)
        BY <1>3, <2>3, Zenon
      <3>2. consecutive_successes'[i] = n /\ consecutive_failures'[i] = 0
        BY <1>1, <2>1
      <3>3. status'[i] # status[i] => status'[i] = "HEALTHY" /\ n = SuccessThreshold
        BY <1>1, <2>1, <2>2
      <3> QED  BY <2>2, <3>1, <3>2, <3>3 DEF Moves
    <2>5. /\ status' \in [Instances -> InstanceStatus]
          /\ consecutive_successes' \in [Instances -> 0 .. SuccessThreshold]
          /\ consecutive_failures' \in [Instances -> 0 .. FailureThreshold]
      BY <1>1, <2>1, <2>2 DEF InstanceStatus
    <2>6. \A j \in Instances \ {i} :
            /\ status'[j] = status[j]
            /\ consecutive_successes'[j] = consecutive_successes[j]
            /\ consecutive_failures'[j] = consecutive_failures[j]
      BY <1>1, <2>1
    <2> QED  BY <1>2, <1>3, <2>4, <2>5, <2>6
  <1>5. CASE ~up[i]
    <2> DEFINE n == Min({consecutive_failures[i] + 1, FailureThreshold})
    <2>1. /\ consecutive_failures' = [consecutive_failures EXCEPT ![i] = n]
          /\ consecutive_successes' = [consecutive_successes EXCEPT ![i] = 0]
          /\ status' = [status EXCEPT ![i] = IF n >= FailureThreshold
                                             THEN "UNHEALTHY" ELSE @]
      BY <1>5 DEF CheckInstance, FailCheck
    <2>2. n \in 1 .. FailureThreshold /\ n <= consecutive_failures[i] + 1
      BY <1>1, Counted
    <2> HIDE DEF n
    <2>3. up[i] = FALSE
      BY <1>1, <1>5
    <2>4. Moves(i, FALSE, consecutive_failures, consecutive_successes,
                FailureThreshold, "UNHEALTHY")
      <3>1. results'[i] = Recall(results[i], FALSE)
        BY <1>3, <2>3, Zenon
      <3>2. consecutive_failures'[i] = n /\ consecutive_successes'[i] = 0
        BY <1>1, <2>1
      <3>3. status'[i] # status[i] => status'[i] = "UNHEALTHY" /\ n = FailureThreshold
        BY <1>1, <2>1, <2>2
      <3> QED  BY <2>2, <3>1, <3>2, <3>3 DEF Moves
    <2>5. /\ status' \in [Instances -> InstanceStatus]
          /\ consecutive_successes' \in [Instances -> 0 .. SuccessThreshold]
          /\ consecutive_failures' \in [Instances -> 0 .. FailureThreshold]
      BY <1>1, <2>1, <2>2 DEF InstanceStatus
    <2>6. \A j \in Instances \ {i} :
            /\ status'[j] = status[j]
            /\ consecutive_successes'[j] = consecutive_successes[j]
            /\ consecutive_failures'[j] = consecutive_failures[j]
      BY <1>1, <2>1
    <2> QED  BY <1>2, <1>3, <2>4, <2>5, <2>6
  <1> QED  BY <1>4, <1>5

\* A check keeps the counters true to the results.
LEMMA CheckTracked ==
    ASSUME TypeOK, Tracked, NEW i \in Instances, CheckInstance(i)
    PROVE  /\ results' \in [Instances -> Seq(BOOLEAN)]
           /\ Tracked'
  <1>1. /\ results \in [Instances -> Seq(BOOLEAN)] /\ up[i] \in BOOLEAN
        /\ consecutive_successes[i] \in Nat /\ consecutive_failures[i] \in Nat
        /\ FailureThreshold \in Nat \ {0} /\ SuccessThreshold \in Nat \ {0}
        /\ results[i] \in Seq(BOOLEAN)
    BY PoolAssumption DEF TypeOK
  <1>2. results' = [results EXCEPT ![i] = Recall(results[i], up[i])]
    BY CheckMoves
  <1>3. /\ Len(results[i]) <= Memory
        /\ Agree(results[i], consecutive_successes[i], TRUE)
        /\ Agree(results[i], consecutive_failures[i], FALSE)
    BY DEF Tracked
  <1>4. /\ Recall(results[i], up[i]) \in Seq(BOOLEAN)
        /\ Len(Recall(results[i], up[i])) <= Memory
    BY <1>1, <1>3, RecallType
  <1>5. /\ results' \in [Instances -> Seq(BOOLEAN)]
        /\ results'[i] \in Seq(BOOLEAN) /\ Len(results'[i]) <= Memory
    BY <1>1, <1>2, <1>4
  <1>6. \A b \in BOOLEAN : Agree(results'[i], 0, b)
    BY <1>5 DEF Agree
  <1>7. /\ Agree(results'[i], consecutive_successes'[i], TRUE)
        /\ Agree(results'[i], consecutive_failures'[i], FALSE)
    <2>1. CASE Moves(i, TRUE, consecutive_successes, consecutive_failures,
                     SuccessThreshold, "HEALTHY")
      <3> DEFINE m == consecutive_successes'[i]
      <3>1. /\ m \in 1 .. SuccessThreshold /\ m <= consecutive_successes[i] + 1
            /\ consecutive_failures'[i] = 0
            /\ results'[i] = Recall(results[i], TRUE)
        BY <2>1 DEF Moves
      <3> HIDE DEF m
      <3>2. m \in 1 .. Memory
        BY <1>1, <3>1, MemoryEnough
      <3>3. Agree(Recall(results[i], TRUE), m, TRUE)
        BY <1>1, <1>3, <3>1, <3>2, RecallAgrees
      <3> QED  BY <1>6, <3>1, <3>3 DEF m
    <2>2. CASE Moves(i, FALSE, consecutive_failures, consecutive_successes,
                     FailureThreshold, "UNHEALTHY")
      <3> DEFINE m == consecutive_failures'[i]
      <3>1. /\ m \in 1 .. FailureThreshold /\ m <= consecutive_failures[i] + 1
            /\ consecutive_successes'[i] = 0
            /\ results'[i] = Recall(results[i], FALSE)
        BY <2>2 DEF Moves
      <3> HIDE DEF m
      <3>2. m \in 1 .. Memory
        BY <1>1, <3>1, MemoryEnough
      <3>3. Agree(Recall(results[i], FALSE), m, FALSE)
        BY <1>1, <1>3, <3>1, <3>2, RecallAgrees
      <3> QED  BY <1>6, <3>1, <3>3 DEF m
    <2> QED  BY <2>1, <2>2, CheckMoves
  <1>8. ASSUME NEW j \in Instances \ {i}
        PROVE  /\ results'[j] = results[j]
               /\ consecutive_successes'[j] = consecutive_successes[j]
               /\ consecutive_failures'[j] = consecutive_failures[j]
    BY CheckMoves
  <1>9. ASSUME NEW j \in Instances
        PROVE  /\ Len(results'[j]) <= Memory
               /\ Agree(results'[j], consecutive_successes'[j], TRUE)
               /\ Agree(results'[j], consecutive_failures'[j], FALSE)
    <2>1. CASE j = i
      BY <1>5, <1>7, <2>1
    <2>2. CASE j # i
      <3>1. j \in Instances \ {i}
        BY <2>2
      <3> QED  BY <1>8, <3>1 DEF Tracked
    <2> QED  BY <2>1, <2>2
  <1> QED  BY <1>5, <1>9 DEF Tracked

\* A selection counts and takes an instance of the service.
LEMMA SelectTypes ==
    ASSUME Inv, Inv', Select, picks \in [Instances -> Nat]
    PROVE  /\ picks' \in [Instances -> Nat]
           /\ picked' \in Instances
  <1>1. PICK c \in IF Stale THEN Shuffles(Routable) ELSE {cycle} :
          LET k == IF Stale \/ place = Len(c) THEN 1 ELSE place + 1
          IN  /\ cycle' = c /\ place' = k /\ picked' = c[k]
              /\ picks' = [i \in Instances |->
                             (IF k = 1 THEN 0 ELSE picks[i])
                               + (IF i = c[k] THEN 1 ELSE 0)]
    BY DEF Select
  <1>2. /\ cycle' \in Seq(Instances) /\ place' \in 0 .. Len(cycle')
        /\ picked' = cycle'[place']
    BY <1>1 DEF Inv
  <1>3. place' # 0
    BY <1>1 DEF Inv
  <1>4. picked' \in Instances
    BY <1>2, <1>3
  <1> QED  BY <1>1, <1>4

\* Every step keeps the types, and the counters true to the results.
LEMMA NextTracked == Inv /\ TypeOK /\ Tracked /\ [Next]_vars => TypeOK' /\ Tracked'
  <1> SUFFICES ASSUME Inv, TypeOK, Tracked, [Next]_vars
               PROVE  TypeOK' /\ Tracked'
    OBVIOUS
  <1>1. Inv'
    BY NextInv
  <1>2. ASSUME NEW i \in Instances, CheckInstance(i)
        PROVE  TypeOK' /\ Tracked'
    <2>1. /\ checking' = Following(i) /\ picked' = 0 /\ UNCHANGED <<up, selector>>
      BY <1>2 DEF CheckInstance
    <2>2. checking' \in Instances \cup {0}
      BY <2>1, FollowingType
    <2> QED  BY <1>2, <2>1, <2>2, CheckMoves, CheckTracked DEF TypeOK, selector
  <1>3. ASSUME UNCHANGED <<up, health, selector>>, picked' = 0,
               checking' \in Instances \cup {0}
        PROVE  TypeOK' /\ Tracked'
    BY <1>3 DEF TypeOK, Tracked, health, selector
  <1>4. CASE BeginRound
    BY <1>3, <1>4, FollowingType DEF BeginRound
  <1>5. CASE \E i \in Instances : AbortRound(i)
    BY <1>3, <1>5 DEF AbortRound
  <1>6. CASE Select
    BY <1>1, <1>6, SelectTypes DEF Select, Inv, TypeOK, Tracked, health
  <1>7. CASE SelectNone
    BY <1>3, <1>7 DEF SelectNone, TypeOK
  <1>8. CASE \E i \in Instances : Turn(i)
    <2>1. PICK i \in Instances : Turn(i)
      BY <1>8
    <2>2. up' \in [Instances -> BOOLEAN]
      BY <2>1 DEF Turn, TypeOK
    <2> QED  BY <2>1, <2>2 DEF Turn, TypeOK, Tracked, health, selector
  <1>9. CASE UNCHANGED vars
    BY <1>9 DEF vars, health, selector, TypeOK, Tracked
  <1> QED  BY <1>2, <1>4, <1>5, <1>6, <1>7, <1>8, <1>9 DEF Next, Poll

\* Nothing has been checked or selected.
LEMMA InitTracked == Init => Inv /\ TypeOK /\ Tracked
  <1> SUFFICES ASSUME Init PROVE Inv /\ TypeOK /\ Tracked
    OBVIOUS
  <1>1. Inv
    BY DEF Init, Inv, SelectsHealthy
  <1>2. TypeOK
    BY PoolAssumption DEF Init, TypeOK, InstanceStatus
  <1>3. Tracked
    BY MemoryEnough DEF Init, Tracked, Agree
  <1> QED  BY <1>1, <1>2, <1>3

\* The checker and the selector keep their types, for any instances, weights
\* and thresholds; in particular the cursor never leaves the cycle.
THEOREM PoolTypeCorrect == Spec => []TypeOK
  BY InitTracked, NextTracked, NextInv, PTL DEF Spec

\* HealthChecker changes a status only after success_threshold, or
\* failure_threshold, results in a row, for any thresholds.
THEOREM StatusNeedsRun == Spec => Hysteresis
  <1>1. Inv /\ TypeOK /\ Tracked /\ TypeOK' /\ Tracked' /\ [Next]_vars
          => [\A i \in Instances : status'[i] # status[i] =>
                LET n == IF status'[i] = "HEALTHY" THEN SuccessThreshold
                                                  ELSE FailureThreshold
                    all == results'[i]
                IN  /\ Len(all) >= n
                    /\ \A k \in Len(all) - n + 1 .. Len(all) :
                         all[k] = (status'[i] = "HEALTHY")]_vars
    <2> SUFFICES ASSUME TypeOK, Tracked', Next,
                        NEW i \in Instances, status'[i] # status[i]
                 PROVE  LET n == IF status'[i] = "HEALTHY" THEN SuccessThreshold
                                                           ELSE FailureThreshold
                            all == results'[i]
                        IN  /\ Len(all) >= n
                            /\ \A k \in Len(all) - n + 1 .. Len(all) :
                                 all[k] = (status'[i] = "HEALTHY")
      OBVIOUS
    <2>1. PICK j \in Instances : CheckInstance(j)
      BY DEF Next, Poll, BeginRound, AbortRound, Select, SelectNone, Turn, health
    <2>2. CheckInstance(i)
      BY <2>1, CheckMoves
    <2>3. /\ Agree(results'[i], consecutive_successes'[i], TRUE)
          /\ Agree(results'[i], consecutive_failures'[i], FALSE)
      BY DEF Tracked
    <2>4. CASE status'[i] = "HEALTHY" /\ consecutive_successes'[i] = SuccessThreshold
      BY <2>3, <2>4 DEF Agree
    <2>5. CASE status'[i] = "UNHEALTHY" /\ consecutive_failures'[i] = FailureThreshold
      BY <2>3, <2>5 DEF Agree
    <2> QED  BY <2>2, <2>4, <2>5, CheckMoves DEF Moves
  <1> QED  BY <1>1, InitTracked, NextTracked, NextInv, PTL DEF Spec, Hysteresis

-----------------------------------------------------------------------------
(* What an error that is not an httpx.HTTPError costs.                      *)

\* No round gets past a broken instance.
Shadow ==
    \A b \in Broken :
        /\ checking <= b
        /\ \A i \in Instances : i >= b => status[i] = "UNKNOWN"

\* A check is of an instance before all the broken ones, and the next one is
\* at most the first of those.
LEMMA NextShadow == TypeOK /\ Shadow /\ [Next]_vars => Shadow'
  <1> SUFFICES ASSUME TypeOK, Shadow, [Next]_vars,
                      NEW b \in Broken
               PROVE  /\ checking' <= b
                      /\ \A i \in Instances : i >= b => status'[i] = "UNKNOWN"
    BY DEF Shadow
  <1>1. /\ b \in Instances /\ b \in Nat \ {0} /\ Instances \subseteq Nat \ {0}
        /\ checking \in Nat /\ checking <= b
        /\ \A i \in Instances : i >= b => status[i] = "UNKNOWN"
    <2>1. checking \in Instances \cup {0}
      BY DEF TypeOK
    <2>2. b \in Instances /\ Instances \subseteq Nat \ {0}
      BY PoolAssumption
    <2>3. checking <= b /\ \A i \in Instances : i >= b => status[i] = "UNKNOWN"
      BY DEF Shadow
    <2> QED  BY <2>1, <2>2, <2>3
  <1>2. \A i \in Instances : i < b => Following(i) <= b
    BY <1>1, FollowingType
  <1>3. ASSUME NEW i \in Instances, CheckInstance(i)
        PROVE  /\ checking' <= b
               /\ \A j \in Instances : j >= b => status'[j] = "UNKNOWN"
    <2>1. checking = i /\ i \notin Broken /\ checking' = Following(i)
      BY <1>3 DEF CheckInstance
    <2>2. i < b
      BY <1>1, <2>1
    <2>3. \A j \in Instances \ {i} : status'[j] = status[j]
      BY <1>3, CheckMoves, Zenon
    <2>4. \A j \in Instances : j >= b => j \in Instances \ {i}
      BY <1>1, <2>2
    <2> QED  BY <1>1, <1>2, <2>1, <2>2, <2>3, <2>4
  <1>4. CASE BeginRound
    <2>1. Following(0) <= b
      BY <1>1, FollowingType
    <2> QED  BY <1>1, <1>4, <2>1 DEF BeginRound, health
  <1>5. CASE \E i \in Instances : AbortRound(i)
    BY <1>1, <1>5 DEF AbortRound, health
  <1>6. CASE UNCHANGED <<status, checking>>
    BY <1>1, <1>6
  <1>7. Select \/ SelectNone \/ (\E i \in Instances : Turn(i)) \/ UNCHANGED vars
          => UNCHANGED <<status, checking>>
    BY DEF Select, SelectNone, Turn, vars, health
  <1> QED  BY <1>3, <1>4, <1>5, <1>6, <1>7 DEF Next, Poll

\* check_once lets the error through, and so never comes to the broken instance
\* and those after it: they stay UNKNOWN and WeightedRoundRobinSelector never
\* takes them.  This is why Converges is about the instances before.
THEOREM ShadowedInstancesUnused == Spec => []ShadowedNeverUsed
  <1>1. Init => Shadow
    BY PoolAssumption DEF Init, Shadow
  <1>2. Inv /\ Shadow => ShadowedNeverUsed
    <2> SUFFICES ASSUME Inv, Shadow, NEW b \in Broken, NEW i \in Instances, i >= b
                 PROVE  status[i] = "UNKNOWN" /\ picked # i
      BY DEF ShadowedNeverUsed
    <2>1. status[i] = "UNKNOWN" /\ i # 0
      BY PoolAssumption DEF Shadow
    <2>2. picked # i
      BY <2>1 DEF Inv, SelectsHealthy, IsRoutable
    <2> QED  BY <2>1, <2>2
  <1> QED
    BY <1>1, <1>2, InitTracked, NextInv, NextTracked, NextShadow, PTL DEF Spec
=============================================================================
