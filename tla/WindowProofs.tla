---------------------------- MODULE WindowProofs ----------------------------
(***************************************************************************)
(* The sliding window's limit, for any number of calls in any order, with  *)
(* resends, lost copies and expiries.                                      *)
(***************************************************************************)
EXTENDS SlidingWindow, CallProofs, FiniteSetTheorems, WellFoundedInduction

\* The larger and the smaller of two numbers.
LEMMA OfTwo ==
    ASSUME NEW a \in Int, NEW b \in Int
    PROVE  /\ Max({a, b}) = IF a <= b THEN b ELSE a
           /\ Min({a, b}) = IF a <= b THEN a ELSE b
  <1>1. CASE a <= b
    <2>1. Max({a, b}) = b
      BY <1>1 DEF Max
    <2>2. Min({a, b}) = a
      BY <1>1 DEF Min
    <2> QED  BY <1>1, <2>1, <2>2
  <1>2. CASE b < a
    <2>1. Max({a, b}) = a
      BY <1>2 DEF Max
    <2>2. Min({a, b}) = b
      BY <1>2 DEF Min
    <2> QED  BY <1>2, <2>1, <2>2
  <1> QED  BY <1>1, <1>2

\* The sets of calls are finite.
LEMMA CallSets ==
    ASSUME NEW S \in SUBSET Requests
    PROVE  /\ IsFiniteSet(S) /\ Cardinality(S) \in Nat
           /\ \A T \in SUBSET S : Cardinality(T) <= Cardinality(S)
           /\ \A x : Cardinality(S \cup {x}) <= Cardinality(S) + 1
  <1>1. IsFiniteSet(S)
    BY CallAssumption, FS_Subset
  <1>2. Cardinality(S) \in Nat
    BY <1>1, FS_CardinalityType
  <1>3. \A T \in SUBSET S : Cardinality(T) <= Cardinality(S)
    BY <1>1, FS_Subset
  <1>4. \A x : Cardinality(S \cup {x}) <= Cardinality(S) + 1
    BY <1>1, <1>2, FS_AddElement
  <1> QED  BY <1>1, <1>2, <1>3, <1>4

-----------------------------------------------------------------------------
(* What holds whatever the clocks and the time to live.                    *)

Basic ==
    /\ TypeOK
    /\ \A r \in Requests : Orderly(call[r])
    /\ \A r \in Requests : Granted(call[r]) => r \in added
    /\ \A r \in added : call[r].stage # "idle" /\ Score(r) <= high

\* One run of the script, on a call that was made.
LEMMA ScriptFacts ==
    ASSUME Basic, NEW r \in Requests, RunScript(r)
    PROVE  /\ Score(r) \in Nat /\ high \in Nat
           /\ high' = IF high <= Score(r) THEN Score(r) ELSE high
           /\ high' \in Nat
           /\ idle' = 0
           /\ window' \subseteq added' /\ added' \subseteq Requests
           /\ Cardinality(window') <= Limit
           /\ added' \subseteq added \cup {r}
           /\ Trimmed(window, Score(r)) \subseteq window'
           /\ r \in added' => r \in added \/ (Allows(window, Score(r)) /\ r \in window')
           /\ Allows(window, Score(r)) => r \in added'
           /\ added \subseteq added'
  <1> DEFINE s == Score(r)
             t == Trimmed(window, s)
             taken == IF Allows(window, s) THEN {r} ELSE {}
  <1>1. /\ s \in Nat /\ high \in Nat /\ window \subseteq added
        /\ added \subseteq Requests /\ Cardinality(window) <= Limit
        /\ Limit \in Nat
    BY WindowAssumption DEF Basic, TypeOK, Score, Call
  <1>2. /\ window' = t \cup taken /\ added' = added \cup taken /\ idle' = 0
        /\ high' = Max({high, s})
    BY DEF RunScript
  <1>3. high' = (IF high <= s THEN s ELSE high) /\ high' \in Nat
    <2> HIDE DEF s
    <2> QED  BY <1>1, <1>2, OfTwo
  <1>4. t \subseteq window
    BY DEF Trimmed
  <1>5. Cardinality(t \cup taken) <= Limit
    <2>1. /\ Cardinality(t) \in Nat /\ Cardinality(t) <= Cardinality(window)
          /\ Cardinality(window) \in Nat
          /\ Cardinality(t \cup {r}) <= Cardinality(t) + 1
          /\ Cardinality(t \cup {r}) \in Nat
      <3>1. t \in SUBSET Requests /\ window \in SUBSET Requests
            /\ t \in SUBSET window /\ t \cup {r} \in SUBSET Requests
        BY <1>1, <1>4
      <3> HIDE DEF t
      <3> QED  BY <3>1, CallSets
    <2>2. CASE Allows(window, s)
      <3>1. Cardinality(t) < Limit
        BY <2>2 DEF Allows
      <3>2. t \cup taken = t \cup {r}
        BY <2>2
      <3> HIDE DEF t, taken
      <3> QED  BY <1>1, <2>1, <3>1, <3>2
    <2>3. CASE ~Allows(window, s)
      <3>1. t \cup taken = t
        BY <2>3
      <3> HIDE DEF t, taken
      <3> QED  BY <1>1, <2>1, <3>1
    <2> QED  BY <2>2, <2>3
  <1> HIDE DEF s, t
  <1>6. /\ window' \subseteq added' /\ added' \subseteq Requests
        /\ added' \subseteq added \cup {r} /\ t \subseteq window'
        /\ r \in added' => r \in added \/ (Allows(window, s) /\ r \in window')
        /\ Allows(window, s) => r \in added'
        /\ added \subseteq added'
    BY <1>1, <1>2, <1>4
  <1> QED  BY <1>1, <1>2, <1>3, <1>5, <1>6 DEF s, t

\* What the step that runs a script makes of its call: it has been made and is
\* not late, and is granted only what the script allows.
LEMMA ScriptCall ==
    ASSUME Basic, NEW r \in Requests, Execute(r) \/ ExecuteOrphan(r)
    PROVE  /\ Pending(call[r]) /\ call[r].stage # "idle"
           /\ \E d : /\ call' = [call EXCEPT ![r] = d]
                     /\ Follows(d, call[r], now) \/
                          /\ Orderly(d) /\ d.stage = "waiting"
                          /\ d.stamp = call[r].stamp
                          /\ Granted(d) => Allows(window, Score(r))
  <1> DEFINE c == call[r]
  <1>1. call \in [Requests -> Call] /\ Orderly(c) /\ now \in Nat
    BY WindowAssumption DEF Basic, TypeOK
  <1>2. CASE Execute(r)
    <2> DEFINE reply == IF Allows(window, Score(r)) THEN "allow" ELSE "deny"
               d == [c EXCEPT !.sent = FALSE, !.reply = reply]
    <2>1. c.sent /\ call' = [call EXCEPT ![r] = d]
      BY <1>1, <1>2 DEF Execute, Executed
    <2>2. /\ reply \in {"allow", "deny"}
          /\ reply = "allow" => Allows(window, Score(r))
      OBVIOUS
    <2> HIDE DEF reply
    <2>3. /\ Orderly(d) /\ d.stage = "waiting" /\ d.stamp = c.stamp
          /\ Granted(d) <=> reply = "allow"
      BY <1>1, <2>1, <2>2, ExecutedFollows
    <2>4. Pending(c) /\ c.stage # "idle"
      BY <1>1, <2>1 DEF Orderly, Pending
    <2> HIDE DEF d
    <2> QED  BY <2>1, <2>2, <2>3, <2>4
  <1>3. CASE ExecuteOrphan(r)
    <2>1. ClientStep(r) /\ c.orphans > 0
      BY <1>3 DEF ExecuteOrphan, OrphanGone, ClientStep
    <2>2. PICK d : Follows(d, c, now) /\ call' = [call EXCEPT ![r] = d]
      BY <1>1, <2>1, ClientFollows
    <2>3. Pending(c) /\ c.stage # "idle"
      BY <1>1, <2>1 DEF Orderly, Pending, Call
    <2> QED  BY <2>2, <2>3
  <1> QED  BY <1>2, <1>3

\* A call whose fate is decided in an orderly way keeps Basic, if what it is
\* granted has been added.
LEMMA CallKeepsBasic ==
    ASSUME Basic, NEW r \in Requests, NEW d, call' = [call EXCEPT ![r] = d],
           Orderly(d), d.stage # "idle",
           call[r].stage # "idle" => d.stamp = call[r].stamp,
           Granted(d) => r \in added',
           added \subseteq added', added' \subseteq added \cup {r},
           r \in added' => call[r].stage # "idle" /\ Score(r) <= high',
           high \in Nat, high' \in Nat, high <= high'
    PROVE  /\ call' \in [Requests -> Call]
           /\ (\A q \in Requests : Orderly(call[q]))'
           /\ (\A q \in Requests : Granted(call[q]) => q \in added)'
           /\ (\A q \in added : call[q].stage # "idle" /\ Score(q) <= high)'
           /\ \A q \in added' : call'[q].stamp = call[q].stamp
  <1>1. /\ call \in [Requests -> Call] /\ added \subseteq Requests
        /\ \A q \in Requests : Orderly(call[q])
        /\ \A q \in Requests : Granted(call[q]) => q \in added
        /\ \A q \in added : call[q].stage # "idle" /\ Score(q) <= high
    BY DEF Basic, TypeOK
  <1>2. d \in Call
    BY DEF Orderly
  <1>3. \A q \in Requests : call'[q] = IF q = r THEN d ELSE call[q]
    BY <1>1
  <1>4. call' \in [Requests -> Call]
    BY <1>1, <1>2
  <1>5. \A q \in Requests : Orderly(call'[q])
    BY <1>1, <1>3
  <1>6. \A q \in Requests : Granted(call'[q]) => q \in added'
    BY <1>1, <1>3
  <1>7. ASSUME NEW q \in added'
        PROVE  /\ call'[q].stage # "idle" /\ call'[q].stamp <= high'
               /\ call'[q].stamp = call[q].stamp
    <2>1. CASE q = r
      BY <1>3, <1>7, <2>1 DEF Score
    <2>2. CASE q # r
      <3>1. q \in added /\ q \in Requests
        BY <1>1, <1>7, <2>2
      <3>2. call[q].stamp <= high /\ call[q].stamp \in Nat /\ call[q].stage # "idle"
        BY <1>1, <3>1 DEF Score, Call
      <3>3. call'[q] = call[q]
        BY <1>3, <2>2, <3>1
      <3> QED  BY <3>2, <3>3
    <2> QED  BY <2>1, <2>2
  <1> QED  BY <1>4, <1>5, <1>6, <1>7 DEF Score

\* Every step keeps Basic.
LEMMA NextBasic == Basic /\ [Next]_vars => Basic'
  <1> SUFFICES ASSUME Basic, [Next]_vars PROVE Basic'
    OBVIOUS
  <1>1. /\ call \in [Requests -> Call] /\ idle \in 0 .. Ttl
        /\ now \in 0 .. MaxTime /\ now \in Nat /\ high \in Nat
        /\ window \subseteq added /\ added \subseteq Requests
        /\ Cardinality(window) <= Limit
        /\ Ttl \in Nat \ {0} /\ MaxTime \in Nat /\ Limit \in Nat
        /\ \A q \in Requests : Orderly(call[q])
        /\ \A q \in Requests : Granted(call[q]) => q \in added
        /\ \A q \in added : call[q].stage # "idle" /\ Score(q) <= high
    BY WindowAssumption DEF Basic, TypeOK
  <1>2. ASSUME NEW r \in Requests, Execute(r) \/ ExecuteOrphan(r)
        PROVE  Basic'
    <2>1. RunScript(r) /\ now' = now
      BY <1>2 DEF Execute, ExecuteOrphan
    <2>2. PICK d : /\ call' = [call EXCEPT ![r] = d]
                   /\ Follows(d, call[r], now) \/
                          /\ Orderly(d) /\ d.stage = "waiting"
                          /\ d.stamp = call[r].stamp
                          /\ Granted(d) => Allows(window, Score(r))
      BY <1>2, ScriptCall
    <2>3. call[r].stage # "idle"
      BY <1>2, ScriptCall
    <2>4. /\ Score(r) \in Nat /\ high' \in Nat /\ idle' = 0
          /\ high' = IF high <= Score(r) THEN Score(r) ELSE high
          /\ window' \subseteq added' /\ added' \subseteq Requests
          /\ Cardinality(window') <= Limit
          /\ added' \subseteq added \cup {r} /\ added \subseteq added'
          /\ Allows(window, Score(r)) => r \in added'
      BY <2>1, ScriptFacts
    <2>5. Orderly(d) /\ d.stage # "idle" /\ d.stamp = call[r].stamp
      BY <2>2, <2>3 DEF Follows
    <2>6. Granted(d) => r \in added'
      BY <1>1, <2>2, <2>4 DEF Follows
    <2>7. Score(r) <= high' /\ high <= high'
      BY <1>1, <2>4
    <2>8. /\ call' \in [Requests -> Call]
          /\ (\A q \in Requests : Orderly(call[q]))'
          /\ (\A q \in Requests : Granted(call[q]) => q \in added)'
          /\ (\A q \in added : call[q].stage # "idle" /\ Score(q) <= high)'
      BY <1>1, <2>2, <2>3, <2>4, <2>5, <2>6, <2>7, CallKeepsBasic
    <2>9. TypeOK'
      BY <1>1, <2>1, <2>4, <2>8 DEF TypeOK
    <2> QED  BY <2>8, <2>9 DEF Basic
  <1>3. ASSUME NEW r \in Requests, ClientStep(r),
               UNCHANGED <<window, idle, now, history>>
        PROVE  Basic'
    <2>1. UNCHANGED <<window, idle, now, added, high>>
      BY <1>3 DEF history
    <2>2. PICK d : Follows(d, call[r], now) /\ call' = [call EXCEPT ![r] = d]
      BY <1>1, <1>3, ClientFollows
    <2>3. /\ Orderly(d) /\ d.stage # "idle"
          /\ call[r].stage # "idle" => d.stamp = call[r].stamp
          /\ Granted(d) => r \in added'
      BY <1>1, <2>1, <2>2 DEF Follows
    <2>4. /\ call' \in [Requests -> Call]
          /\ (\A q \in Requests : Orderly(call[q]))'
          /\ (\A q \in Requests : Granted(call[q]) => q \in added)'
          /\ (\A q \in added : call[q].stage # "idle" /\ Score(q) <= high)'
      <3>1. /\ added \subseteq added' /\ added' \subseteq added \cup {r}
            /\ r \in added' => call[r].stage # "idle" /\ Score(r) <= high'
            /\ high' \in Nat /\ high <= high'
        BY <1>1, <2>1
      <3> QED  BY <1>1, <2>2, <2>3, <3>1, CallKeepsBasic
    <2>5. TypeOK'
      BY <1>1, <2>1, <2>4 DEF TypeOK
    <2> QED  BY <2>4, <2>5 DEF Basic
  <1>4. CASE Tick
    <2>1. /\ UNCHANGED <<call, added, high>> /\ now' \in 0 .. MaxTime
          /\ idle' = Min({idle + 1, Ttl})
          /\ window' = IF idle + 1 < Ttl THEN window ELSE {}
      BY <1>1, <1>4 DEF Tick, history
    <2>2. idle' \in 0 .. Ttl
      <3>1. idle + 1 \in Int /\ Ttl \in Int
        BY <1>1
      <3>2. Min({idle + 1, Ttl}) = IF idle + 1 <= Ttl THEN idle + 1 ELSE Ttl
        BY <3>1, OfTwo
      <3> QED  BY <1>1, <2>1, <3>2
    <2>3. window' \subseteq added' /\ Cardinality(window') <= Limit
      <3>1. Cardinality({}) = 0
        BY FS_EmptySet
      <3>2. CASE idle + 1 < Ttl
        BY <1>1, <2>1, <3>2
      <3>3. CASE ~(idle + 1 < Ttl)
        <4>1. window' = {}
          BY <2>1, <3>3
        <4> QED  BY <1>1, <3>1, <4>1
      <3> QED  BY <3>2, <3>3
    <2>4. TypeOK'
      BY <1>1, <2>1, <2>2, <2>3 DEF TypeOK
    <2> QED  BY <1>1, <2>1, <2>4 DEF Basic, Score
  <1>5. CASE UNCHANGED vars
    BY <1>5 DEF vars, history, Basic, TypeOK, Score
  <1> QED  BY <1>2, <1>3, <1>4, <1>5 DEF Next

\* No call has been made.
LEMMA InitBasic == Init => Basic
  <1> SUFFICES ASSUME Init PROVE Basic
    OBVIOUS
  <1>1. NewCall \in Call /\ Orderly(NewCall) /\ ~Granted(NewCall)
    BY NewCallOrderly DEF Orderly
  <1>2. Cardinality({}) = 0
    BY FS_EmptySet
  <1> QED  BY <1>1, <1>2, WindowAssumption DEF Init, Basic, TypeOK

\* sliding_window.lua and check_sliding_window keep their types: the sorted set
\* never holds more than limit members.
THEOREM WindowTypeCorrect == Spec => []TypeOK
  <1>1. Basic => TypeOK
    BY DEF Basic
  <1> QED  BY <1>1, InitBasic, NextBasic, PTL DEF Spec

\* Whatever copies are resent or lost, check_sliding_window lets a call through
\* only if a script counted it, or in FAIL_OPEN mode without Redis.
THEOREM AllowedAreCounted == Spec => []Counted
  <1>1. Basic => Counted
    BY DEF Basic, Orderly, Granted, Counted
  <1> QED  BY <1>1, InitBasic, NextBasic, PTL DEF Spec

-----------------------------------------------------------------------------
(* The limit, when clocks are at most k apart and a key outlives its        *)
(* window by k and the longest delay.                                       *)

\* What was admitted in the current window is in the sorted set still.
Known == \A q \in added : Score(q) > high - Window => q \in window

\* The calls admitted with readings in the n ticks from a on.
Stretch(a, n) == {q \in added : Score(q) - a \in 0 .. n - 1}

Timed(k) ==
    /\ \A r \in Requests : Timely(call[r], now, k)
    /\ high <= now - idle + k
    /\ Known \/ (window = {} /\ idle = Ttl)
    /\ CurrentWindow
    /\ \A a \in Int : Cardinality(Stretch(a, Window - MaxDelay - k)) <= Limit

\* The times involved when a script runs: what the key forgot when it expired
\* is older than the window of any script that can still come.
LEMMA ScriptTimes ==
    ASSUME Basic, NEW k \in Nat, Timed(k), Window + MaxDelay + k <= Ttl,
           NEW r \in Requests, Pending(call[r]), NEW s, s = Score(r)
    PROVE  /\ s \in Nat /\ high \in Nat /\ now \in Nat /\ idle \in Nat
           /\ MaxDelay \in Nat /\ Window \in Nat
           /\ s <= now + k /\ high <= now + k
           /\ high <= s + MaxDelay + k
           /\ idle = Ttl => high <= s - Window
           /\ \A q \in added : Score(q) \in Nat /\ Score(q) <= high
  <1>1. /\ s \in Nat /\ high \in Nat /\ now \in Nat /\ idle \in Nat
        /\ MaxDelay \in Nat /\ Window \in Nat /\ Ttl \in Nat
    BY WindowAssumption, CallAssumption DEF Basic, TypeOK, Score, Call
  <1>2. s <= now + k /\ now <= s + MaxDelay /\ high <= now - idle + k
    BY DEF Timed, Timely, Score
  <1>3. \A q \in added : Score(q) \in Nat /\ Score(q) <= high
    BY DEF Basic, TypeOK, Score, Call
  <1> QED  BY <1>1, <1>2, <1>3

\* A script keeps the current window known, and so within the limit.
LEMMA ScriptKeepsCurrent ==
    ASSUME Basic, NEW k \in Nat, Timed(k), Window + MaxDelay + k <= Ttl,
           NEW r \in Requests, Pending(call[r]), RunScript(r),
           \A q \in added' : call'[q].stamp = call[q].stamp
    PROVE  Known' /\ CurrentWindow'
  <1> DEFINE s == Score(r)
  <1>1. /\ s \in Nat /\ high \in Nat /\ high' \in Nat /\ Window \in Nat
        /\ idle = Ttl => high <= s - Window
        /\ \A q \in added : Score(q) \in Nat /\ Score(q) <= high
        /\ high' = IF high <= s THEN s ELSE high
    BY ScriptTimes, ScriptFacts
  <1>2. /\ added' \subseteq added \cup {r}
        /\ Trimmed(window, s) \subseteq window'
        /\ r \in added' => r \in added \/ r \in window'
        /\ window' \subseteq Requests /\ Cardinality(window') <= Limit
        /\ Limit \in Nat
    BY ScriptFacts, WindowAssumption
  <1>3. \A q \in added' : Score(q)' = Score(q)
    BY DEF Score
  <1> HIDE DEF s
  <1>4. ASSUME NEW q \in added', Score(q) > high' - Window
        PROVE  q \in window'
    <2>1. CASE q \in added
      <3>1. /\ Score(q) \in Nat /\ Score(q) <= high
            /\ high <= high' /\ s <= high'
        BY <1>1, <2>1
      <3>2. Score(q) > high - Window /\ Score(q) > s - Window
        BY <1>1, <1>4, <3>1
      <3>3. q \in window
        <4>1. CASE Known
          BY <2>1, <3>2, <4>1 DEF Known
        <4>2. CASE idle = Ttl
          BY <1>1, <3>1, <3>2, <4>2
        <4> QED  BY <4>1, <4>2 DEF Timed
      <3> QED  BY <1>2, <3>2, <3>3 DEF Trimmed
    <2>2. CASE q \notin added
      BY <1>2, <1>4, <2>2
    <2> QED  BY <2>1, <2>2
  <1>5. Known'
    BY <1>3, <1>4 DEF Known
  <1>6. CurrentWindow'
    <2> DEFINE A == {q \in added' : Score(q)' > high' - Window}
    <2>1. A \subseteq window'
      BY <1>3, <1>4
    <2>2. /\ Cardinality(A) <= Cardinality(window')
          /\ Cardinality(A) \in Nat /\ Cardinality(window') \in Nat
      <3>1. A \in SUBSET window' /\ window' \in SUBSET Requests /\ A \in SUBSET Requests
        BY <1>2, <2>1
      <3> HIDE DEF A
      <3> QED  BY <3>1, CallSets
    <2>3. CurrentWindow' <=> Cardinality(A) <= Limit
      BY DEF CurrentWindow
    <2> HIDE DEF A
    <2> QED  BY <1>2, <2>2, <2>3
  <1> QED  BY <1>5, <1>6

\* A script that adds to a stretch still knows what is in it.
LEMMA ScriptKeepsStretch ==
    ASSUME Basic, NEW k \in Nat, Timed(k), Window + MaxDelay + k <= Ttl,
           NEW r \in Requests, Pending(call[r]), RunScript(r),
           \A q \in added' : call'[q].stamp = call[q].stamp,
           NEW a \in Int
    PROVE  Cardinality(Stretch(a, Window - MaxDelay - k)') <= Limit
  <1> DEFINE s == Score(r)
             n == Window - MaxDelay - k
             A == Stretch(a, n)
             B == Stretch(a, n)'
             t == Trimmed(window, s)
  <1>1. /\ s \in Nat /\ high \in Nat /\ Window \in Nat /\ MaxDelay \in Nat
        /\ high <= s + MaxDelay + k
        /\ idle = Ttl => high <= s - Window
        /\ \A q \in added : Score(q) \in Nat /\ Score(q) <= high
    BY ScriptTimes
  <1>2. /\ added' \subseteq added \cup {r} /\ added' \subseteq Requests
        /\ added \subseteq Requests /\ window \subseteq Requests
        /\ r \in added' => r \in added \/ Allows(window, s)
        /\ Limit \in Nat
    BY ScriptFacts, WindowAssumption DEF Basic, TypeOK
  <1>3. B = {q \in added' : Score(q) - a \in 0 .. n - 1}
    BY DEF Stretch, Score
  <1>4. A = {q \in added : Score(q) - a \in 0 .. n - 1}
    BY DEF Stretch
  <1>5. /\ A \in SUBSET Requests /\ B \in SUBSET Requests /\ t \in SUBSET Requests
        /\ B \subseteq A \cup {r}
    BY <1>2, <1>3, <1>4 DEF Trimmed
  <1>6. Cardinality(A) <= Limit
    BY DEF Timed
  <1>7. CASE r \notin B \/ r \in added
    <2>1. B \subseteq A
      BY <1>3, <1>4, <1>5, <1>7
    <2> HIDE DEF A, B
    <2>2. /\ Cardinality(B) <= Cardinality(A)
          /\ Cardinality(A) \in Nat /\ Cardinality(B) \in Nat
      BY <1>5, <2>1, CallSets
    <2>3. Cardinality(B) <= Limit
      BY <1>2, <1>6, <2>2
    <2> QED  BY <2>3 DEF B
  <1>8. CASE r \in B /\ r \notin added
    <2>1. Allows(window, s) /\ s - a \in 0 .. n - 1
      BY <1>2, <1>3, <1>8
    <2>2. Cardinality(t) < Limit
      BY <2>1 DEF Allows
    <2>3. ASSUME NEW q \in A
          PROVE  q \in t
      <3>1. /\ q \in added /\ Score(q) - a \in 0 .. n - 1
            /\ Score(q) \in Nat /\ Score(q) <= high
        BY <1>1, <1>4, <2>3
      <3> HIDE DEF s
      <3>2. /\ Score(q) > s - Window /\ Score(q) > high - Window
        BY <1>1, <2>1, <3>1
      <3>3. q \in window
        <4>1. CASE Known
          BY <3>1, <3>2, <4>1 DEF Known
        <4>2. CASE idle = Ttl
          BY <1>1, <3>1, <3>2, <4>2
        <4> QED  BY <4>1, <4>2 DEF Timed
      <3> QED  BY <3>2, <3>3 DEF Trimmed
    <2>4. A \subseteq t
      BY <2>3
    <2> HIDE DEF A, B, t
    <2>5. /\ Cardinality(A) <= Cardinality(t) /\ Cardinality(A) \in Nat
          /\ Cardinality(t) \in Nat
          /\ Cardinality(A \cup {r}) <= Cardinality(A) + 1
          /\ Cardinality(B) <= Cardinality(A \cup {r})
          /\ Cardinality(B) \in Nat /\ Cardinality(A \cup {r}) \in Nat
      <3>1. A \cup {r} \in SUBSET Requests
        BY <1>5
      <3> QED  BY <1>5, <2>4, <3>1, CallSets
    <2>6. Cardinality(B) <= Limit
      BY <1>2, <2>2, <2>5
    <2> QED  BY <2>6 DEF B
  <1> QED  BY <1>7, <1>8

\* Every step keeps the limit.
LEMMA NextTimed ==
    ASSUME NEW k \in Nat, \A skew \in Skews : skew <= k,
           Window + MaxDelay + k <= Ttl
    PROVE  Basic /\ Timed(k) /\ [Next]_vars => Timed(k)'
  <1> SUFFICES ASSUME Basic, Timed(k), [Next]_vars PROVE Timed(k)'
    OBVIOUS
  <1>1. /\ call \in [Requests -> Call] /\ idle \in 0 .. Ttl
        /\ now \in Nat /\ high \in Nat /\ Ttl \in Nat \ {0}
        /\ added \subseteq Requests
        /\ \A q \in Requests : Orderly(call[q])
        /\ \A q \in added : call[q].stage # "idle"
        /\ \A q \in Requests : Timely(call[q], now, k)
        /\ high <= now - idle + k
    BY WindowAssumption DEF Basic, TypeOK, Timed
  \* Changing one call in time leaves everybody in time.
  <1>2. ASSUME NEW r \in Requests, NEW d, call' = [call EXCEPT ![r] = d],
               Timely(d, now, k), now' = now
        PROVE  (\A q \in Requests : Timely(call[q], now, k))'
    <2>1. \A q \in Requests : call'[q] = IF q = r THEN d ELSE call[q]
      BY <1>1, <1>2
    <2> QED  BY <1>1, <1>2, <2>1
  \* Nothing but calls not yet counted changes.
  <1>3. ASSUME UNCHANGED <<window, added, high>>,
               \A q \in added : call'[q].stamp = call[q].stamp
        PROVE  /\ CurrentWindow'
               /\ Known => Known'
               /\ (\A a \in Int :
                     Cardinality(Stretch(a, Window - MaxDelay - k)) <= Limit)'
    <2>1. \A q \in added : Score(q)' = Score(q)
      BY <1>3 DEF Score
    <2>2. {q \in added : Score(q) > high - Window}'
            = {q \in added : Score(q) > high - Window}
      BY <1>3, <2>1
    <2>3. \A a : Stretch(a, Window - MaxDelay - k)'
                   = Stretch(a, Window - MaxDelay - k)
      BY <1>3, <2>1 DEF Stretch
    <2>4. CurrentWindow'
      BY <2>2 DEF Timed, CurrentWindow
    <2>5. Known => Known'
      BY <1>3, <2>1 DEF Known
    <2> QED  BY <2>3, <2>4, <2>5 DEF Timed
  <1>4. ASSUME NEW r \in Requests, Execute(r) \/ ExecuteOrphan(r)
        PROVE  Timed(k)'
    <2>1. RunScript(r) /\ now' = now /\ Pending(call[r])
      BY <1>4, ScriptCall DEF Execute, ExecuteOrphan
    <2>2. PICK d : /\ call' = [call EXCEPT ![r] = d]
                   /\ Follows(d, call[r], now) \/
                          /\ Orderly(d) /\ d.stage = "waiting"
                          /\ d.stamp = call[r].stamp
                          /\ Granted(d) => Allows(window, Score(r))
      BY <1>4, ScriptCall
    <2>3. call[r].stage # "idle"
      BY <1>4, ScriptCall
    <2>4. d.stamp = call[r].stamp
      BY <2>2, <2>3 DEF Follows
    <2>5. Timely(d, now, k)
      <3>1. CASE Follows(d, call[r], now)
        BY <1>1, <3>1, FollowsTimely
      <3>2. CASE ~Follows(d, call[r], now)
        BY <1>1, <2>1, <2>4 DEF Timely
      <3> QED  BY <3>1, <3>2
    <2>6. (\A q \in Requests : Timely(call[q], now, k))'
      BY <1>2, <2>1, <2>2, <2>5
    <2>7. \A q \in added' : call'[q].stamp = call[q].stamp
      <3>1. added' \subseteq Requests
        BY <2>1, ScriptFacts
      <3>2. \A q \in Requests : call'[q] = IF q = r THEN d ELSE call[q]
        BY <1>1, <2>2
      <3> QED  BY <2>4, <3>1, <3>2
    <2>8. Known' /\ CurrentWindow'
      BY <2>1, <2>7, ScriptKeepsCurrent
    <2>9. (\A a \in Int :
             Cardinality(Stretch(a, Window - MaxDelay - k)) <= Limit)'
      BY <2>1, <2>7, ScriptKeepsStretch
    <2>10. (high <= now - idle + k)'
      <3> DEFINE s == Score(r)
      <3>1. s \in Nat /\ s <= now + k /\ high <= now + k
        BY <2>1, ScriptTimes
      <3>2. high' = (IF high <= s THEN s ELSE high) /\ idle' = 0
        BY <2>1, ScriptFacts
      <3> HIDE DEF s
      <3> QED  BY <1>1, <2>1, <3>1, <3>2
    <2> QED  BY <2>6, <2>8, <2>9, <2>10 DEF Timed
  <1>5. ASSUME NEW r \in Requests, ClientStep(r),
               UNCHANGED <<window, idle, now, history>>
        PROVE  Timed(k)'
    <2>1. UNCHANGED <<window, idle, now, added, high>>
      BY <1>5 DEF history
    <2>2. PICK d : Follows(d, call[r], now) /\ call' = [call EXCEPT ![r] = d]
      BY <1>1, <1>5, ClientFollows
    <2>3. Timely(d, now, k)
      BY <1>1, <2>2, FollowsTimely
    <2>4. (\A q \in Requests : Timely(call[q], now, k))'
      BY <1>2, <2>1, <2>2, <2>3
    <2>5. \A q \in added : call'[q].stamp = call[q].stamp
      <3>1. \A q \in Requests : call'[q] = IF q = r THEN d ELSE call[q]
        BY <1>1, <2>2
      <3> QED  BY <1>1, <2>2, <3>1 DEF Follows
    <2>6. Known' \/ (window = {} /\ idle = Ttl)'
      BY <1>3, <2>1, <2>5 DEF Timed
    <2> QED  BY <1>1, <1>3, <2>1, <2>4, <2>5, <2>6 DEF Timed
  <1>6. CASE Tick
    <2>1. /\ UNCHANGED <<call, added, high>> /\ now' = now + 1 /\ NobodyOverdue
          /\ idle' = Min({idle + 1, Ttl})
          /\ window' = IF idle + 1 < Ttl THEN window ELSE {}
      BY <1>6 DEF Tick, history
    <2>2. (\A q \in Requests : Timely(call[q], now, k))'
      BY <1>1, <2>1, TickTimely
    <2>3. idle' = IF idle + 1 <= Ttl THEN idle + 1 ELSE Ttl
      <3>1. idle + 1 \in Int /\ Ttl \in Int
        BY <1>1
      <3> QED  BY <2>1, <3>1, OfTwo
    <2>4. (high <= now - idle + k)'
      BY <1>1, <2>1, <2>3
    <2>5. Known' \/ (window = {} /\ idle = Ttl)'
      <3>1. CASE idle + 1 < Ttl
        <4>1. window' = window /\ Known
          BY <1>1, <2>1, <3>1 DEF Timed
        <4> QED  BY <2>1, <4>1 DEF Known, Score
      <3>2. CASE ~(idle + 1 < Ttl)
        BY <1>1, <2>1, <2>3, <3>2
      <3> QED  BY <3>1, <3>2
    <2>6. CurrentWindow'
      BY <2>1 DEF Timed, CurrentWindow, Score
    <2>7. (\A a \in Int :
             Cardinality(Stretch(a, Window - MaxDelay - k)) <= Limit)'
      BY <2>1 DEF Timed, Stretch, Score
    <2> QED  BY <2>2, <2>4, <2>5, <2>6, <2>7 DEF Timed
  <1>7. CASE UNCHANGED vars
    BY <1>7
    DEF vars, history, Timed, Known, CurrentWindow, Stretch, Score
  <1> QED  BY <1>4, <1>5, <1>6, <1>7 DEF Next

\* Nothing has been admitted.
LEMMA InitTimed ==
    ASSUME NEW k \in Nat
    PROVE  Init => Timed(k)
  <1> SUFFICES ASSUME Init PROVE Timed(k)
    OBVIOUS
  <1>1. \A r \in Requests : Timely(call[r], now, k)
    BY NewCallOrderly DEF Init
  <1>2. Cardinality({}) = 0 /\ Limit \in Nat
    BY FS_EmptySet, WindowAssumption
  <1>3. CurrentWindow
    BY <1>2 DEF Init, CurrentWindow
  <1>4. \A a \in Int : Cardinality(Stretch(a, Window - MaxDelay - k)) <= Limit
    BY <1>2 DEF Init, Stretch
  <1> QED  BY <1>1, <1>3, <1>4 DEF Init, Timed, Known

\* With clocks at most k apart, and a key that outlives its window by k and the
\* longest delay, the window that ends at the latest reading never holds more
\* than limit admitted calls, in whatever order the scripts run.
THEOREM WindowNeverOverfull ==
    ASSUME NEW k \in Nat, \A skew \in Skews : skew <= k,
           Window + MaxDelay + k <= Ttl
    PROVE  Spec => []CurrentWindow
  <1>1. Init => Timed(k)
    BY InitTimed
  <1>2. Basic /\ Timed(k) /\ [Next]_vars => Timed(k)'
    BY NextTimed
  <1>3. Timed(k) => CurrentWindow
    BY DEF Timed
  <1> QED  BY <1>1, <1>2, <1>3, InitBasic, NextBasic, PTL DEF Spec

\* Under the same assumptions, k being the largest skew, late scripts let at
\* most limit calls into any stretch that is MaxDelay + k shorter than the
\* window.
THEOREM StretchesNeverOverfull ==
    ASSUME NEW k \in Skews \cup {0}, \A skew \in Skews : skew <= k,
           Window + MaxDelay + k <= Ttl
    PROVE  Spec => []AnyShorterWindow
  <1>0. k \in Nat
    BY CallAssumption
  <1>1. Init => Timed(k)
    BY <1>0, InitTimed
  <1>2. Basic /\ Timed(k) /\ [Next]_vars => Timed(k)'
    BY <1>0, NextTimed
  <1>3. Basic /\ Timed(k) => AnyShorterWindow
    <2> SUFFICES ASSUME Basic, Timed(k) PROVE AnyShorterWindow
      OBVIOUS
    <2>1. Max(Skews \cup {0}) = k
      <3> DEFINE S == Skews \cup {0}
                 m == Max(S)
      <3>1. S \subseteq Nat /\ k \in S /\ \A x \in S : k >= x
        BY <1>0, CallAssumption
      <3> HIDE DEF S
      <3>2. m \in S /\ \A x \in S : m >= x
        BY <3>1 DEF Max
      <3> HIDE DEF m
      <3>3. m = k
        BY <3>1, <3>2
      <3> QED  BY <3>3 DEF m, S
    <2>2. \A q \in added : Score(q) \in Int
      BY DEF Basic, TypeOK, Score, Call
    <2> DEFINE n == Window - MaxDelay - k
    <2>3. \A q \in added : Cardinality(Stretch(Score(q), n)) <= Limit
      BY <2>2 DEF Timed
    <2> HIDE DEF n
    <2>4. \A q \in added :
            Cardinality({r \in added : Score(r) - Score(q) \in 0 .. n - 1}) <= Limit
      BY <2>3 DEF Stretch
    <2> QED  BY <2>1, <2>4 DEF AnyShorterWindow, n
  <1> QED  BY <1>1, <1>2, <1>3, InitBasic, NextBasic, PTL DEF Spec

-----------------------------------------------------------------------------
(* Calls admitted in the order of their readings.                           *)

\* Every stretch as long as the window, wherever it begins.
Exact == \A a \in Int : Cardinality(Stretch(a, Window)) <= Limit

\* The reading of a call that was admitted stays.  One call is admitted at a
\* time, and the latest reading is then its own or a later one.
LEMMA ReadingsStay ==
    ASSUME Basic, Next
    PROVE  /\ added \subseteq added' /\ added' \subseteq Requests
           /\ \A q \in added' : call'[q].stamp = call[q].stamp
           /\ \A r \in added' \ added :
                /\ added' = added \cup {r}
                /\ high' = IF high <= Score(r) THEN Score(r) ELSE high
  <1>1. /\ call \in [Requests -> Call] /\ now \in Nat /\ added \subseteq Requests
        /\ \A q \in Requests : Orderly(call[q])
        /\ \A q \in added : call[q].stage # "idle"
    BY WindowAssumption DEF Basic, TypeOK
  <1>2. ASSUME NEW r \in Requests, Execute(r) \/ ExecuteOrphan(r)
        PROVE  /\ added \subseteq added' /\ added' \subseteq Requests
               /\ \A q \in added' : call'[q].stamp = call[q].stamp
               /\ \A x \in added' \ added :
                    /\ added' = added \cup {x}
                    /\ high' = IF high <= Score(x) THEN Score(x) ELSE high
    <2>1. RunScript(r)
      BY <1>2 DEF Execute, ExecuteOrphan
    <2>2. PICK d : /\ call' = [call EXCEPT ![r] = d]
                   /\ d.stamp = call[r].stamp
      BY <1>2, ScriptCall DEF Follows
    <2>3. \A q \in Requests : call'[q].stamp = call[q].stamp
      BY <1>1, <2>2
    <2>4. /\ added \subseteq added' /\ added' \subseteq Requests
          /\ added' \subseteq added \cup {r}
          /\ high' = IF high <= Score(r) THEN Score(r) ELSE high
      BY <2>1, ScriptFacts
    <2>5. \A x \in added' \ added : x = r /\ added' = added \cup {r}
      BY <2>4
    <2> QED  BY <2>3, <2>4, <2>5
  <1>3. ASSUME NEW r \in Requests, ClientStep(r), UNCHANGED history
        PROVE  added' = added /\ \A q \in added : call'[q].stamp = call[q].stamp
    <2>1. PICK d : Follows(d, call[r], now) /\ call' = [call EXCEPT ![r] = d]
      BY <1>1, <1>3, ClientFollows
    <2>2. \A q \in Requests : call'[q] = IF q = r THEN d ELSE call[q]
      BY <1>1, <2>1
    <2>3. added' = added
      BY <1>3 DEF history
    <2> QED  BY <1>1, <2>1, <2>2, <2>3 DEF Follows
  <1>4. CASE Tick
    BY <1>1, <1>4 DEF Tick, history
  <1> QED  BY <1>1, <1>2, <1>3, <1>4 DEF Next

\* A call that joins a stretch joins the current window, and with it everything
\* in the stretch.
LEMMA StretchIsCurrent ==
    ASSUME Basic, Exact, Next, CurrentWindow', Basic',
           \A r \in added' \ added : Score(r) >= high
    PROVE  Exact'
  <1> SUFFICES ASSUME NEW a \in Int
               PROVE  Cardinality(Stretch(a, Window)') <= Limit
    BY DEF Exact
  <1> DEFINE A == Stretch(a, Window)
             B == Stretch(a, Window)'
             C == {q \in added : Score(q) > high - Window}'
  <1>1. /\ added \subseteq added' /\ added' \subseteq Requests
        /\ \A q \in added' : Score(q)' = Score(q)
        /\ \A r \in added' \ added :
             /\ added' = added \cup {r}
             /\ high' = IF high <= Score(r) THEN Score(r) ELSE high
    BY ReadingsStay DEF Score
  <1>2. /\ Window \in Nat /\ Limit \in Nat /\ high \in Nat /\ high' \in Nat
        /\ \A q \in added' : Score(q) \in Nat
    <2>1. \A q \in added' : Score(q)' \in Nat
      BY DEF Basic, TypeOK, Score, Call
    <2> QED  BY <1>1, <2>1, WindowAssumption DEF Basic, TypeOK
  <1>3. Cardinality(A) <= Limit
    BY DEF Exact
  <1>4. CASE \A r \in added' \ added : r \notin B
    <2>1. B \subseteq A
      BY <1>1, <1>4 DEF Stretch
    <2>2. A \in SUBSET Requests /\ B \in SUBSET A /\ B \in SUBSET Requests
      BY <1>1, <2>1 DEF Stretch
    <2> HIDE DEF A, B
    <2>3. /\ Cardinality(A) \in Nat /\ Cardinality(B) \in Nat
          /\ Cardinality(B) <= Cardinality(A)
      BY <2>2, CallSets
    <2>4. Cardinality(B) <= Limit
      BY <1>2, <1>3, <2>3
    <2> QED  BY <2>4 DEF B
  <1>5. ASSUME NEW r \in added' \ added, r \in B
        PROVE  Cardinality(B) <= Limit
    <2>1. Score(r) \in Nat /\ Score(r) >= high /\ high' = Score(r)
      BY <1>1, <1>2, <1>5
    <2>2. Score(r) - a <= Window - 1
      BY <1>1, <1>2, <1>5 DEF Stretch
    <2>3. \A q \in B : q \in added' /\ Score(q)' >= a /\ Score(q)' \in Nat
      BY <1>1, <1>2 DEF Stretch
    <2>4. B \subseteq C
      <3> HIDE DEF B
      <3> QED  BY <1>2, <2>1, <2>2, <2>3
    <2>5. Cardinality(C) <= Limit
      BY DEF CurrentWindow
    <2>6. C \in SUBSET Requests /\ B \in SUBSET C /\ B \in SUBSET Requests
      BY <1>1, <2>4
    <2> HIDE DEF B, C
    <2>7. /\ Cardinality(C) \in Nat /\ Cardinality(B) \in Nat
          /\ Cardinality(B) <= Cardinality(C)
      BY <2>6, CallSets
    <2> QED  BY <1>2, <2>5, <2>7
  <1> HIDE DEF B
  <1>6. Cardinality(B) <= Limit
    BY <1>4, <1>5 DEF B
  <1> QED  BY <1>6 DEF B

\* The limit of the docs, for every stretch as long as the window: it holds, in
\* whatever order the scripts run, as long as no call is admitted with a reading
\* older than one seen before, for a key that outlives its window by the longest
\* delay and the distance of the clocks.
THEOREM InOrderWindowsExact ==
    ASSUME NEW k \in Nat, \A skew \in Skews : skew <= k,
           Window + MaxDelay + k <= Ttl
    PROVE  Spec /\ AdmitsInOrder => []EveryWindow
  <1>1. Init => Timed(k) /\ Exact
    <2>1. Cardinality({}) = 0 /\ Limit \in Nat
      BY FS_EmptySet, WindowAssumption
    <2>2. Init => Exact
      BY <2>1 DEF Init, Exact, Stretch
    <2> QED  BY <2>2, InitTimed
  <1>2. Basic /\ Timed(k) /\ [Next]_vars => Timed(k)'
    BY NextTimed
  <1>3. Basic /\ Exact /\ [Next]_vars /\ CurrentWindow' /\ Basic'
          /\ [NoneAdmittedLate]_vars
            => Exact'
    <2> SUFFICES ASSUME Basic, Exact, [Next]_vars, CurrentWindow', Basic',
                        [NoneAdmittedLate]_vars
                 PROVE  Exact'
      OBVIOUS
    <2>1. CASE UNCHANGED vars
      <3>1. added' = added /\ call' = call
        BY <2>1 DEF vars, history
      <3>2. \A a : Stretch(a, Window)' = Stretch(a, Window)
        BY <3>1 DEF Stretch, Score
      <3> QED  BY <3>2 DEF Exact
    <2>2. CASE ~UNCHANGED vars
      BY <2>2, StretchIsCurrent DEF NoneAdmittedLate
    <2> QED  BY <2>1, <2>2
  <1>4. Timed(k) => CurrentWindow
    BY DEF Timed
  <1>5. Basic /\ Exact => EveryWindow
    <2>1. Basic => \A q \in added : Score(q) \in Int
      BY DEF Basic, TypeOK, Score, Call
    <2> QED  BY <2>1 DEF Exact, Stretch, EveryWindow
  <1> QED
    BY <1>1, <1>2, <1>3, <1>4, <1>5, InitBasic, NextBasic, PTL
    DEF Spec, AdmitsInOrder

-----------------------------------------------------------------------------
(* retry_after_ms.                                                          *)

\* A set of numbers has a least one.
LEMMA LeastNumber ==
    ASSUME NEW S \in SUBSET Nat, S # {}
    PROVE  Min(S) \in S /\ \A x \in S : Min(S) <= x
  <1> DEFINE R == OpToRel(<, Nat)
  <1>1. IsWellFoundedOn(R, Nat)
    BY NatLessThanWellFounded
  <1>2. \A x, y \in Nat : y < x => <<y, x>> \in R
    BY DEF OpToRel
  <1> HIDE DEF R
  <1>3. PICK x \in S : \A y \in S : ~(<<y, x>> \in R)
    BY <1>1, WFMin
  <1>4. \A y \in S : ~(y < x)
    BY <1>2, <1>3, Zenon
  <1>5. \A y \in S : x <= y
    BY <1>4
  <1> QED  BY <1>5 DEF Min

\* retry_after_ms of sliding_window.lua is exact to the tick, whatever readings
\* the window holds: the oldest entry leaves at that moment and not before.
THEOREM RetryAfterAlwaysExact == Spec => []RetryAfterExact
  <1>1. Basic => RetryAfterExact
    <2> SUFFICES ASSUME Basic, NEW r \in Requests, ~Allows(window, Score(r)),
                        Limit > 0
                 PROVE  LET wait == RetryAfter(window, Score(r))
                            left == Trimmed(window, Score(r))
                        IN  /\ Allows(left, Score(r) + wait)
                            /\ ~Allows(left, Score(r) + wait - 1)
      BY DEF RetryAfterExact
    <2> DEFINE s == Score(r)
               t == Trimmed(window, s)
               m == Min({Score(q) : q \in t})
    <2>1. /\ s \in Nat /\ Limit \in Nat /\ Window \in Nat
          /\ t \subseteq window /\ window \in SUBSET Requests
          /\ \A q \in t : Score(q) \in Nat
          /\ Cardinality(window) <= Limit
      BY WindowAssumption DEF Basic, TypeOK, Score, Call, Trimmed
    <2>2. ~(Cardinality(t) < Limit)
      BY DEF Allows
    <2> HIDE DEF s, t
    <2>3. /\ IsFiniteSet(t) /\ Cardinality(t) \in Nat /\ Cardinality(t) <= Limit
      <3>1. t \in SUBSET Requests /\ t \in SUBSET window
        BY <2>1
      <3>2. /\ IsFiniteSet(t) /\ Cardinality(t) \in Nat
            /\ Cardinality(window) \in Nat
            /\ Cardinality(t) <= Cardinality(window)
        BY <2>1, <3>1, CallSets
      <3> QED  BY <2>1, <3>2
    <2>4. t # {}
      BY <2>2, FS_EmptySet
    <2>5. m \in {Score(q) : q \in t} /\ \A q \in t : m <= Score(q)
      <3> DEFINE S == {Score(q) : q \in t}
      <3>1. S \in SUBSET Nat /\ S # {}
        BY <2>1, <2>4
      <3>2. \A q \in t : Score(q) \in S
        OBVIOUS
      <3> HIDE DEF S
      <3>3. Min(S) \in S /\ \A x \in S : Min(S) <= x
        BY <3>1, LeastNumber
      <3>4. \A q \in t : Min(S) <= Score(q)
        BY <3>2, <3>3
      <3> QED  BY <3>3, <3>4 DEF S
    <2>6. PICK q0 \in t : Score(q0) = m
      BY <2>5
    <2>7. RetryAfter(window, s) = m + Window - s
      BY <2>4 DEF RetryAfter, s, t
    <2> HIDE DEF m
    <2>8. m \in Nat
      BY <2>1, <2>6
    <2>9. /\ s + (m + Window - s) = m + Window
          /\ s + (m + Window - s) - 1 = m + Window - 1
      BY <2>1, <2>8
    <2>10. Trimmed(t, m + Window - 1) = t
      BY <2>1, <2>5, <2>8 DEF Trimmed
    <2>11. Trimmed(t, m + Window) \in SUBSET (t \ {q0})
      BY <2>1, <2>6, <2>8 DEF Trimmed
    <2>12. Cardinality(Trimmed(t, m + Window)) < Limit
      <3> DEFINE u == Trimmed(t, m + Window)
                 v == t \ {q0}
      <3>1. IsFiniteSet(v) /\ Cardinality(v) = Cardinality(t) - 1
        BY <2>3, FS_RemoveElement
      <3>2. u \in SUBSET v
        BY <2>11
      <3> HIDE DEF u, v
      <3>3. /\ Cardinality(u) <= Cardinality(v)
            /\ Cardinality(u) \in Nat
        BY <3>1, <3>2, FS_Subset, FS_CardinalityType
      <3>4. Cardinality(u) < Limit
        BY <2>1, <2>3, <3>1, <3>3
      <3> QED  BY <3>4 DEF u
    <2>13. Allows(t, m + Window) /\ ~Allows(t, m + Window - 1)
      BY <2>2, <2>10, <2>12 DEF Allows
    <2> QED  BY <2>7, <2>9, <2>13 DEF s, t
  <1> QED  BY <1>1, InitBasic, NextBasic, PTL DEF Spec
=============================================================================
