---------------------------- MODULE GatesProofs -----------------------------
(***************************************************************************)
(* Proofs about ConcurrencyGates, for any requests, gates, limits, paths   *)
(* and timeout.  The first part is about one gate, the second about the    *)
(* steps of the requests.                                                  *)
(***************************************************************************)
EXTENDS ConcurrencyGates, FiniteSetTheorems, SequenceTheorems, TLAPS

-----------------------------------------------------------------------------
(* One gate.                                                               *)

\* g is sound when W wait at it, n are inside, and its limit is L, but it may
\* owe somebody a wake-up.
Sound(g, L, W, n) ==
    /\ g \in Gate
    /\ g.granted <= Len(g.waiters)
    /\ IsInjective(g.waiters)
    /\ ToSet(g.waiters) = W
    /\ g.value + g.granted + g.in_flight = L
    /\ g.in_flight = n

Settled(g) == g.value > 0 /\ g.granted < Len(g.waiters) => g.granted > 0

GateOK(g, L, W, n) == Sound(g, L, W, n) /\ Settled(g)

\* A sequence without repetitions, and one more at its end.
LEMMA AppendFacts ==
    ASSUME NEW s \in Seq(Requests), IsInjective(s),
           NEW r \in Requests, r \notin ToSet(s), NEW w, w = Append(s, r)
    PROVE  /\ w \in Seq(Requests) /\ Len(w) = Len(s) + 1
           /\ IsInjective(w)
           /\ ToSet(w) = ToSet(s) \cup {r}
<1>1. /\ w \in Seq(Requests) /\ Len(w) = Len(s) + 1
      /\ \A i \in 1 .. Len(s) : w[i] = s[i]
      /\ w[Len(s) + 1] = r
      /\ DOMAIN s = 1 .. Len(s) /\ DOMAIN w = 1 .. Len(s) + 1 /\ Len(s) \in Nat
  OBVIOUS
<1>2. \A i \in DOMAIN s : s[i] # r
  BY DEF ToSet
<1>3. IsInjective(w)
  BY <1>1, <1>2 DEF IsInjective
<1>4. ToSet(w) = ToSet(s) \cup {r}
  BY <1>1 DEF ToSet
<1> QED
  BY <1>1, <1>3, <1>4

\* A sequence without repetitions, and the element at i taken out.
LEMMA RemoveAtFacts ==
    ASSUME NEW s \in Seq(Requests), IsInjective(s),
           NEW i \in 1 .. Len(s), NEW w, w = RemoveAt(s, i)
    PROVE  /\ w \in Seq(Requests) /\ Len(w) = Len(s) - 1
           /\ IsInjective(w)
           /\ ToSet(w) = ToSet(s) \ {s[i]}
<1> DEFINE b == SubSeq(s, 1, i - 1)
           e == SubSeq(s, i + 1, Len(s))
<1>1. /\ b \in Seq(Requests) /\ Len(b) = i - 1
      /\ \A j \in 1 .. i - 1 : b[j] = s[j]
  OBVIOUS
<1>2. /\ e \in Seq(Requests) /\ Len(e) = Len(s) - i
      /\ \A j \in 1 .. Len(s) - i : e[j] = s[i + j]
  OBVIOUS
<1>3. w = b \o e
  BY DEF RemoveAt
<1> HIDE DEF b, e
<1>4. /\ w \in Seq(Requests) /\ Len(w) = Len(s) - 1 /\ Len(s) \in Nat
      /\ DOMAIN s = 1 .. Len(s) /\ DOMAIN w = 1 .. Len(s) - 1
  <2>1. w \in Seq(Requests) /\ Len(w) = Len(b) + Len(e)
    BY <1>1, <1>2, <1>3, ConcatProperties
  <2>2. Len(s) \in Nat /\ Len(w) = Len(s) - 1
    BY <1>1, <1>2, <2>1
  <2> QED
    BY <2>1, <2>2
<1>5. ASSUME NEW j \in 1 .. i - 1 PROVE w[j] = s[j]
  BY <1>1, <1>2, <1>3
<1>6. ASSUME NEW j \in i .. Len(s) - 1 PROVE w[j] = s[j + 1]
  <2>1. /\ j - (i - 1) \in 1 .. Len(s) - i
        /\ i + (j - (i - 1)) = j + 1
    BY <1>4
  <2>2. w[j] = e[j - (i - 1)]
    BY <1>1, <1>2, <1>3, <2>1
  <2> QED
    BY <1>2, <2>1, <2>2
<1>7. \A j \in DOMAIN w : \E k \in DOMAIN s \ {i} :
        w[j] = s[k] /\ k = IF j < i THEN j ELSE j + 1
  <2> SUFFICES ASSUME NEW j \in DOMAIN w
               PROVE  \E k \in DOMAIN s \ {i} :
                        w[j] = s[k] /\ k = IF j < i THEN j ELSE j + 1
    OBVIOUS
  <2>1. CASE j < i
    BY <1>4, <1>5, <2>1
  <2>2. CASE ~(j < i)
    BY <1>4, <1>6, <2>2
  <2> QED
    BY <2>1, <2>2
<1>8. IsInjective(w)
  <2> SUFFICES ASSUME NEW p \in DOMAIN w, NEW q \in DOMAIN w, w[p] = w[q]
               PROVE  p = q
    BY DEF IsInjective
  <2>1. PICK k \in DOMAIN s : w[p] = s[k] /\ k = IF p < i THEN p ELSE p + 1
    BY <1>7
  <2>2. PICK l \in DOMAIN s : w[q] = s[l] /\ l = IF q < i THEN q ELSE q + 1
    BY <1>7
  <2>3. k = l
    BY <2>1, <2>2 DEF IsInjective
  <2>4. p \in Nat /\ q \in Nat /\ i \in Nat
    BY <1>4
  <2> QED
    BY <2>1, <2>2, <2>3, <2>4
<1>9. ASSUME NEW x \in ToSet(w) PROVE x \in ToSet(s) \ {s[i]}
  BY <1>4, <1>7 DEF ToSet, IsInjective
<1>10. ASSUME NEW x \in ToSet(s) \ {s[i]} PROVE x \in ToSet(w)
  <2>1. PICK j \in 1 .. Len(s) : x = s[j] /\ j # i
    BY <1>4 DEF ToSet
  <2>2. CASE j < i
    <3>1. j \in DOMAIN w /\ w[j] = x
      BY <1>4, <1>5, <2>1, <2>2
    <3> QED
      BY <3>1 DEF ToSet
  <2>3. CASE j > i
    <3>1. j - 1 \in DOMAIN w /\ w[j - 1] = x
      BY <1>4, <1>6, <2>1, <2>3
    <3> QED
      BY <3>1 DEF ToSet
  <2> QED
    BY <2>1, <2>2, <2>3
<1> QED
  BY <1>4, <1>8, <1>9, <1>10

\* A free slot taken is one more inside.
LEMMA TakeSlotOK ==
    ASSUME NEW g, NEW L \in Nat, NEW W, NEW n \in Nat,
           GateOK(g, L, W, n), ~Locked(g)
    PROVE  GateOK(TakeSlot(g), L, W, n + 1)
<1> DEFINE h == TakeSlot(g)
           v == g.value - 1
           f == g.in_flight + 1
<1>1. g \in Gate /\ v \in Nat /\ f \in Int
  BY DEF GateOK, Sound, Locked, Gate
<1>2. h = [g EXCEPT !.value = v, !.in_flight = f]
  BY DEF TakeSlot
<1> HIDE DEF h, v, f
<1>3. /\ h \in Gate /\ h.value = v /\ h.waiters = g.waiters
      /\ h.granted = g.granted /\ h.in_flight = f
  BY <1>1, <1>2 DEF Gate
<1>4. GateOK(h, L, W, n + 1)
  BY <1>3 DEF GateOK, Sound, Settled, Gate, Locked, v, f
<1> QED
  BY <1>4 DEF h

\* Who queues at a locked gate waits at it, and if it owes a wake-up, somebody
\* is about to give it.
LEMMA JoinQueueOK ==
    ASSUME NEW g, NEW L \in Nat, NEW W, NEW n \in Nat, NEW r \in Requests,
           GateOK(g, L, W, n), Locked(g), r \notin W
    PROVE  GateOK(JoinQueue(g, r), L, W \cup {r}, n)
<1> DEFINE h == JoinQueue(g, r)
           w == Append(g.waiters, r)
<1>1. /\ g \in Gate /\ w \in Seq(Requests) /\ Len(w) = Len(g.waiters) + 1
      /\ IsInjective(w) /\ ToSet(w) = W \cup {r}
  BY AppendFacts DEF GateOK, Sound, Gate
<1>2. h = [g EXCEPT !.waiters = w]
  BY DEF JoinQueue
<1> HIDE DEF h, w
<1>4. /\ h \in Gate /\ h.value = g.value /\ h.waiters = w
      /\ h.granted = g.granted /\ h.in_flight = g.in_flight
  BY <1>1, <1>2 DEF Gate
<1>5. GateOK(h, L, W \cup {r}, n)
  BY <1>1, <1>4 DEF GateOK, Sound, Settled, Gate, Locked
<1> QED
  BY <1>5 DEF h

\* The smaller of two numbers.
LEMMA MinOfTwo ==
    ASSUME NEW a \in Nat, NEW b \in Nat
    PROVE  Min({a, b}) = IF a <= b THEN a ELSE b
BY DEF Min

\* Waking as many as are allowed leaves no wake-up owed.
LEMMA WakeAllOK ==
    ASSUME NEW g, NEW L \in Nat, NEW W, NEW n \in Nat, Sound(g, L, W, n)
    PROVE  GateOK(WakeAll(g), L, W, n)
<1> DEFINE k == Min({g.value, Len(g.waiters) - g.granted})
           v == g.value - k
           a == g.granted + k
           h == WakeAll(g)
<1>1. /\ g \in Gate /\ Len(g.waiters) - g.granted \in Nat
      /\ g.value \in Nat /\ g.granted \in Nat /\ Len(g.waiters) \in Nat
  BY DEF Sound, Gate
<1>2. k = IF g.value <= Len(g.waiters) - g.granted
          THEN g.value ELSE Len(g.waiters) - g.granted
  BY <1>1, MinOfTwo
<1>3. h = [g EXCEPT !.value = v, !.granted = a]
  BY DEF WakeAll
<1> HIDE DEF k, h
<1>4. v \in Nat /\ a \in Nat /\ v + a = g.value + g.granted
      /\ a <= Len(g.waiters) /\ (v = 0 \/ a = Len(g.waiters))
  <2> DEFINE x == g.value
             y == Len(g.waiters)
             z == g.granted
  <2>1. /\ x \in Nat /\ y \in Nat /\ z \in Nat /\ y - z \in Nat
        /\ k = IF x <= y - z THEN x ELSE y - z
    BY <1>1, <1>2
  <2> HIDE DEF x, y, z
  <2>2. /\ x - k \in Nat /\ z + k \in Nat /\ (x - k) + (z + k) = x + z
        /\ z + k <= y /\ (x - k = 0 \/ z + k = y)
    BY <2>1
  <2> QED
    BY <2>2 DEF x, y, z
<1> HIDE DEF v, a
<1>5. /\ h \in Gate /\ h.value = v /\ h.waiters = g.waiters
      /\ h.granted = a /\ h.in_flight = g.in_flight
  BY <1>1, <1>3, <1>4 DEF Gate
<1>6. GateOK(h, L, W, n)
  <2>1. /\ g.in_flight \in Int /\ g.in_flight = n
        /\ g.value + g.granted + g.in_flight = L
        /\ IsInjective(g.waiters) /\ ToSet(g.waiters) = W
    BY DEF Sound, Gate
  <2>2. v + a + g.in_flight = L
    BY <1>4, <2>1
  <2>3. Sound(h, L, W, n)
    BY <1>4, <1>5, <2>1, <2>2 DEF Sound
  <2>4. Settled(h)
    BY <1>1, <1>4, <1>5 DEF Settled
  <2> QED
    BY <2>3, <2>4 DEF GateOK
<1> QED
  BY <1>6 DEF h

\* Who leaves the queue takes a grant along exactly when it has been woken.
LEMMA WithoutFacts ==
    ASSUME NEW g, NEW L \in Nat, NEW W, NEW n \in Nat, NEW r \in W,
           Sound(g, L, W, n), NEW h, h = Without(g, r)
    PROVE  /\ h \in Gate /\ h.value = g.value /\ h.in_flight = g.in_flight
           /\ h.granted = IF Woken(g, r) THEN g.granted - 1 ELSE g.granted
           /\ h.granted <= Len(h.waiters)
           /\ IsInjective(h.waiters) /\ ToSet(h.waiters) = W \ {r}
<1> DEFINE i == CHOOSE j \in DOMAIN g.waiters : g.waiters[j] = r
           w == RemoveAt(g.waiters, i)
           a == IF i <= g.granted THEN g.granted - 1 ELSE g.granted
<1>1. /\ g \in Gate /\ g.waiters \in Seq(Requests) /\ g.granted \in Nat
      /\ g.granted <= Len(g.waiters)
      /\ IsInjective(g.waiters) /\ ToSet(g.waiters) = W
  BY DEF Sound, Gate
<1>2. i \in DOMAIN g.waiters /\ g.waiters[i] = r
  BY <1>1 DEF ToSet
<1>3. h = [g EXCEPT !.waiters = w, !.granted = a]
  BY DEF Without
<1> HIDE DEF i
<1>4. i \in 1 .. Len(g.waiters) /\ Len(g.waiters) \in Nat
  BY <1>1, <1>2
<1>5. /\ w \in Seq(Requests) /\ Len(w) = Len(g.waiters) - 1
      /\ IsInjective(w) /\ ToSet(w) = W \ {r}
  BY <1>1, <1>2, <1>4, RemoveAtFacts
<1>6. Woken(g, r) <=> i <= g.granted
  <2>1. \A j \in 1 .. g.granted : j \in DOMAIN g.waiters
    BY <1>1, <1>4
  <2> QED
    BY <1>1, <1>2, <1>4, <2>1 DEF Woken, IsInjective
<1>7. a \in Nat /\ a <= Len(w)
  BY <1>1, <1>4, <1>5
<1> HIDE DEF w
<1>8. a = IF Woken(g, r) THEN g.granted - 1 ELSE g.granted
  BY <1>6
<1> HIDE DEF a
<1>9. /\ h \in Gate /\ h.value = g.value /\ h.waiters = w
      /\ h.granted = a /\ h.in_flight = g.in_flight
  BY <1>1, <1>3, <1>5, <1>7 DEF Gate
<1> QED
  BY <1>5, <1>7, <1>8, <1>9

\* The slot granted to a woken waiter is its own once it runs.
LEMMA EnterWokenOK ==
    ASSUME NEW g, NEW L \in Nat, NEW W, NEW n \in Nat, NEW r \in W,
           GateOK(g, L, W, n), Woken(g, r)
    PROVE  GateOK(EnterWoken(g, r), L, W \ {r}, n + 1)
<1> DEFINE w == Without(g, r)
           f == w.in_flight + 1
           h == [w EXCEPT !.in_flight = f]
<1>1. /\ w \in Gate /\ w.value = g.value /\ w.in_flight = g.in_flight
      /\ w.granted = g.granted - 1 /\ w.granted <= Len(w.waiters)
      /\ IsInjective(w.waiters) /\ ToSet(w.waiters) = W \ {r}
  BY WithoutFacts DEF GateOK
<1>2. EnterWoken(g, r) = WakeAll(h)
  BY DEF EnterWoken
<1> HIDE DEF w
<1>3. f \in Int
  BY <1>1 DEF Gate
<1> HIDE DEF f
<1>4. /\ h \in Gate /\ h.value = w.value /\ h.waiters = w.waiters
      /\ h.granted = w.granted /\ h.in_flight = f
  BY <1>1, <1>3 DEF Gate
<1> HIDE DEF h
<1>5. h.value + h.granted + h.in_flight = L /\ h.in_flight = n + 1
  <2>1. /\ g.value \in Nat /\ g.granted \in Nat /\ g.in_flight \in Int
        /\ g.value + g.granted + g.in_flight = L /\ g.in_flight = n
    BY DEF GateOK, Sound, Gate
  <2> QED
    BY <1>1, <1>4, <2>1 DEF f
<1>6. Sound(h, L, W \ {r}, n + 1)
  BY <1>1, <1>4, <1>5 DEF Sound
<1> QED
  BY <1>2, <1>6, WakeAllOK

\* A waiter that gives up hands a slot granted to it back.
LEMMA GiveUpOK ==
    ASSUME NEW g, NEW L \in Nat, NEW W, NEW n \in Nat, NEW r \in W,
           GateOK(g, L, W, n)
    PROVE  GateOK(GiveUp(g, r), L, W \ {r}, n)
<1> DEFINE w == Without(g, r)
           v == IF Woken(g, r) THEN w.value + 1 ELSE w.value
           h == [w EXCEPT !.value = v]
<1>1. /\ w \in Gate /\ w.value = g.value /\ w.in_flight = g.in_flight
      /\ w.granted = IF Woken(g, r) THEN g.granted - 1 ELSE g.granted
      /\ w.granted <= Len(w.waiters)
      /\ IsInjective(w.waiters) /\ ToSet(w.waiters) = W \ {r}
  BY WithoutFacts DEF GateOK
<1>2. GiveUp(g, r) = WakeAll(h)
  BY DEF GiveUp
<1> HIDE DEF w
<1>3. v \in Nat /\ v + w.granted = g.value + g.granted
  BY <1>1 DEF Gate, GateOK, Sound
<1> HIDE DEF v
<1>4. /\ h \in Gate /\ h.value = v /\ h.waiters = w.waiters
      /\ h.granted = w.granted /\ h.in_flight = w.in_flight
  BY <1>1, <1>3 DEF Gate
<1> HIDE DEF h
<1>5. Sound(h, L, W \ {r}, n)
  BY <1>1, <1>3, <1>4 DEF GateOK, Sound, Gate
<1> QED
  BY <1>2, <1>5, WakeAllOK

\* Who leaves frees its slot or hands it to the first that is not woken.
LEMMA LeaveOK ==
    ASSUME NEW g, NEW L \in Nat, NEW W, NEW n \in Nat \ {0},
           GateOK(g, L, W, n)
    PROVE  GateOK(Leave(g), L, W, n - 1)
<1> DEFINE v == g.value + 1
           f == g.in_flight - 1
           h == [g EXCEPT !.value = v, !.in_flight = f]
<1>1. Leave(g) = WakeNext(h)
  BY DEF Leave
<1>2. g \in Gate /\ v \in Nat /\ f \in Int
  BY DEF GateOK, Sound, Gate
<1> HIDE DEF v, f
<1>3. /\ h \in Gate /\ h.value = v /\ h.waiters = g.waiters
      /\ h.granted = g.granted /\ h.in_flight = f
  BY <1>2 DEF Gate
<1> HIDE DEF h
<1>4. Sound(h, L, W, n - 1)
  BY <1>2, <1>3 DEF GateOK, Sound, Gate, v, f
<1>5. CASE h.granted < Len(h.waiters)
  <2> DEFINE u == h.value - 1
             a == h.granted + 1
             e == [h EXCEPT !.value = u, !.granted = a]
  <2>1. WakeNext(h) = e
    BY <1>5 DEF WakeNext
  <2>2. u \in Nat /\ a \in Nat \ {0} /\ a <= Len(h.waiters)
    BY <1>2, <1>3, <1>5 DEF Gate, v
  <2> HIDE DEF u, a
  <2>3. /\ e \in Gate /\ e.value = u /\ e.waiters = h.waiters
        /\ e.granted = a /\ e.in_flight = h.in_flight
    BY <1>4, <2>2 DEF Gate, Sound
  <2> HIDE DEF e
  <2>4. e.value + e.granted + e.in_flight = L
    <3>1. /\ h.value \in Nat /\ h.granted \in Nat /\ h.in_flight \in Int
          /\ h.value + h.granted + h.in_flight = L
      BY <1>4 DEF Sound, Gate
    <3> QED
      BY <2>3, <3>1 DEF u, a
  <2>5. GateOK(e, L, W, n - 1)
    BY <1>4, <2>2, <2>3, <2>4 DEF GateOK, Sound, Settled
  <2> QED
    BY <1>1, <2>1, <2>5
<1>6. CASE ~(h.granted < Len(h.waiters))
  BY <1>1, <1>4, <1>6 DEF WakeNext, GateOK, Settled
<1> QED
  BY <1>5, <1>6

-----------------------------------------------------------------------------
(* The requests.                                                           *)

\* The first k gates of the path of r, and those who wait at g.
Slots(r, k) == {PathOf[r][i] : i \in 1 .. k}
Waiting(g) == {r \in Requests : pc[r] = "waiting" /\ NextGate(r) = g}

Types ==
    /\ gate \in [Gates -> Gate]
    /\ held \in [Requests -> 0 .. Depth]
    /\ pc \in [Requests -> {"idle", "waiting", "running"}]
    /\ waited \in [Requests -> 0 .. QueueTimeout]
    /\ total \in [Requests -> Nat]

\* Where a request is says how many slots it has.
Shape ==
    \A r \in Requests : /\ pc[r] = "idle" => held[r] = 0 /\ total[r] = 0
                        /\ pc[r] = "waiting" => held[r] < Depth
                        /\ pc[r] = "running" => held[r] = Depth

GatesOK == \A g \in Gates :
              GateOK(gate[g], Limit[g], Waiting(g), Cardinality(Holders(g)))

\* The inductive invariant of the gates.
IInv == Types /\ Shape /\ GatesOK /\ WaitBounded

\* No gate is twice in a path.
LEMMA PathFacts ==
    ASSUME NEW r \in Requests, NEW k \in 0 .. Depth
    PROVE  /\ \A i \in 1 .. Depth : PathOf[r][i] \in Gates
           /\ \A i \in 1 .. Depth : PathOf[r][i] \in Slots(r, k) <=> i <= k
           /\ \A g : g \in Slots(r, k) <=> \E i \in 1 .. k : g = PathOf[r][i]
<1>1. \A i \in 1 .. Depth : PathOf[r][i] \in Gates
  BY GatesAssumption DEF Depth
<1>2. \A g : g \in Slots(r, k) <=> \E i \in 1 .. k : g = PathOf[r][i]
  BY DEF Slots
<1>3. 1 .. k \subseteq 1 .. Depth
  BY DEF Depth
<1>4. \A i, j \in 1 .. Depth : PathOf[r][i] = PathOf[r][j] => i = j
  BY GatesAssumption
<1>5. \A i \in 1 .. Depth : i \in 1 .. k <=> i <= k
  BY DEF Depth
<1>6. ASSUME NEW i \in 1 .. Depth
      PROVE  PathOf[r][i] \in Slots(r, k) <=> i <= k
  <2>1. CASE i <= k
    BY <1>2, <1>5, <2>1
  <2>2. ASSUME PathOf[r][i] \in Slots(r, k) PROVE i <= k
    <3>1. PICK j \in 1 .. k : PathOf[r][i] = PathOf[r][j]
      BY <1>2, <2>2
    <3>2. j \in 1 .. Depth
      BY <1>3
    <3> QED
      BY <1>4, <1>5, <3>1, <3>2
  <2> QED
    BY <2>1, <2>2
<1> QED
  BY <1>1, <1>2, <1>6

\* With and without r among the holders of g.
LEMMA HolderCount ==
    ASSUME NEW r \in Requests, NEW H, H \subseteq Requests
    PROVE  /\ Cardinality(H \ {r}) \in Nat /\ Cardinality(H) \in Nat
           /\ r \notin H => H \ {r} = H
           /\ r \in H => Cardinality(H) = Cardinality(H \ {r}) + 1
           /\ Cardinality((H \ {r}) \cup {r}) = Cardinality(H \ {r}) + 1
<1>1. IsFiniteSet(H) /\ IsFiniteSet(H \ {r})
  BY GatesAssumption, FS_Subset
<1>2. Cardinality(H \ {r}) \in Nat /\ Cardinality(H) \in Nat
  BY <1>1, FS_CardinalityType
<1>3. Cardinality((H \ {r}) \cup {r}) = Cardinality(H \ {r}) + 1
  BY <1>1, FS_AddElement
<1>4. r \in H => (H \ {r}) \cup {r} = H
  OBVIOUS
<1> QED
  BY <1>2, <1>3, <1>4

\* The request r goes to p with k slots: whom the gates then hold and have
\* waiting.
LEMMA MoveFacts ==
    ASSUME Types, NEW r \in Requests, NEW k \in 0 .. Depth, NEW p,
           held' = [held EXCEPT ![r] = k], pc' = [pc EXCEPT ![r] = p]
    PROVE  \A g : /\ Holders(g)' = (Holders(g) \ {r}) \cup
                                   (IF g \in Slots(r, k) THEN {r} ELSE {})
                  /\ Waiting(g)' = (Waiting(g) \ {r}) \cup
                                   (IF p = "waiting" /\ g = PathOf[r][k + 1]
                                    THEN {r} ELSE {})
BY DEF Types, Holders, Held, Slots, Waiting, NextGate

\* What Proceed does to gates that are sound for a request r that has k slots.
LEMMA ProceedOK ==
    ASSUME Types, Shape, NEW r \in Requests, NEW k \in 0 .. Depth,
           NEW gates \in [Gates -> Gate], Proceed(r, k, gates),
           \A g \in Gates :
             GateOK(gates[g], Limit[g], Waiting(g) \ {r},
                    Cardinality(Holders(g) \ {r})
                      + (IF g \in Slots(r, k) THEN 1 ELSE 0))
    PROVE  /\ GatesOK'
           /\ \E n \in k .. Depth :
                /\ held' = [held EXCEPT ![r] = n]
                /\ \/ n < Depth /\ pc' = [pc EXCEPT ![r] = "waiting"]
                   \/ n = Depth /\ pc' = [pc EXCEPT ![r] = "running"]
           /\ gate' \in [Gates -> Gate]
           /\ waited' = [waited EXCEPT ![r] = 0]
<1> DEFINE S == {i \in k + 1 .. Depth : Locked(gates[PathOf[r][i]])}
                \cup {Depth + 1}
           stop == Min(S)
<1>1. /\ stop \in k + 1 .. Depth + 1
      /\ \A i \in k + 1 .. stop - 1 : ~Locked(gates[PathOf[r][i]])
      /\ stop <= Depth => Locked(gates[PathOf[r][stop]])
  <2>1. \E x \in S : \A y \in S : x <= y
    <3>1. S \subseteq 1 .. 5 /\ 5 \in S
      <4>1. k + 1 .. Depth \subseteq 1 .. 5 /\ Depth + 1 = 5
        BY DEF Depth
      <4> QED
        BY <4>1
    <3> HIDE DEF S
    <3>2. CASE 1 \in S  BY <3>1, <3>2
    <3>3. CASE 1 \notin S /\ 2 \in S  BY <3>1, <3>3
    <3>4. CASE 1 \notin S /\ 2 \notin S /\ 3 \in S  BY <3>1, <3>4
    <3>5. CASE 1 \notin S /\ 2 \notin S /\ 3 \notin S /\ 4 \in S
      BY <3>1, <3>5
    <3>6. CASE 1 \notin S /\ 2 \notin S /\ 3 \notin S /\ 4 \notin S
      BY <3>1, <3>6
    <3> QED
      BY <3>2, <3>3, <3>4, <3>5, <3>6
  <2>2. stop \in S /\ \A y \in S : stop <= y
    BY <2>1 DEF Min
  <2> HIDE DEF stop
  <2> QED
    BY <2>2 DEF Depth
<1>2. /\ gate' = [g \in Gates |->
                    IF \E i \in k + 1 .. stop - 1 : g = PathOf[r][i]
                    THEN TakeSlot(gates[g])
                    ELSE IF stop <= Depth /\ g = PathOf[r][stop]
                         THEN JoinQueue(gates[g], r)
                         ELSE gates[g]]
      /\ held' = [held EXCEPT ![r] = stop - 1]
      /\ pc' = [pc EXCEPT ![r] = IF stop <= Depth THEN "waiting"
                                                  ELSE "running"]
      /\ waited' = [waited EXCEPT ![r] = 0]
  BY DEF Proceed
<1> HIDE DEF stop, S
<1> DEFINE n == stop - 1
           p == IF stop <= Depth THEN "waiting" ELSE "running"
<1>3. n \in k .. Depth /\ n \in 0 .. Depth /\ n + 1 = stop
      /\ (n < Depth <=> stop <= Depth)
  BY <1>1 DEF Depth
<1>a. pc' = [pc EXCEPT ![r] = p] /\ held' = [held EXCEPT ![r] = n]
      /\ (p = "waiting" <=> stop <= Depth)
  BY <1>2
<1> HIDE DEF n, p
<1>4. \A g : /\ Holders(g)' = (Holders(g) \ {r}) \cup
                              (IF g \in Slots(r, n) THEN {r} ELSE {})
             /\ Waiting(g)' = (Waiting(g) \ {r}) \cup
                              (IF p = "waiting" /\ g = PathOf[r][n + 1]
                               THEN {r} ELSE {})
  BY <1>3, <1>a, MoveFacts
<1>5. ASSUME NEW g \in Gates
      PROVE  GateOK(gate'[g], Limit[g], Waiting(g)', Cardinality(Holders(g)'))
  <2> DEFINE c == Cardinality(Holders(g) \ {r})
             u == c + (IF g \in Slots(r, k) THEN 1 ELSE 0)
  <2>a. GateOK(gates[g], Limit[g], Waiting(g) \ {r}, u)
    OBVIOUS
  <2>1. /\ c \in Nat /\ Limit[g] \in Nat
        /\ Cardinality((Holders(g) \ {r}) \cup {r}) = c + 1
    <3>1. Holders(g) \subseteq Requests
      BY DEF Holders
    <3> QED
      BY <3>1, HolderCount, GatesAssumption
  <2>b. u = IF g \in Slots(r, k) THEN c + 1 ELSE c
    BY <2>1
  <2> HIDE DEF u
  <2>2. CASE \E i \in k + 1 .. stop - 1 : g = PathOf[r][i]
    <3>1. PICK i \in k + 1 .. stop - 1 : g = PathOf[r][i]
      BY <2>2
    <3>2. /\ i \in 1 .. Depth /\ ~(i <= k) /\ i <= n
          /\ n + 1 \in 1 .. Depth => i # n + 1
      BY <1>1, <1>3 DEF Depth
    <3>3. g \notin Slots(r, k) /\ g \in Slots(r, n)
      BY <1>3, <3>1, <3>2, PathFacts
    <3>4. ~(p = "waiting" /\ g = PathOf[r][n + 1])
      <4>1. p = "waiting" => n + 1 \in 1 .. Depth
        BY <1>1, <1>3, <1>a DEF Depth
      <4> QED
        BY <4>1, <3>1, <3>2, GatesAssumption
    <3>5. Waiting(g)' = Waiting(g) \ {r}
          /\ Cardinality(Holders(g)') = c + 1
      <4>1. /\ Waiting(g)' = Waiting(g) \ {r}
            /\ Holders(g)' = (Holders(g) \ {r}) \cup {r}
        BY <1>4, <3>3, <3>4
      <4> QED
        BY <2>1, <4>1
    <3>6. gate'[g] = TakeSlot(gates[g]) /\ ~Locked(gates[g])
      BY <1>1, <1>2, <3>1
    <3>7. GateOK(gates[g], Limit[g], Waiting(g) \ {r}, c)
      BY <3>3, <2>a, <2>b
    <3> QED
      BY <2>1, <3>5, <3>6, <3>7, TakeSlotOK
  <2>3. CASE stop <= Depth /\ g = PathOf[r][stop]
    <3>1. stop \in 1 .. Depth /\ ~(stop <= k) /\ ~(stop <= n)
      BY <1>1, <1>3, <2>3 DEF Depth
    <3>2. g \notin Slots(r, k) /\ g \notin Slots(r, n)
      BY <1>3, <2>3, <3>1, PathFacts
    <3>3. ~\E i \in k + 1 .. stop - 1 : g = PathOf[r][i]
      <4> SUFFICES ASSUME NEW i \in k + 1 .. stop - 1, g = PathOf[r][i]
                   PROVE  FALSE
        OBVIOUS
      <4>1. i \in 1 .. Depth /\ i # stop
        BY <1>1 DEF Depth
      <4> QED
        BY <4>1, <2>3, <3>1, GatesAssumption
    <3>4. Waiting(g)' = (Waiting(g) \ {r}) \cup {r}
          /\ Cardinality(Holders(g)') = c
      <4>1. p = "waiting" /\ g = PathOf[r][n + 1]
        BY <1>3, <1>a, <2>3
      <4>2. /\ Waiting(g)' = (Waiting(g) \ {r}) \cup {r}
            /\ Holders(g)' = Holders(g) \ {r}
        BY <1>4, <3>2, <4>1
      <4> QED
        BY <4>2
    <3>5. gate'[g] = JoinQueue(gates[g], r) /\ Locked(gates[g])
      BY <1>1, <1>2, <2>3, <3>3
    <3>6. GateOK(gates[g], Limit[g], Waiting(g) \ {r}, c)
      BY <3>2, <2>a, <2>b
    <3> QED
      BY <2>1, <3>4, <3>5, <3>6, JoinQueueOK
  <2>4. CASE /\ ~\E i \in k + 1 .. stop - 1 : g = PathOf[r][i]
             /\ ~(stop <= Depth /\ g = PathOf[r][stop])
    <3>1. g \in Slots(r, n) <=> g \in Slots(r, k)
      <4>1. \A i \in 1 .. n : i \in 1 .. k \/ i \in k + 1 .. stop - 1
        BY <1>3
      <4>2. 1 .. k \subseteq 1 .. n
        BY <1>3
      <4> QED
        BY <4>1, <4>2, <2>4, <1>3, PathFacts
    <3>2. gate'[g] = gates[g] /\ Waiting(g)' = Waiting(g) \ {r}
      BY <1>2, <1>3, <1>a, <1>4, <2>4
    <3>3. Cardinality(Holders(g)') = u
      <4>1. CASE g \in Slots(r, k)
        BY <4>1, <1>4, <2>1, <2>b, <3>1
      <4>2. CASE g \notin Slots(r, k)
        <5>1. Holders(g)' = Holders(g) \ {r}
          BY <4>2, <1>4, <3>1
        <5> QED
          BY <4>2, <5>1, <2>b
      <4> QED
        BY <4>1, <4>2
    <3> QED
      BY <2>a, <3>2, <3>3
  <2> QED
    BY <2>2, <2>3, <2>4
<1>6. GatesOK'
  BY <1>5 DEF GatesOK
<1>7. gate' \in [Gates -> Gate]
  <2>1. \A g \in Gates : gate'[g] \in Gate
    BY <1>5 DEF GateOK, Sound
  <2> QED
    BY <1>2, <2>1
<1>8. \/ n < Depth /\ pc' = [pc EXCEPT ![r] = "waiting"]
      \/ n = Depth /\ pc' = [pc EXCEPT ![r] = "running"]
  <2>1. CASE stop <= Depth
    BY <1>2, <1>3, <2>1
  <2>2. CASE ~(stop <= Depth)
    BY <1>1, <1>2, <1>3, <2>2 DEF Depth
  <2> QED
    BY <2>1, <2>2
<1> QED
  BY <1>2, <1>3, <1>a, <1>6, <1>7, <1>8

\* More gates, more timeouts.
LEMMA Timeouts ==
    ASSUME NEW a \in 0 .. Depth, NEW b \in a .. Depth
    PROVE  /\ a * QueueTimeout \in Nat /\ b * QueueTimeout \in Nat
           /\ a * QueueTimeout <= b * QueueTimeout
           /\ (a + 1) * QueueTimeout = a * QueueTimeout + QueueTimeout
BY GatesAssumption, a \in {0, 1, 2, 3, 4}, b \in {0, 1, 2, 3, 4} DEF Depth

\* A request that queues or runs, with n slots and no time waited at the next
\* gate, is in good order.
LEMMA ProceedKeeps ==
    ASSUME IInv, NEW r \in Requests, NEW n \in 0 .. Depth,
           held' = [held EXCEPT ![r] = n],
           \/ n < Depth /\ pc' = [pc EXCEPT ![r] = "waiting"]
           \/ n = Depth /\ pc' = [pc EXCEPT ![r] = "running"],
           waited' = [waited EXCEPT ![r] = 0], UNCHANGED total,
           total[r] <= n * QueueTimeout,
           gate' \in [Gates -> Gate], GatesOK'
    PROVE  IInv'
<1>1. Types'
  <2>1. held' \in [Requests -> 0 .. Depth]
    BY DEF IInv, Types
  <2>2. pc' \in [Requests -> {"idle", "waiting", "running"}]
    BY DEF IInv, Types
  <2>3. waited' \in [Requests -> 0 .. QueueTimeout]
    BY GatesAssumption DEF IInv, Types
  <2> QED
    BY <2>1, <2>2, <2>3 DEF IInv, Types
<1>2. Shape'
  BY DEF IInv, Types, Shape, Depth
<1>3. WaitBounded'
  <2> SUFFICES ASSUME NEW q \in Requests
               PROVE  /\ pc'[q] = "waiting"
                           => total'[q] <= held'[q] * QueueTimeout + waited'[q]
                      /\ total'[q] <= Depth * QueueTimeout
    BY DEF WaitBounded
  <2>1. CASE q # r
    BY <2>1 DEF IInv, Types, WaitBounded
  <2>2. CASE q = r
    <3>1. held'[q] = n /\ waited'[q] = 0 /\ total'[q] = total[r]
      BY <2>2 DEF IInv, Types
    <3>2. n * QueueTimeout \in Nat /\ n * QueueTimeout <= Depth * QueueTimeout
          /\ Depth * QueueTimeout \in Nat
      BY Timeouts, Depth \in n .. Depth DEF Depth
    <3>3. total[r] \in Nat
      BY DEF IInv, Types
    <3> QED
      BY <3>1, <3>2, <3>3
  <2> QED
    BY <2>1, <2>2
<1> QED
  BY <1>1, <1>2, <1>3 DEF IInv

\* Where r is not, it leaves no trace.
LEMMA NotThere ==
    ASSUME Types, Shape, NEW r \in Requests, NEW g
    PROVE  /\ r \in Holders(g) <=> g \in Slots(r, held[r])
           /\ r \in Waiting(g) <=> pc[r] = "waiting" /\ g = NextGate(r)
           /\ Holders(g) \subseteq Requests
BY DEF Holders, Held, Slots, Waiting

\* Entering keeps the invariant.
LEMMA EnterKeeps == ASSUME IInv, NEW r \in Requests, Enter(r) PROVE IInv'
<1>1. /\ held[r] = 0 /\ pc[r] = "idle" /\ total[r] = 0
      /\ Types /\ Shape /\ GatesOK /\ gate \in [Gates -> Gate]
  BY DEF IInv, Types, Shape, Enter
<1>2. ASSUME NEW g \in Gates
      PROVE  GateOK(gate[g], Limit[g], Waiting(g) \ {r},
                    Cardinality(Holders(g) \ {r})
                      + (IF g \in Slots(r, 0) THEN 1 ELSE 0))
  <2>1. g \notin Slots(r, 0)
    BY DEF Slots
  <2>2. r \notin Holders(g) /\ r \notin Waiting(g) /\ Holders(g) \subseteq Requests
    BY <1>1, <2>1, NotThere
  <2>3. Waiting(g) \ {r} = Waiting(g) /\ Holders(g) \ {r} = Holders(g)
    BY <2>2
  <2>a. Cardinality(Holders(g)) \in Nat
    BY <2>2, HolderCount
  <2>4. Cardinality(Holders(g) \ {r}) + (IF g \in Slots(r, 0) THEN 1 ELSE 0)
          = Cardinality(Holders(g))
    BY <2>1, <2>3, <2>a
  <2> QED
    BY <1>1, <2>3, <2>4 DEF GatesOK
<1>3. 0 \in 0 .. Depth /\ Proceed(r, 0, gate) /\ UNCHANGED total
  BY DEF Enter, Depth
<1>4. PICK n \in 0 .. Depth :
        /\ held' = [held EXCEPT ![r] = n]
        /\ \/ n < Depth /\ pc' = [pc EXCEPT ![r] = "waiting"]
           \/ n = Depth /\ pc' = [pc EXCEPT ![r] = "running"]
        /\ GatesOK' /\ gate' \in [Gates -> Gate]
        /\ waited' = [waited EXCEPT ![r] = 0]
  BY <1>1, <1>2, <1>3, ProceedOK
<1>5. total[r] <= n * QueueTimeout
  BY <1>1, Timeouts, n \in n .. Depth DEF Depth
<1> QED
  BY <1>3, <1>4, <1>5, ProceedKeeps

\* Resuming keeps the invariant.
LEMMA ResumeKeeps == ASSUME IInv, NEW r \in Requests, Resume(r) PROVE IInv'
<1> DEFINE k == held[r] + 1
           G == NextGate(r)
           gates == [gate EXCEPT ![G] = EnterWoken(gate[G], r)]
<1>1. /\ pc[r] = "waiting" /\ held[r] \in 0 .. Depth - 1 /\ Woken(gate[G], r)
      /\ Proceed(r, k, gates) /\ UNCHANGED total
      /\ Types /\ Shape /\ GatesOK /\ gate \in [Gates -> Gate]
  <2>1. Proceed(r, k, gates)
    BY Zenon DEF Resume
  <2> HIDE DEF gates
  <2> QED
    BY <2>1 DEF IInv, Types, Shape, Resume, Depth
<1>2. /\ k \in 0 .. Depth /\ k \in 1 .. Depth /\ held[r] \in 0 .. Depth
      /\ ~(k <= held[r]) /\ k <= k
  BY <1>1 DEF Depth
<1>3. G = PathOf[r][k] /\ G \in Gates
  BY <1>2, PathFacts DEF NextGate
<1>4. G \notin Slots(r, held[r]) /\ G \in Slots(r, k)
  BY <1>2, <1>3, PathFacts
<1>5. \A g : g # G => (g \in Slots(r, k) <=> g \in Slots(r, held[r]))
  <2>1. \A i \in 1 .. k : i \in 1 .. held[r] \/ i = k
    BY <1>2 DEF Depth
  <2>2. 1 .. held[r] \subseteq 1 .. k
    BY <1>2 DEF Depth
  <2> QED
    BY <2>1, <2>2, <1>2, <1>3, PathFacts
<1> HIDE DEF k, G
<1>6. ASSUME NEW g \in Gates
      PROVE  /\ GateOK(gates[g], Limit[g], Waiting(g) \ {r},
                       Cardinality(Holders(g) \ {r})
                         + (IF g \in Slots(r, k) THEN 1 ELSE 0))
             /\ gates[g] \in Gate
  <2> DEFINE c == Cardinality(Holders(g) \ {r})
             u == c + (IF g \in Slots(r, k) THEN 1 ELSE 0)
  <2>1. /\ r \in Holders(g) <=> g \in Slots(r, held[r])
        /\ r \in Waiting(g) <=> g = G
        /\ Holders(g) \subseteq Requests
    BY <1>1, NotThere DEF G
  <2>2. /\ c \in Nat /\ Cardinality(Holders(g)) \in Nat
        /\ r \in Holders(g) => Cardinality(Holders(g)) = c + 1
        /\ r \notin Holders(g) => Cardinality(Holders(g)) = c
    BY <2>1, HolderCount
  <2>3. u = IF g \in Slots(r, k) THEN c + 1 ELSE c
    BY <2>2
  <2> HIDE DEF u, c
  <2>4. /\ GateOK(gate[g], Limit[g], Waiting(g), Cardinality(Holders(g)))
        /\ Limit[g] \in Nat
    BY <1>1, GatesAssumption DEF GatesOK
  <2>5. GateOK(gates[g], Limit[g], Waiting(g) \ {r}, u)
    <3>1. CASE g = G
      <4>1. u = c + 1 /\ r \in Waiting(g) /\ Cardinality(Holders(g)) = c
        BY <1>4, <2>1, <2>2, <2>3, <3>1
      <4>2. gates[g] = EnterWoken(gate[g], r) /\ Woken(gate[g], r)
        BY <1>1, <3>1
      <4> QED
        BY <2>2, <2>4, <4>1, <4>2, EnterWokenOK
    <3>2. CASE g # G
      <4>1. u = Cardinality(Holders(g))
        BY <1>5, <2>1, <2>2, <2>3, <3>2
      <4>2. Waiting(g) \ {r} = Waiting(g) /\ gates[g] = gate[g]
        BY <1>1, <2>1, <3>2
      <4> QED
        BY <2>4, <4>1, <4>2
    <3> QED
      BY <3>1, <3>2
  <2> QED
    BY <2>5 DEF u, c, GateOK, Sound
<1>7. gates \in [Gates -> Gate]
  BY <1>1, <1>6
<1> HIDE DEF gates
<1>8. PICK n \in k .. Depth :
        /\ held' = [held EXCEPT ![r] = n]
        /\ \/ n < Depth /\ pc' = [pc EXCEPT ![r] = "waiting"]
           \/ n = Depth /\ pc' = [pc EXCEPT ![r] = "running"]
        /\ GatesOK' /\ gate' \in [Gates -> Gate]
        /\ waited' = [waited EXCEPT ![r] = 0]
  BY <1>1, <1>2, <1>6, <1>7, ProceedOK
<1>9. total[r] <= n * QueueTimeout
  <2>1. total[r] <= held[r] * QueueTimeout + waited[r]
    BY <1>1 DEF IInv, WaitBounded
  <2>2. waited[r] \in 0 .. QueueTimeout /\ total[r] \in Nat /\ QueueTimeout \in Nat
    BY <1>1, GatesAssumption DEF Types
  <2>3. /\ held[r] * QueueTimeout \in Nat
        /\ (held[r] + 1) * QueueTimeout = held[r] * QueueTimeout + QueueTimeout
    BY <1>2, Timeouts, held[r] \in held[r] .. Depth DEF Depth
  <2>4. k * QueueTimeout <= n * QueueTimeout /\ n * QueueTimeout \in Nat
    BY <1>2, Timeouts
  <2> QED
    BY <2>1, <2>2, <2>3, <2>4 DEF k
<1>10. n \in 0 .. Depth
  BY <1>2 DEF Depth
<1> QED
  BY <1>1, <1>8, <1>9, <1>10, ProceedKeeps

\* The request r goes: it holds nothing and waits nowhere.
LEMMA GoneFacts ==
    ASSUME Types, NEW r \in Requests,
           held' = [held EXCEPT ![r] = 0], pc' = [pc EXCEPT ![r] = "idle"]
    PROVE  \A g : /\ Holders(g)' = Holders(g) \ {r}
                  /\ Waiting(g)' = Waiting(g) \ {r}
BY DEF Types, Holders, Held, Waiting, NextGate

\* A request that leaves the gates, with what it held given back, is idle.
LEMMA LeavingKeeps ==
    ASSUME IInv, NEW r \in Requests,
           held' = [held EXCEPT ![r] = 0], pc' = [pc EXCEPT ![r] = "idle"],
           waited' = [waited EXCEPT ![r] = 0] \/ UNCHANGED waited,
           total' = [total EXCEPT ![r] = 0],
           \A g \in Gates :
             \/ g \in Slots(r, held[r]) /\ gate'[g] = Leave(gate[g])
             \/ /\ r \in Waiting(g) /\ g \notin Slots(r, held[r])
                /\ gate'[g] = GiveUp(gate[g], r)
             \/ /\ r \notin Waiting(g) /\ g \notin Slots(r, held[r])
                /\ gate'[g] = gate[g],
           gate' = [g \in Gates |-> gate'[g]]
    PROVE  IInv'
<1> USE DEF IInv
<1>1. 0 \in 0 .. Depth /\ held[r] \in 0 .. Depth
  BY DEF Types, Depth
<1>2. ASSUME NEW g \in Gates
      PROVE  GateOK(gate'[g], Limit[g], Waiting(g)', Cardinality(Holders(g)'))
  <2> DEFINE c == Cardinality(Holders(g) \ {r})
  <2>1. /\ r \in Holders(g) <=> g \in Slots(r, held[r])
        /\ Holders(g) \subseteq Requests
    BY NotThere
  <2>2. Holders(g)' = Holders(g) \ {r} /\ Waiting(g)' = Waiting(g) \ {r}
    BY GoneFacts
  <2>3. /\ c \in Nat /\ Cardinality(Holders(g)) \in Nat
        /\ r \in Holders(g) => Cardinality(Holders(g)) = c + 1
        /\ r \notin Holders(g) => Cardinality(Holders(g)) = c
    BY <2>1, HolderCount
  <2>4. /\ GateOK(gate[g], Limit[g], Waiting(g), Cardinality(Holders(g)))
        /\ Limit[g] \in Nat
    BY GatesAssumption DEF GatesOK
  <2> HIDE DEF c
  <2>5. Cardinality(Holders(g)') = c
    BY <2>2 DEF c
  <2>6. CASE g \in Slots(r, held[r]) /\ gate'[g] = Leave(gate[g])
    <3>1. /\ Cardinality(Holders(g)) \in Nat \ {0}
          /\ Cardinality(Holders(g)) - 1 = c
      BY <2>1, <2>3, <2>6
    <3>2. r \notin Waiting(g)
      <4>1. held[r] < Depth => held[r] + 1 \in 1 .. Depth /\ ~(held[r] + 1 <= held[r])
        BY <1>1 DEF Depth
      <4> QED
        BY <1>1, <4>1, <2>6, PathFacts DEF Waiting, NextGate, Shape
    <3>3. Waiting(g)' = Waiting(g)
      BY <2>2, <3>2
    <3> QED
      BY <2>4, <2>5, <2>6, <3>1, <3>3, LeaveOK
  <2>7. CASE /\ r \in Waiting(g) /\ g \notin Slots(r, held[r])
             /\ gate'[g] = GiveUp(gate[g], r)
    <3>1. Cardinality(Holders(g)) = c
      BY <2>1, <2>3, <2>7
    <3> QED
      BY <2>2, <2>3, <2>4, <2>5, <2>7, <3>1, GiveUpOK
  <2>8. CASE /\ r \notin Waiting(g) /\ g \notin Slots(r, held[r])
             /\ gate'[g] = gate[g]
    <3>1. Cardinality(Holders(g)) = c /\ Waiting(g)' = Waiting(g)
      BY <2>1, <2>2, <2>3, <2>8
    <3> QED
      BY <2>4, <2>5, <2>8, <3>1
  <2> QED
    BY <2>6, <2>7, <2>8
<1>3. GatesOK'
  BY <1>2 DEF GatesOK
<1>4. Types'
  <2>1. \A g \in Gates : gate'[g] \in Gate
    BY <1>2 DEF GateOK, Sound
  <2>2. gate' \in [Gates -> Gate]
    BY <2>1
  <2>3. waited' \in [Requests -> 0 .. QueueTimeout]
    <3>1. waited \in [Requests -> 0 .. QueueTimeout] /\ 0 \in 0 .. QueueTimeout
      BY GatesAssumption DEF Types
    <3> QED
      BY <3>1
  <2>4. held' \in [Requests -> 0 .. Depth] /\ total' \in [Requests -> Nat]
    BY <1>1 DEF Types
  <2>5. pc' \in [Requests -> {"idle", "waiting", "running"}]
    BY DEF Types
  <2> QED
    BY <2>2, <2>3, <2>4, <2>5 DEF Types
<1>5. Shape'
  BY DEF Types, Shape
<1>6. WaitBounded'
  <2> SUFFICES ASSUME NEW q \in Requests
               PROVE  /\ pc'[q] = "waiting"
                           => total'[q] <= held'[q] * QueueTimeout + waited'[q]
                      /\ total'[q] <= Depth * QueueTimeout
    BY DEF WaitBounded
  <2>1. CASE q # r
    BY <2>1 DEF Types, WaitBounded
  <2>2. CASE q = r
    <3>1. pc'[q] = "idle" /\ total'[q] = 0
      BY <2>2 DEF Types
    <3> QED
      BY <3>1, Timeouts, 0 \in 0 .. Depth, Depth \in 0 .. Depth DEF Depth
  <2> QED
    BY <2>1, <2>2
<1> QED
  BY <1>3, <1>4, <1>5, <1>6

\* A rejected request leaves nothing behind.
LEMMA RejectKeeps == ASSUME IInv, NEW r \in Requests, Reject(r) PROVE IInv'
<1>1. /\ pc[r] = "waiting" /\ held[r] \in 0 .. Depth - 1
      /\ Held(r) = Slots(r, held[r])
  BY DEF IInv, Types, Shape, Reject, Depth, Held, Slots
<1>2. NextGate(r) \notin Slots(r, held[r])
  <2>1. /\ held[r] \in 0 .. Depth /\ held[r] + 1 \in 1 .. Depth
        /\ ~(held[r] + 1 <= held[r])
    BY <1>1 DEF Depth
  <2> QED
    BY <2>1, PathFacts DEF NextGate
<1>3. \A g : r \in Waiting(g) <=> g = NextGate(r)
  BY <1>1 DEF Waiting
<1>4. ASSUME NEW g \in Gates
      PROVE  \/ g \in Slots(r, held[r]) /\ gate'[g] = Leave(gate[g])
             \/ /\ r \in Waiting(g) /\ g \notin Slots(r, held[r])
                /\ gate'[g] = GiveUp(gate[g], r)
             \/ /\ r \notin Waiting(g) /\ g \notin Slots(r, held[r])
                /\ gate'[g] = gate[g]
  BY <1>1, <1>2, <1>3 DEF Reject
<1>5. gate' = [g \in Gates |-> gate'[g]]
  BY DEF Reject
<1> QED
  BY <1>4, <1>5, LeavingKeeps DEF Reject

\* A request that is done leaves nothing behind.
LEMMA FinishKeeps == ASSUME IInv, NEW r \in Requests, Finish(r) PROVE IInv'
<1>1. Held(r) = Slots(r, held[r]) /\ \A g : r \notin Waiting(g)
  BY DEF Held, Slots, Finish, Waiting
<1>2. ASSUME NEW g \in Gates
      PROVE  \/ g \in Slots(r, held[r]) /\ gate'[g] = Leave(gate[g])
             \/ /\ r \in Waiting(g) /\ g \notin Slots(r, held[r])
                /\ gate'[g] = GiveUp(gate[g], r)
             \/ /\ r \notin Waiting(g) /\ g \notin Slots(r, held[r])
                /\ gate'[g] = gate[g]
  BY <1>1 DEF Finish
<1>3. gate' = [g \in Gates |-> gate'[g]]
  BY DEF Finish
<1> QED
  BY <1>2, <1>3, LeavingKeeps DEF Finish

\* Time passes for those who wait.
LEMMA TickKeeps == ASSUME IInv, Tick PROVE IInv'
<1>1. Types /\ Shape /\ GatesOK /\ WaitBounded /\ UNCHANGED <<gate, held, pc>>
  BY DEF IInv, Tick
<1>2. ASSUME NEW r \in Requests
      PROVE  /\ pc[r] = "waiting" => /\ waited[r] < QueueTimeout
                                     /\ waited'[r] = waited[r] + 1
                                     /\ total'[r] = total[r] + 1
             /\ pc[r] # "waiting" => /\ waited'[r] = waited[r]
                                     /\ total'[r] = total[r]
  BY DEF Tick
<1>3. Types'
  <2>1. ASSUME NEW r \in Requests
        PROVE  waited'[r] \in 0 .. QueueTimeout /\ total'[r] \in Nat
    <3>1. /\ waited[r] \in 0 .. QueueTimeout /\ total[r] \in Nat
          /\ QueueTimeout \in Nat
      BY <1>1, GatesAssumption DEF Types
    <3>2. CASE pc[r] = "waiting"
      BY <1>2, <3>1, <3>2
    <3>3. CASE pc[r] # "waiting"
      BY <1>2, <3>1, <3>3
    <3> QED
      BY <3>2, <3>3
  <2>2. /\ waited' = [r \in Requests |-> waited'[r]]
        /\ total' = [r \in Requests |-> total'[r]]
    BY DEF Tick
  <2>3. /\ waited' \in [Requests -> 0 .. QueueTimeout]
        /\ total' \in [Requests -> Nat]
    BY <2>1, <2>2
  <2> QED
    BY <1>1, <2>3 DEF Types
<1>4. Shape'
  BY <1>1, <1>2 DEF Shape
<1>5. GatesOK'
  <2>1. \A g : Holders(g)' = Holders(g) /\ Waiting(g)' = Waiting(g)
    BY <1>1 DEF Holders, Held, Waiting, NextGate
  <2> QED
    BY <1>1, <2>1 DEF GatesOK
<1>6. WaitBounded'
  <2> SUFFICES ASSUME NEW r \in Requests
               PROVE  /\ pc'[r] = "waiting"
                           => total'[r] <= held'[r] * QueueTimeout + waited'[r]
                      /\ total'[r] <= Depth * QueueTimeout
    BY DEF WaitBounded
  <2>1. /\ waited[r] \in 0 .. QueueTimeout /\ total[r] \in Nat
        /\ QueueTimeout \in Nat /\ held[r] \in 0 .. Depth
    BY <1>1, GatesAssumption DEF Types
  <2>2. CASE pc[r] # "waiting"
    BY <1>1, <1>2, <2>2 DEF WaitBounded
  <2>3. CASE pc[r] = "waiting"
    <3>1. held[r] \in 0 .. Depth - 1 /\ held[r] + 1 \in 0 .. Depth
      BY <1>1, <2>1, <2>3 DEF Shape, Depth
    <3>2. /\ held[r] * QueueTimeout \in Nat
          /\ (held[r] + 1) * QueueTimeout = held[r] * QueueTimeout + QueueTimeout
      BY <2>1, Timeouts, held[r] \in held[r] .. Depth DEF Depth
    <3>3. (held[r] + 1) * QueueTimeout <= Depth * QueueTimeout
          /\ Depth * QueueTimeout \in Nat
      BY <3>1, Timeouts, Depth \in held[r] + 1 .. Depth DEF Depth
    <3>4. total[r] <= held[r] * QueueTimeout + waited[r]
      BY <1>1, <2>3 DEF WaitBounded
    <3>5. /\ waited[r] < QueueTimeout /\ waited'[r] = waited[r] + 1
          /\ total'[r] = total[r] + 1 /\ held'[r] = held[r]
      BY <1>1, <1>2, <2>3
    <3> QED
      BY <2>1, <3>2, <3>3, <3>4, <3>5
  <2> QED
    BY <2>2, <2>3
<1> QED
  BY <1>3, <1>4, <1>5, <1>6 DEF IInv

\* At first every slot is free and nobody is there.
LEMMA InitInv == Init => IInv
<1> SUFFICES ASSUME Init PROVE IInv
  OBVIOUS
<1>1. Types
  <2>1. \A g \in Gates : NewGate(Limit[g]) \in Gate
    BY GatesAssumption DEF NewGate, Gate
  <2> QED
    BY <2>1, GatesAssumption DEF Init, Types, Depth
<1>2. Shape
  BY DEF Init, Shape
<1>3. ASSUME NEW g \in Gates
      PROVE  GateOK(gate[g], Limit[g], Waiting(g), Cardinality(Holders(g)))
  <2>1. Waiting(g) = {} /\ Holders(g) = {}
    BY DEF Init, Waiting, Holders, Held
  <2>2. Cardinality(Holders(g)) = 0
    BY <2>1, FS_EmptySet
  <2>3. Limit[g] \in Nat /\ gate[g] = NewGate(Limit[g])
    BY GatesAssumption DEF Init
  <2>4. ToSet(<<>>) = {} /\ IsInjective(<<>>) /\ Len(<<>>) = 0
    BY DEF ToSet, IsInjective
  <2>5. /\ gate[g] \in Gate /\ gate[g].value = Limit[g]
        /\ gate[g].waiters = <<>> /\ gate[g].granted = 0
        /\ gate[g].in_flight = 0
    BY <2>3 DEF NewGate, Gate
  <2> QED
    BY <2>1, <2>2, <2>3, <2>4, <2>5 DEF GateOK, Sound, Settled
<1>4. WaitBounded
  BY Timeouts, 0 \in 0 .. Depth, Depth \in 0 .. Depth
     DEF Init, WaitBounded, Depth
<1> QED
  BY <1>1, <1>2, <1>3, <1>4 DEF IInv, GatesOK

\* Every step of the gates keeps the invariant.
LEMMA NextInv == IInv /\ [Next]_vars => IInv'
<1> SUFFICES ASSUME IInv, [Next]_vars PROVE IInv'
  OBVIOUS
<1>1. CASE Next
  BY <1>1, EnterKeeps, ResumeKeeps, RejectKeeps, FinishKeeps, TickKeeps
     DEF Next, Move
<1>2. CASE UNCHANGED vars
  <2>1. \A g : Holders(g)' = Holders(g) /\ Waiting(g)' = Waiting(g)
    BY <1>2 DEF vars, Holders, Held, Waiting, NextGate
  <2> QED
    BY <1>2, <2>1 DEF vars, IInv, Types, Shape, GatesOK, WaitBounded
<1> QED
  BY <1>1, <1>2

\* What the invariant says of the gates.
LEMMA InvImplies ==
    IInv => TypeOK /\ SlotsConserved /\ NoLostWakeup /\ WaitBounded
BY DEF IInv, GatesOK, GateOK, Sound, Settled, Types, Waiting,
       TypeOK, SlotsConserved, NoLostWakeup

\* Always.
LEMMA AlwaysInv == Spec => []IInv
BY InitInv, NextInv, PTL DEF Spec

\* Requests that race for slots and time out leave every gate well formed:
\* who waits at it is in its queue, once, and the woken ones come first.
THEOREM TypeCorrect == Spec => []TypeOK
BY AlwaysInv, InvImplies, PTL

\* No race of a grant and a timeout of BoundedConcurrencyGate.acquire loses
\* or duplicates a slot, so no gate is ever over its limit.
THEOREM SlotsNeverLost == Spec => []SlotsConserved
BY AlwaysInv, InvImplies, PTL

\* No slot stays free beside a waiter nobody will wake.
THEOREM WakeupsNeverLost == Spec => []NoLostWakeup
BY AlwaysInv, InvImplies, PTL

\* No request waits longer than one queue_timeout_ms for each gate.
THEOREM WaitsBounded == Spec => []WaitBounded
BY AlwaysInv, InvImplies, PTL

-----------------------------------------------------------------------------
(* No gridlock.                                                            *)

\* Every gate has room for somebody.
RoomEverywhere == \A g \in Gates : Limit[g] > 0

\* Whoever is at the gates with at least d slots has somebody at least as far
\* in who can move.
HelpedFrom(d) ==
    \A r \in Requests :
        pc[r] # "idle" /\ held[r] >= d
          => \E q \in Requests : held[q] >= held[r] /\ CanMove(q)

\* Whoever waits does so behind somebody who was woken at the same gate, or
\* who has its slots and so more slots than the one who waits.
LEMMA Ahead ==
    ASSUME IInv, RoomEverywhere,
           NEW r \in Requests, pc[r] = "waiting"
    PROVE  \/ \E q \in Requests : held[q] = held[r] /\ CanMove(q)
           \/ \E q \in Requests : held[q] > held[r]
<1> DEFINE i == held[r] + 1
           g == NextGate(r)
           w == gate[g].waiters
<1>1. /\ held \in [Requests -> 0 .. Depth] /\ i \in 1 .. Depth
      /\ \A q \in Requests : pc[q] = "waiting" => held[q] + 1 \in 1 .. Depth
  BY DEF IInv, Types, Shape, Depth
<1>2. g = PathOf[r][i] /\ g \in Gates
  <2>1. g = PathOf[r][i]
    BY DEF NextGate
  <2>2. \A k \in 1 .. Depth : PathOf[r][k] \in Gates
    BY GatesAssumption, Zenon
  <2> QED
    BY <1>1, <2>1, <2>2, Zenon
<1> HIDE DEF g
<1>3. \A q \in Requests, j \in 1 .. Depth : PathOf[q][j] = g => j = i
  BY <1>1, <1>2, GatesAssumption
<1>4. /\ gate[g] \in Gate /\ gate[g].granted <= Len(w)
      /\ ToSet(w) = Waiting(g)
      /\ gate[g].value + gate[g].granted + gate[g].in_flight = Limit[g]
      /\ gate[g].in_flight = Cardinality(Holders(g))
      /\ Settled(gate[g])
  BY <1>2 DEF IInv, GatesOK, GateOK, Sound
<1>5. /\ w \in Seq(Requests) /\ gate[g].granted \in Nat /\ gate[g].value \in Nat
  BY <1>4 DEF Gate
<1>6. r \in ToSet(w)
  BY <1>4 DEF Waiting, g
<1> HIDE DEF w
<1>7. 0 < Len(w) /\ Len(w) \in Nat
  BY <1>5, <1>6 DEF ToSet
<1>8. CASE gate[g].granted > 0
  <2>1. 1 \in 1 .. gate[g].granted /\ 1 \in DOMAIN w
    BY <1>5, <1>7, <1>8
  <2>2. w[1] \in Waiting(g)
    BY <1>4, <2>1 DEF ToSet
  <2>3. PICK q \in Requests : q = w[1] /\ pc[q] = "waiting" /\ NextGate(q) = g
    BY <2>2 DEF Waiting
  <2>4. held[q] + 1 = held[r] + 1
    BY <1>1, <1>3, <2>3, Zenon DEF NextGate
  <2>5. held[q] = held[r]
    BY <1>1, <2>4 DEF Depth
  <2>6. CanMove(q)
    BY <2>1, <2>3 DEF CanMove, Woken, w
  <2> QED
    BY <2>5, <2>6
<1>9. CASE gate[g].granted = 0
  <2>1. gate[g].value = 0
    <3>1. Settled(gate[g])
      BY <1>4
    <3>2. gate[g].granted < Len(gate[g].waiters)
      BY <1>7, <1>9, Zenon DEF w
    <3> QED
      BY <1>5, <1>9, <3>1, <3>2 DEF Settled
  <2>2. Cardinality(Holders(g)) > 0
    <3>1. Limit[g] \in Nat /\ Limit[g] > 0
      BY <1>2, GatesAssumption DEF RoomEverywhere
    <3>2. gate[g].in_flight \in Int
      BY <1>4 DEF Gate
    <3> QED
      BY <1>4, <1>9, <2>1, <3>1, <3>2
  <2>3. Holders(g) # {}
    BY <2>2, FS_EmptySet
  <2>4. PICK q \in Requests : g \in Held(q)
    BY <2>3 DEF Holders
  <2>5. PICK j \in 1 .. held[q] : g = PathOf[q][j]
    BY <2>4 DEF Held
  <2>6. held[q] \in 0 .. Depth /\ j \in 1 .. Depth
    BY <1>1, <2>5 DEF Depth
  <2>7. j = i
    BY <1>3, <2>5, <2>6
  <2>8. held[q] > held[r]
    BY <1>1, <2>5, <2>6, <2>7 DEF Depth
  <2> QED
    BY <2>8
<1> QED
  BY <1>5, <1>8, <1>9

\* The request with the most slots among those that wait can be helped by
\* nobody who waits with more: from the innermost gate outwards.
LEMMA InvMoves ==
    ASSUME IInv, RoomEverywhere
    PROVE  NoGridlock
<1>1. /\ \A r \in Requests : held[r] \in 0 .. 4
      /\ \A r \in Requests : pc[r] \in {"idle", "waiting", "running"}
  BY DEF IInv, Types, Depth
<1>2. \A r \in Requests : /\ pc[r] = "idle" => held[r] = 0
                          /\ pc[r] = "waiting" => held[r] < 4
  BY DEF IInv, Shape, Depth
<1>3. HelpedFrom(4)
  <2> SUFFICES ASSUME NEW r \in Requests, pc[r] # "idle", held[r] >= 4
               PROVE  \E q \in Requests : held[q] >= held[r] /\ CanMove(q)
    BY DEF HelpedFrom
  <2>1. pc[r] = "running" /\ held[r] >= held[r]
    BY <1>1, <1>2
  <2> QED
    BY <2>1 DEF CanMove
<1>4. ASSUME NEW d \in 0 .. 3, HelpedFrom(d + 1) PROVE HelpedFrom(d)
  <2> SUFFICES ASSUME NEW r \in Requests, pc[r] # "idle", held[r] >= d
               PROVE  \E q \in Requests : held[q] >= held[r] /\ CanMove(q)
    BY DEF HelpedFrom
  <2>1. held[r] \in 0 .. 4 /\ held[r] >= held[r]
    BY <1>1
  <2>2. CASE pc[r] = "running"
    BY <2>1, <2>2 DEF CanMove
  <2>3. CASE pc[r] = "waiting"
    <3>1. CASE \E q \in Requests : held[q] = held[r] /\ CanMove(q)
      BY <2>1, <3>1
    <3>2. CASE \E q \in Requests : held[q] > held[r]
      <4>1. PICK q \in Requests : held[q] > held[r]
        BY <3>2
      <4>2. held[q] \in 0 .. 4
        BY <1>1
      <4>3. held[q] >= d + 1 /\ held[q] # 0
        BY <2>1, <4>1, <4>2
      <4>4. pc[q] # "idle"
        BY <1>2, <4>3
      <4>5. PICK p \in Requests : held[p] >= held[q] /\ CanMove(p)
        BY <1>4, <4>3, <4>4 DEF HelpedFrom
      <4>6. held[p] \in 0 .. 4
        BY <1>1
      <4>7. held[p] >= held[r]
        BY <2>1, <4>1, <4>2, <4>5, <4>6
      <4> QED
        BY <4>5, <4>7
    <3> QED
      BY <2>3, <3>1, <3>2, Ahead
  <2> QED
    BY <1>1, <2>2, <2>3
<1>5. HelpedFrom(3)
  BY <1>3, <1>4, 3 \in 0 .. 3, 3 + 1 = 4
<1>6. HelpedFrom(2)
  BY <1>5, <1>4, 2 \in 0 .. 3, 2 + 1 = 3
<1>7. HelpedFrom(1)
  BY <1>6, <1>4, 1 \in 0 .. 3, 1 + 1 = 2
<1>8. HelpedFrom(0)
  BY <1>7, <1>4, 0 \in 0 .. 3, 0 + 1 = 1
<1>9. ASSUME NEW r \in Requests, pc[r] = "waiting"
      PROVE  \E q \in Requests : held[q] >= held[r] /\ CanMove(q)
  <2>1. held[r] >= 0 /\ pc[r] # "idle"
    BY <1>1, <1>9
  <2> QED
    BY <1>8, <2>1 DEF HelpedFrom
<1> QED
  BY <1>9 DEF NoGridlock

\* With room for somebody at every gate, ConcurrencyManager.acquire_all cannot
\* deadlock: whoever waits, somebody at least as far in can move at once, and
\* no timeout is needed for that.
THEOREM NeverGridlocked ==
    ASSUME RoomEverywhere
    PROVE  Spec => []NoGridlock
<1>1. IInv => NoGridlock
  BY InvMoves
<1> QED
  BY <1>1, AlwaysInv, PTL
=============================================================================
