-------------------------- MODULE ConcurrencyGates --------------------------
(***************************************************************************)
(* Layered backpressure: BoundedConcurrencyGate and ConcurrencyManager of  *)
(* src/apps/gateway/backpressure/semaphores.py, as handle() of             *)
(* src/apps/gateway/pipeline/pipeline.py uses them.  A request takes a     *)
(* slot of the global gate, of its tenant's, its route's and its backend's *)
(* (PathOf gives the four), waits at most QueueTimeout ticks for each, and *)
(* keeps the slots it has while it waits for the next.                     *)
(*                                                                         *)
(* A gate is its asyncio.Semaphore and the counter _in_flight.  The        *)
(* semaphore, which is not this repository's, is a value and a FIFO of     *)
(* waiters, the first `granted` of which have been woken, their slot       *)
(* already taken from value, but have not run yet.  A step is what the     *)
(* event loop runs between two awaits; acquiring a slot that is free does  *)
(* not suspend, so a request passes all the gates that are free at once.   *)
(* Gates are made on first use in the code; here they exist from the       *)
(* start, which no request can tell.                                       *)
(***************************************************************************)
EXTENDS Integers, FiniteSets, SequencesExt

CONSTANTS Requests, Gates, Limit, PathOf, QueueTimeout

Depth == 4

ASSUME GatesAssumption ==
    /\ IsFiniteSet(Requests)
    /\ Limit \in [Gates -> Nat]
    /\ PathOf \in [Requests -> [1 .. Depth -> Gates]]
    /\ \A r, q \in Requests, i, j \in 1 .. Depth :
         PathOf[r][i] = PathOf[q][j] => i = j
    /\ QueueTimeout \in Nat \ {0}

VARIABLES gate, held, pc, waited, total

vars == <<gate, held, pc, waited, total>>

Gate == [value : Nat, waiters : Seq(Requests), granted : Nat, in_flight : Int]

NewGate(limit) ==
    [value |-> limit, waiters |-> <<>>, granted |-> 0, in_flight |-> 0]

-----------------------------------------------------------------------------
(* The semaphore.                                                          *)

Locked(g) == g.value = 0 \/ g.waiters # <<>>

Woken(g, r) == \E i \in 1 .. g.granted : g.waiters[i] = r

WakeNext(g) == IF g.granted < Len(g.waiters)
               THEN [g EXCEPT !.value = @ - 1, !.granted = @ + 1]
               ELSE g

\* Mutant of WakeAll: a waiter that leaves wakes nobody.
WakeNone(g) == g

\* "Wake up as many as are allowed": what every waiter does as it leaves.
WakeAll(g) ==
    LET k == Min({g.value, Len(g.waiters) - g.granted})
    IN  [g EXCEPT !.value = @ - k, !.granted = @ + k]

\* r leaves the FIFO.
Without(g, r) ==
    LET i == CHOOSE i \in DOMAIN g.waiters : g.waiters[i] = r
    IN  [g EXCEPT !.waiters = RemoveAt(@, i),
                  !.granted = IF i <= @ THEN @ - 1 ELSE @]

-----------------------------------------------------------------------------
(* The gate.                                                               *)

\* acquire finds a free slot.
TakeSlot(g) == [g EXCEPT !.value = @ - 1, !.in_flight = @ + 1]

\* acquire has to wait.
JoinQueue(g, r) == [g EXCEPT !.waiters = Append(@, r)]

\* The awaited acquire returns.
EnterWoken(g, r) == WakeAll([Without(g, r) EXCEPT !.in_flight = @ + 1])

\* Mutant of GiveUp: a slot granted as the timeout fires is lost.
GiveUpLosingSlot(g, r) == WakeAll(Without(g, r))

\* Mutant of GiveUp: the waiter stays queued.
GiveUpQueued(g, r) == WakeAll(g)

\* wait_for cancels the acquire; a slot granted meanwhile is handed back.
GiveUp(g, r) ==
    WakeAll([Without(g, r) EXCEPT !.value = IF Woken(g, r) THEN @ + 1 ELSE @])

\* Mutant of Leave: the semaphore is not released.
LeaveUnreleased(g) == [g EXCEPT !.in_flight = @ - 1]

\* The finally clause of acquire.
Leave(g) == WakeNext([g EXCEPT !.value = @ + 1, !.in_flight = @ - 1])

-----------------------------------------------------------------------------
(* Requests.                                                               *)

Held(r) == {PathOf[r][i] : i \in 1 .. held[r]}

\* The gate a waiting request is at.
NextGate(r) == PathOf[r][held[r] + 1]

Holders(g) == {r \in Requests : g \in Held(r)}

\* Besides the types: who waits at a gate is in its queue, once, and nobody
\* else is; the woken waiters come first.
TypeOK ==
    /\ gate \in [Gates -> Gate]
    /\ held \in [Requests -> 0 .. Depth]
    /\ pc \in [Requests -> {"idle", "waiting", "running"}]
    /\ waited \in [Requests -> 0 .. QueueTimeout]
    /\ total \in [Requests -> Nat]
    /\ \A g \in Gates :
         /\ gate[g].granted <= Len(gate[g].waiters)
         /\ IsInjective(gate[g].waiters)
         /\ ToSet(gate[g].waiters)
              = {r \in Requests : pc[r] = "waiting" /\ NextGate(r) = g}

Init ==
    /\ gate = [g \in Gates |-> NewGate(Limit[g])]
    /\ held = [r \in Requests |-> 0]
    /\ pc = [r \in Requests |-> "idle"]
    /\ waited = [r \in Requests |-> 0]
    /\ total = [r \in Requests |-> 0]

\* r, which has k slots of these gates, takes those that are free up to the
\* first gate that is locked, and queues there or runs.
Proceed(r, k, gates) ==
    \E stop \in {Min({i \in k + 1 .. Depth : Locked(gates[PathOf[r][i]])}
                     \cup {Depth + 1})} :
        /\ gate' = [g \in Gates |->
                      IF \E i \in k + 1 .. stop - 1 : g = PathOf[r][i]
                      THEN TakeSlot(gates[g])
                      ELSE IF stop <= Depth /\ g = PathOf[r][stop]
                           THEN JoinQueue(gates[g], r)
                           ELSE gates[g]]
        /\ held' = [held EXCEPT ![r] = stop - 1]
        /\ pc' = [pc EXCEPT ![r] = IF stop <= Depth THEN "waiting"
                                                    ELSE "running"]
        /\ waited' = [waited EXCEPT ![r] = 0]

\* handle() reaches acquire_all.
Enter(r) ==
    /\ pc[r] = "idle"
    /\ Proceed(r, 0, gate)
    /\ UNCHANGED total

\* The slot r waited for is its own.
Resume(r) ==
    /\ pc[r] = "waiting"
    /\ Woken(gate[NextGate(r)], r)
    /\ \E gates \in {[gate EXCEPT ![NextGate(r)] = EnterWoken(@, r)]} :
         Proceed(r, held[r] + 1, gates)
    /\ UNCHANGED total

\* Mutant of Reject: a timeout starts another wait.
RejectNever(r) ==
    /\ pc[r] = "waiting"
    /\ waited[r] = QueueTimeout
    /\ waited' = [waited EXCEPT ![r] = 0]
    /\ UNCHANGED <<gate, held, pc, total>>

\* BackpressureRejected: r leaves the gate it waits at and, unwinding, those
\* it passed.
Reject(r) ==
    /\ pc[r] = "waiting"
    /\ waited[r] = QueueTimeout
    /\ gate' = [g \in Gates |-> IF g = NextGate(r) THEN GiveUp(gate[g], r)
                                ELSE IF g \in Held(r) THEN Leave(gate[g])
                                ELSE gate[g]]
    /\ held' = [held EXCEPT ![r] = 0]
    /\ pc' = [pc EXCEPT ![r] = "idle"]
    /\ waited' = [waited EXCEPT ![r] = 0]
    /\ total' = [total EXCEPT ![r] = 0]

\* _dispatch_with_resilience returns or raises.
Finish(r) ==
    /\ pc[r] = "running"
    /\ gate' = [g \in Gates |-> IF g \in Held(r) THEN Leave(gate[g])
                                                 ELSE gate[g]]
    /\ held' = [held EXCEPT ![r] = 0]
    /\ pc' = [pc EXCEPT ![r] = "idle"]
    /\ total' = [total EXCEPT ![r] = 0]
    /\ UNCHANGED waited

\* Time passes, but not past a timeout that is due.
Tick ==
    /\ \A r \in Requests : pc[r] = "waiting" => waited[r] < QueueTimeout
    /\ \E r \in Requests : pc[r] = "waiting"
    /\ waited' = [r \in Requests |-> IF pc[r] = "waiting" THEN waited[r] + 1
                                                          ELSE waited[r]]
    /\ total' = [r \in Requests |-> IF pc[r] = "waiting" THEN total[r] + 1
                                                         ELSE total[r]]
    /\ UNCHANGED <<gate, held, pc>>

Move(r) == Enter(r) \/ Resume(r) \/ Reject(r) \/ Finish(r)

Next == (\E r \in Requests : Move(r)) \/ Tick

Spec == Init /\ [][Next]_vars

-----------------------------------------------------------------------------
\* No slot of any gate is lost or made up, whatever times out while it is
\* being granted: each is free, granted to a woken waiter, or counted in
\* _in_flight, and _in_flight counts the requests inside.
SlotsConserved ==
    \A g \in Gates :
        /\ gate[g].value + gate[g].granted + gate[g].in_flight = Limit[g]
        /\ gate[g].in_flight = Cardinality(Holders(g))

\* While a gate has both a free slot and a waiter that has not been woken, some
\* woken waiter is about to run, and will wake it.
NoLostWakeup ==
    \A g \in Gates :
        gate[g].value > 0 /\ gate[g].granted < Len(gate[g].waiters)
          => gate[g].granted > 0

\* The wait of a request is bounded by queue_timeout_ms for each gate it has
\* reached: up to four times that in all.
WaitBounded ==
    \A r \in Requests :
        /\ pc[r] = "waiting" => total[r] <= held[r] * QueueTimeout + waited[r]
        /\ total[r] <= Depth * QueueTimeout

\* r can take a step now, without waiting for anybody or for a timeout.
CanMove(r) == \/ pc[r] = "running"
              \/ pc[r] = "waiting" /\ Woken(gate[NextGate(r)], r)

\* Holding outer slots while waiting for inner ones cannot deadlock, as the
\* gates are always taken in the same order: whoever waits, somebody with at
\* least as many slots can move.
NoGridlock ==
    \A r \in Requests :
        pc[r] = "waiting" => \E q \in Requests : held[q] >= held[r] /\ CanMove(q)

\* Nobody waits for ever, even if no time passes and no timeout comes to the
\* rescue: there is no gridlock, and nobody is overtaken for ever.
Served == \A r \in Requests : pc[r] = "waiting" ~> pc[r] # "waiting"
=============================================================================
