--------------------------- MODULE GatewayProofs ----------------------------
(***************************************************************************)
(* Proofs about Gateway, for any requests, gates and limits: the process   *)
(* uses the gates as ConcurrencyGates says, so that what GatesProofs shows *)
(* of them holds of the process; its gauge is exact; and its shutdown      *)
(* leaves nothing behind.                                                  *)
(***************************************************************************)
EXTENDS Gateway, GatesProofs

Server == {"down", "serving", "stopping", "draining"}
Stage == {"away", "body", "limiting", "admission", "sending"}

\* The process by itself: its clients are open while it may have requests, and
\* it has none when it is down or closing them.
ProcessOK ==
    /\ server \in Server /\ stage \in [Requests -> Stage] /\ in_flight \in Int
    /\ server \in {"serving", "stopping"} => open = Clients /\ ~draining
    /\ server \in {"down", "draining"} => \A r \in Requests : stage[r] = "away"
    /\ server = "draining" => open \subseteq Clients

\* The inductive invariant of the gateway process.
GatewayInv == IInv /\ ProcessOK /\ InFlightExact

-----------------------------------------------------------------------------
\* When nobody is there, the gates are as new.
LEMMA IdleGates ==
    ASSUME IInv, \A r \in Requests : pc[r] = "idle"
    PROVE  gate = [g \in Gates |-> NewGate(Limit[g])]
<1>1. ASSUME NEW g \in Gates PROVE gate[g] = NewGate(Limit[g])
  <2>1. Waiting(g) = {} /\ Holders(g) = {}
    BY DEF IInv, Types, Shape, Waiting, Holders, Held
  <2>2. Cardinality(Holders(g)) = 0
    BY <2>1, FS_EmptySet
  <2>3. /\ gate[g] \in Gate /\ ToSet(gate[g].waiters) = {}
        /\ gate[g].granted <= Len(gate[g].waiters)
        /\ gate[g].value + gate[g].granted + gate[g].in_flight = Limit[g]
        /\ gate[g].in_flight = 0
    BY <2>1, <2>2 DEF IInv, GatesOK, GateOK, Sound
  <2>4. gate[g].waiters = <<>>
    <3>1. gate[g].waiters \in Seq(Requests)
      BY <2>3 DEF Gate
    <3>2. DOMAIN gate[g].waiters = {}
      BY <2>3 DEF ToSet
    <3> QED
      BY <3>1, <3>2
  <2>5. gate[g].granted = 0 /\ gate[g].value = Limit[g]
    BY <2>3, <2>4, GatesAssumption DEF Gate
  <2> QED
    BY <2>3, <2>4, <2>5 DEF Gate, NewGate
<1> QED
  BY <1>1 DEF IInv, Types

\* A request that is not at the gates is idle there, so a process without
\* requests has unused gates.
LEMMA AllAway ==
    ASSUME GatewayInv, \A r \in Requests : stage[r] = "away"
    PROVE  in_flight = 0 /\ gate = [g \in Gates |-> NewGate(Limit[g])]
<1>1. InHandle = {}
  BY DEF InHandle
<1>2. in_flight = 0
  BY <1>1, FS_EmptySet DEF GatewayInv, InFlightExact
<1>3. \A r \in Requests : pc[r] = "idle"
  BY DEF GatewayInv, InFlightExact
<1> QED
  BY <1>2, <1>3, IdleGates DEF GatewayInv

\* What the invariant says of the process.
LEMMA GatewayInvImplies == GatewayInv => InFlightExact /\ CleanShutdown
<1> SUFFICES ASSUME GatewayInv PROVE CleanShutdown
  BY DEF GatewayInv
<1>1. ASSUME NEW r \in Requests, stage[r] = "limiting" \/ pc[r] = "running"
      PROVE  open = Clients
  BY <1>1 DEF GatewayInv, ProcessOK, InFlightExact, Server
<1>2. draining => \A r \in Requests : stage[r] = "away"
  BY DEF GatewayInv, ProcessOK, Server
<1> QED
  BY <1>1, <1>2, AllAway DEF CleanShutdown, Clients

\* Every step of the process is one of the gates', or leaves them alone: a new
\* process makes the gates the old one left.
LEMMA GatewayStep ==
    ASSUME GatewayInv, [GatewayNext]_gatewayVars
    PROVE  [Next]_vars
<1>1. CASE Startup
  <2>1. gate' = gate
    BY <1>1, AllAway DEF Startup, GatewayInv, ProcessOK
  <2> QED
    BY <1>1, <2>1 DEF Startup, vars
<1>2. ASSUME NEW r \in Requests, Decide(r) PROVE [Next]_vars
  BY <1>2 DEF Decide, Next, Move
<1>3. ASSUME NEW r \in Requests, Proceeds(r) \/ Overloaded(r) \/ Dispatched(r)
      PROVE  [Next]_vars
  BY <1>3 DEF Proceeds, Overloaded, Dispatched, Next, Move
<1>4. ASSUME NEW r \in Requests,
             Arrive(r) \/ Disconnect(r) \/ ReadBody(r) \/ Sent(r)
      PROVE  [Next]_vars
  BY <1>4 DEF Arrive, Disconnect, ReadBody, Sent
<1>5. CASE GatewayTick \/ Sigterm \/ Drain \/ Close
  BY <1>5 DEF GatewayTick, Sigterm, Drain, Close, Next
<1>6. CASE UNCHANGED gatewayVars
  BY <1>6 DEF gatewayVars
<1> QED
  BY <1>1, <1>2, <1>3, <1>4, <1>5, <1>6 DEF GatewayNext

Inside(st) == st \in {"limiting", "admission"}

\* The gauge when r goes from one stage to another.
LEMMA GotoCount ==
    ASSUME GatewayInv, NEW r \in Requests, NEW from, NEW to \in Stage,
           Goto(r, from, to)
    PROVE  /\ stage' \in [Requests -> Stage] /\ stage'[r] = to
           /\ \A q \in Requests : q # r => stage'[q] = stage[q]
           /\ ~Inside(from) /\ Inside(to)
                => Cardinality(InHandle') = in_flight + 1
           /\ Inside(from) /\ ~Inside(to)
                => Cardinality(InHandle') = in_flight - 1
           /\ (Inside(from) <=> Inside(to))
                => Cardinality(InHandle') = in_flight
<1> DEFINE c == Cardinality(InHandle \ {r})
<1>1. /\ stage[r] = from /\ stage' = [stage EXCEPT ![r] = to]
      /\ stage \in [Requests -> Stage]
  BY DEF Goto, GatewayInv, ProcessOK
<1>2. stage' \in [Requests -> Stage] /\ stage'[r] = to
      /\ \A q \in Requests : q # r => stage'[q] = stage[q]
  BY <1>1
<1>3. /\ r \in InHandle <=> Inside(from)
      /\ InHandle \subseteq Requests /\ in_flight = Cardinality(InHandle)
  BY <1>1 DEF InHandle, Inside, GatewayInv, InFlightExact
<1>4. /\ c \in Nat
      /\ r \notin InHandle => Cardinality(InHandle) = c
      /\ r \in InHandle => Cardinality(InHandle) = c + 1
      /\ Cardinality((InHandle \ {r}) \cup {r}) = c + 1
  BY <1>3, HolderCount
<1>5. /\ Inside(to) => InHandle' = (InHandle \ {r}) \cup {r}
      /\ ~Inside(to) => InHandle' = InHandle \ {r}
  BY <1>1 DEF InHandle, Inside
<1>6. /\ Inside(to) => Cardinality(InHandle') = c + 1
      /\ ~Inside(to) => Cardinality(InHandle') = c
  BY <1>4, <1>5
<1> HIDE DEF c
<1> QED
  BY <1>2, <1>3, <1>4, <1>6

\* handle() ends: one request less.
LEMMA HandleEndsOK ==
    ASSUME GatewayInv, NEW r \in Requests, NEW from \in {"limiting", "admission"},
           HandleEnds(r, from), UNCHANGED process, pc'[r] = "idle",
           \A q \in Requests : q # r => pc'[q] = pc[q]
    PROVE  ProcessOK' /\ InFlightExact'
<1>1. /\ Goto(r, from, "sending") /\ in_flight' = in_flight - 1
      /\ "sending" \in Stage /\ stage[r] # "away"
  BY DEF HandleEnds, Goto, Stage
<1>2. /\ stage' \in [Requests -> Stage] /\ stage'[r] = "sending"
      /\ \A q \in Requests : q # r => stage'[q] = stage[q]
      /\ Cardinality(InHandle') = in_flight - 1
  BY <1>1, GotoCount DEF Inside
<1>3. in_flight \in Int /\ in_flight' = Cardinality(InHandle')
  BY <1>1, <1>2 DEF GatewayInv, ProcessOK
<1>4. InFlightExact'
  BY <1>2, <1>3 DEF InFlightExact, GatewayInv
<1>5. ProcessOK'
  BY <1>1, <1>2, <1>3 DEF GatewayInv, ProcessOK, process
<1> QED
  BY <1>4, <1>5

\* The steps of a request keep the invariant of the process.
LEMMA RequestKeeps ==
    ASSUME GatewayInv, NEW r \in Requests,
           \/ Arrive(r) \/ Disconnect(r) \/ ReadBody(r) \/ Decide(r)
           \/ Proceeds(r) \/ Overloaded(r) \/ Dispatched(r) \/ Sent(r)
    PROVE  ProcessOK' /\ InFlightExact'
<1> USE DEF GatewayInv
<1>1. in_flight \in Int /\ pc \in [Requests -> {"idle", "waiting", "running"}]
  BY DEF ProcessOK, IInv, Types
<1>2. ASSUME NEW from \in {"away", "body", "sending"},
             NEW to \in {"away", "body", "sending"},
             Goto(r, from, to), from = "away" => server = "serving",
             UNCHANGED <<vars, process, in_flight>>
      PROVE  ProcessOK' /\ InFlightExact'
  <2>1. to \in Stage
    BY DEF Stage
  <2>2. /\ stage' \in [Requests -> Stage] /\ stage'[r] = to /\ stage[r] = from
        /\ \A q \in Requests : q # r => stage'[q] = stage[q]
        /\ Cardinality(InHandle') = in_flight
    BY <1>1, <1>2, <2>1, GotoCount DEF Goto, Inside
  <2>3. InFlightExact'
    BY <1>2, <2>2 DEF InFlightExact, vars
  <2>4. ProcessOK'
    BY <1>2, <2>2 DEF ProcessOK, process
  <2> QED
    BY <2>3, <2>4
<1>3. CASE Arrive(r)
  BY <1>2, <1>3 DEF Arrive
<1>4. CASE Disconnect(r)
  BY <1>2, <1>4 DEF Disconnect
<1>5. CASE ReadBody(r)
  <2>1. CASE Goto(r, "body", "sending") /\ UNCHANGED in_flight
    BY <1>2, <1>5, <2>1 DEF ReadBody
  <2>2. CASE Goto(r, "body", "limiting") /\ in_flight' = in_flight + 1
    <3>1. "limiting" \in Stage
      BY DEF Stage
    <3>2. /\ stage' \in [Requests -> Stage] /\ stage'[r] = "limiting"
          /\ stage[r] = "body"
          /\ \A q \in Requests : q # r => stage'[q] = stage[q]
          /\ Cardinality(InHandle') = in_flight + 1
      BY <1>1, <2>2, <3>1, GotoCount DEF Goto, Inside
    <3>3. InFlightExact'
      BY <1>5, <2>2, <3>2 DEF InFlightExact, ReadBody, vars
    <3>4. ProcessOK'
      BY <1>1, <1>5, <2>2, <3>2 DEF ProcessOK, process, ReadBody
    <3> QED
      BY <3>3, <3>4
  <2> QED
    BY <1>5, <2>1, <2>2 DEF ReadBody
<1>6. CASE Decide(r)
  <2>1. CASE HandleEnds(r, "limiting") /\ UNCHANGED vars
    <3>1. pc[r] = "idle"
      BY <1>1, <2>1 DEF InFlightExact, HandleEnds, Goto
    <3> QED
      BY <1>6, <2>1, <3>1, HandleEndsOK DEF Decide, vars
  <2>2. CASE Goto(r, "limiting", "admission") /\ Enter(r) /\ UNCHANGED in_flight
    <3>1. "admission" \in Stage
      BY DEF Stage
    <3>2. /\ stage' \in [Requests -> Stage] /\ stage'[r] = "admission"
          /\ stage[r] = "limiting"
          /\ \A q \in Requests : q # r => stage'[q] = stage[q]
          /\ Cardinality(InHandle') = in_flight
      BY <1>1, <2>2, <3>1, GotoCount DEF Goto, Inside
    <3>3. pc'[r] # "idle" /\ \A q \in Requests : q # r => pc'[q] = pc[q]
      BY <1>1, <2>2 DEF Enter, Proceed
    <3>4. InFlightExact'
      BY <2>2, <3>2, <3>3 DEF InFlightExact
    <3>5. ProcessOK'
      BY <1>6, <2>2, <3>2 DEF ProcessOK, process, Decide
    <3> QED
      BY <3>4, <3>5
  <2> QED
    BY <1>6, <2>1, <2>2 DEF Decide
<1>7. CASE Proceeds(r)
  <2>1. pc[r] = "waiting" /\ pc'[r] # "idle"
        /\ \A q \in Requests : q # r => pc'[q] = pc[q]
    BY <1>1, <1>7 DEF Proceeds, Resume, Proceed
  <2>2. InHandle' = InHandle
    BY <1>7 DEF Proceeds, InHandle
  <2> QED
    BY <1>7, <2>1, <2>2 DEF Proceeds, InFlightExact, ProcessOK, process
<1>8. CASE Overloaded(r)
  BY <1>1, <1>8, HandleEndsOK DEF Overloaded, Reject
<1>9. CASE Dispatched(r)
  BY <1>1, <1>9, HandleEndsOK DEF Dispatched, Finish
<1>10. CASE Sent(r)
  BY <1>2, <1>10 DEF Sent
<1> QED
  BY <1>3, <1>4, <1>5, <1>6, <1>7, <1>8, <1>9, <1>10

\* The steps of the process keep its invariant.
LEMMA ProcessKeeps ==
    ASSUME GatewayInv, GatewayTick \/ Startup \/ Sigterm \/ Drain \/ Close
    PROVE  ProcessOK' /\ InFlightExact'
<1>1. UNCHANGED <<pc, stage, in_flight>>
  BY DEF GatewayTick, Tick, Startup, Sigterm, Drain, Close, vars
<1>2. InHandle' = InHandle
  BY <1>1 DEF InHandle
<1>3. InFlightExact'
  BY <1>1, <1>2 DEF GatewayInv, InFlightExact
<1>4. ProcessOK'
  <2> USE <1>1 DEF GatewayInv, ProcessOK, Server
  <2>1. CASE GatewayTick
    BY <2>1 DEF GatewayTick, process
  <2>2. CASE Startup
    BY <2>2 DEF Startup
  <2>3. CASE Sigterm
    BY <2>3 DEF Sigterm
  <2>4. CASE Drain
    BY <2>4 DEF Drain
  <2>5. CASE Close
    BY <2>5 DEF Close
  <2> QED
    BY <2>1, <2>2, <2>3, <2>4, <2>5
<1> QED
  BY <1>3, <1>4

\* The process starts with everything down and idle.
LEMMA GatewayInitInv == GatewayInit => GatewayInv
<1> SUFFICES ASSUME GatewayInit PROVE GatewayInv
  OBVIOUS
<1>1. InHandle = {}
  BY DEF GatewayInit, InHandle
<1>2. InFlightExact
  BY <1>1, FS_EmptySet DEF GatewayInit, Init, InFlightExact
<1>3. ProcessOK
  BY DEF GatewayInit, ProcessOK, Server, Stage
<1> QED
  BY <1>2, <1>3, InitInv DEF GatewayInit, GatewayInv

\* Every step keeps the invariant.
LEMMA GatewayNextInv == GatewayInv /\ [GatewayNext]_gatewayVars => GatewayInv'
<1> SUFFICES ASSUME GatewayInv, [GatewayNext]_gatewayVars PROVE GatewayInv'
  OBVIOUS
<1>1. IInv'
  BY GatewayStep, NextInv DEF GatewayInv
<1>2. CASE GatewayNext
  BY <1>1, <1>2, RequestKeeps, ProcessKeeps DEF GatewayNext, GatewayInv
<1>3. CASE UNCHANGED gatewayVars
  <2>1. UNCHANGED <<pc, server, draining, open, stage, in_flight>>
    BY <1>3 DEF gatewayVars, vars, process
  <2>2. InHandle' = InHandle
    BY <2>1 DEF InHandle
  <2> QED
    BY <1>1, <2>1, <2>2 DEF GatewayInv, ProcessOK, InFlightExact
<1> QED
  BY <1>2, <1>3

\* Always.
LEMMA AlwaysGatewayInv == GatewaySpec => []GatewayInv
BY GatewayInitInv, GatewayNextInv, PTL DEF GatewaySpec

-----------------------------------------------------------------------------
\* proxy(), handle() and lifespan() use the gates as ConcurrencyGates says,
\* through every restart: the gateway process implements it.
THEOREM GatewayUsesGates == GatewaySpec => UsesGates
<1>1. GatewayInit => Init
  BY DEF GatewayInit
<1> QED
  BY <1>1, AlwaysGatewayInv, GatewayStep, PTL DEF GatewaySpec, UsesGates, Spec

\* Hence no slot is lost and no wake-up missed in the gateway process either.
THEOREM GatewayKeepsSlots == GatewaySpec => [](SlotsConserved /\ NoLostWakeup)
BY AlwaysGatewayInv, InvImplies, PTL DEF GatewayInv

\* REQUESTS_IN_FLIGHT counts the requests inside handle(), on every path out.
THEOREM GaugeExact == GatewaySpec => []InFlightExact
BY AlwaysGatewayInv, GatewayInvImplies, PTL

\* No client is closed under a request, and a shutdown leaves no request, no
\* waiter and no slot behind.
THEOREM ShutdownClean == GatewaySpec => []CleanShutdown
BY AlwaysGatewayInv, GatewayInvImplies, PTL

\* With room for somebody at every gate, acquire_all cannot deadlock in the
\* gateway process: it has no gridlock, and a shutdown that waits for requests
\* always finds one that is not waiting for another.
THEOREM GatewayNeverStalls ==
    ASSUME RoomEverywhere
    PROVE  GatewaySpec => [](NoGridlock /\ NeverStalled)
<1>1. ASSUME GatewayInv PROVE NoGridlock /\ NeverStalled
  <2>1. NoGridlock
    BY <1>1, InvMoves DEF GatewayInv
  <2>2. ASSUME NEW r \in Requests, stage[r] # "away"
        PROVE  \E q \in Requests : \/ stage[q] \in {"body", "limiting", "sending"}
                                   \/ CanMove(q)
    <3>1. CASE stage[r] \in {"body", "limiting", "sending"}
      BY <3>1
    <3>2. CASE stage[r] = "admission"
      <4>1. pc[r] # "idle"
        BY <1>1, <3>2 DEF GatewayInv, InFlightExact
      <4>2. pc[r] \in {"idle", "waiting", "running"}
        BY <1>1 DEF GatewayInv, IInv, Types
      <4>3. CASE pc[r] = "running"
        BY <4>3 DEF CanMove
      <4>4. CASE pc[r] = "waiting"
        BY <2>1, <4>4 DEF NoGridlock
      <4> QED
        BY <4>1, <4>2, <4>3, <4>4
    <3>3. stage[r] \in Stage
      BY <1>1 DEF GatewayInv, ProcessOK
    <3> QED
      BY <2>2, <3>1, <3>2, <3>3 DEF Stage
  <2> QED
    BY <2>1, <2>2 DEF NeverStalled
<1> QED
  BY <1>1, AlwaysGatewayInv, PTL
=============================================================================
