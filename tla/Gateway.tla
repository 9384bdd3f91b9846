------------------------------ MODULE Gateway -------------------------------
(***************************************************************************)
(* One gateway process: proxy() and lifespan() of src/apps/gateway/main.py *)
(* and handle() of src/apps/gateway/pipeline/pipeline.py, composed with    *)
(* the concurrency gates handle() passes through.                          *)
(*                                                                         *)
(* stage is where a request is:                                            *)
(*   away        not in the process                                        *)
(*   body        proxy() awaits the body from the client                   *)
(*   limiting    handle() awaits the rate limiter, which uses Redis        *)
(*   admission   handle() is inside acquire_all: waiting at a gate, or in  *)
(*               the dispatch loop, which uses the HTTP client             *)
(*   sending     proxy() is over and uvicorn sends the response            *)
(* What is answered, counted and logged is left out.  The limiter's        *)
(* verdict and the dispatch loop's are free here; TokenBucket and Dispatch *)
(* say what they are.                                                      *)
(*                                                                         *)
(* uvicorn is not this repository's.  It runs lifespan() up to its yield,  *)
(* accepts requests until SIGTERM, then waits, without a limit, as it is   *)
(* started without one, for those it has, their responses included, and    *)
(* resumes lifespan().                                                     *)
(***************************************************************************)
EXTENDS ConcurrencyGates

Clients == {"redis", "http"}

(* server is where uvicorn and lifespan() are, draining the flag of /readyz, *)
(* open the clients not closed, in_flight the gauge REQUESTS_IN_FLIGHT.      *)
VARIABLES server, draining, open, stage, in_flight

process == <<server, draining, open>>
gatewayVars == <<vars, process, stage, in_flight>>

InHandle == {r \in Requests : stage[r] \in {"limiting", "admission"}}

GatewayInit ==
    /\ Init
    /\ server = "down" /\ draining = FALSE /\ open = {}
    /\ stage = [r \in Requests |-> "away"]
    /\ in_flight = 0

-----------------------------------------------------------------------------
(* A request.                                                              *)

Goto(r, from, to) == stage[r] = from /\ stage' = [stage EXCEPT ![r] = to]

\* Mutant of HandleEnds: the gauge is not in a finally clause.
HandleEndsUncounted(r, from) ==
    /\ Goto(r, from, "sending")
    /\ UNCHANGED in_flight

\* handle() returns or raises, and the finally clause of proxy() runs.
HandleEnds(r, from) ==
    /\ Goto(r, from, "sending")
    /\ in_flight' = in_flight - 1

\* proxy() is called.
Arrive(r) ==
    /\ server = "serving"
    /\ Goto(r, "away", "body")
    /\ UNCHANGED <<vars, process, in_flight>>

\* The client is gone before its body is complete.
Disconnect(r) ==
    /\ Goto(r, "body", "away")
    /\ UNCHANGED <<vars, process, in_flight>>

\* The body is there: too large (413), for no route (404), or else the
\* limiter is called.
ReadBody(r) ==
    /\ \/ Goto(r, "body", "sending") /\ UNCHANGED in_flight
       \/ Goto(r, "body", "limiting") /\ in_flight' = in_flight + 1
    /\ UNCHANGED <<vars, process>>

\* Mutant of Decide: what the limiter allows goes past the gates.
DecideUngated(r) ==
    /\ \/ HandleEnds(r, "limiting") /\ UNCHANGED pc
       \/ /\ Goto(r, "limiting", "admission")
          /\ pc' = [pc EXCEPT ![r] = "running"]
          /\ UNCHANGED in_flight
    /\ UNCHANGED <<gate, held, waited, total, process>>

\* The limiter denies (429) or allows.
Decide(r) ==
    /\ \/ HandleEnds(r, "limiting") /\ UNCHANGED vars
       \/ Goto(r, "limiting", "admission") /\ Enter(r) /\ UNCHANGED in_flight
    /\ UNCHANGED process

\* A slot waited for is taken.
Proceeds(r) == Resume(r) /\ UNCHANGED <<process, stage, in_flight>>

\* BackpressureRejected (503).
Overloaded(r) == Reject(r) /\ HandleEnds(r, "admission") /\ UNCHANGED process

\* The dispatch loop is over.
Dispatched(r) == Finish(r) /\ HandleEnds(r, "admission") /\ UNCHANGED process

\* The client has the whole response, or its connection is gone.
Sent(r) ==
    /\ Goto(r, "sending", "away")
    /\ UNCHANGED <<vars, process, in_flight>>

GatewayTick == Tick /\ UNCHANGED <<process, stage, in_flight>>

-----------------------------------------------------------------------------
(* The process.                                                            *)

\* A new process runs lifespan() up to its yield: new clients and new gates.
Startup ==
    /\ server = "down"
    /\ server' = "serving" /\ draining' = FALSE /\ open' = Clients
    /\ gate' = [g \in Gates |-> NewGate(Limit[g])]
    /\ UNCHANGED <<held, pc, waited, total, stage, in_flight>>

Sigterm ==
    /\ server = "serving"
    /\ server' = "stopping"
    /\ UNCHANGED <<vars, draining, open, stage, in_flight>>

\* Mutant of Drain: on the signal itself.
DrainAtOnce ==
    /\ server = "stopping"
    /\ server' = "draining" /\ draining' = TRUE
    /\ UNCHANGED <<vars, open, stage, in_flight>>

\* Mutant of Drain: the health task is awaited, and not cancelled.
DrainAwaitingHealth ==
    /\ server = "stopping"
    /\ \A r \in Requests : stage[r] = "away"
    /\ draining' = TRUE
    /\ UNCHANGED <<vars, server, open, stage, in_flight>>

\* The last response is sent, and lifespan() resumes.
Drain ==
    /\ server = "stopping"
    /\ \A r \in Requests : stage[r] = "away"
    /\ server' = "draining" /\ draining' = TRUE
    /\ UNCHANGED <<vars, open, stage, in_flight>>

\* forwarder.aclose() and redis_client.aclose(), one after the other.
Close ==
    /\ server = "draining"
    /\ \/ "http" \in open /\ open' = open \ {"http"} /\ UNCHANGED server
       \/ open = {"redis"} /\ open' = {} /\ server' = "down"
    /\ UNCHANGED <<vars, draining, stage, in_flight>>

GatewayNext ==
    \/ \E r \in Requests :
         \/ Arrive(r) \/ Disconnect(r) \/ ReadBody(r)
         \/ Decide(r) \/ Proceeds(r) \/ Overloaded(r) \/ Dispatched(r)
         \/ Sent(r)
    \/ GatewayTick
    \/ Startup \/ Sigterm \/ Drain \/ Close

GatewaySpec == GatewayInit /\ [][GatewayNext]_gatewayVars

\* A task that can run does.  Three things no timeout of the code sees to are
\* assumed: a backend ends every attempt after boundedly many waits (MaxWaits
\* of Dispatch), so that the dispatch loop ends; Redis answers every call or
\* its connection fails; a client takes its response or its connection fails.
\* Of clients that are to send a body, and of time, nothing is assumed.
ServerFairSpec ==
    /\ GatewaySpec
    /\ \A r \in Requests :
         WF_gatewayVars(Decide(r) \/ Proceeds(r) \/ Dispatched(r) \/ Sent(r))
    /\ WF_gatewayVars(Drain \/ Close)

\* Clients too send what they announced, or go.
FairSpec ==
    /\ ServerFairSpec
    /\ \A r \in Requests : WF_gatewayVars(Disconnect(r) \/ ReadBody(r))

-----------------------------------------------------------------------------
\* REQUESTS_IN_FLIGHT is exact: it counts the requests inside handle(), on
\* every path out of it.  Only those of them that are past the limiter are at
\* the gates.
InFlightExact ==
    /\ in_flight = Cardinality(InHandle)
    /\ \A r \in Requests : pc[r] # "idle" <=> stage[r] = "admission"

\* A request that waits for Redis or is being forwarded has an open client to
\* do it with, whenever the signal came; and when lifespan() starts to close
\* them, no request, waiter or slot is left behind anywhere.
CleanShutdown ==
    /\ \A r \in Requests : /\ stage[r] = "limiting" => "redis" \in open
                           /\ pc[r] = "running" => "http" \in open
    /\ draining => /\ in_flight = 0
                   /\ gate = [g \in Gates |-> NewGate(Limit[g])]

\* handle() uses the gates as ConcurrencyGates says.  A new process, which
\* makes new gates, makes them just as the last one left them.
UsesGates == Spec

\* Requests never all wait for each other: while there are any, a stopping
\* process among others, one of them is not waiting for a slot.
NeverStalled ==
    (\E r \in Requests : stage[r] # "away")
      => \E q \in Requests : \/ stage[q] \in {"body", "limiting", "sending"}
                             \/ CanMove(q)

\* main.py: "on SIGTERM, stop accepting new proxy traffic [...], let in-flight
\* requests finish up to `graceful_shutdown_timeout_s`, then close the HTTP
\* client and Redis connection."
ShutsDown == server = "stopping" ~> server = "down"
=============================================================================
