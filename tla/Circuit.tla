------------------------------ MODULE Circuit -------------------------------
(***************************************************************************)
(* What a circuit breaker promises the backend behind it, without a word   *)
(* on counters and windows: the state machine of the documentation of      *)
(* src/apps/gateway/circuitbreaker/breaker.py.                             *)
(*                                                                         *)
(* state, since  the state, and for how long it has been OPEN              *)
(* out           the attempts that are at the backend                      *)
(* wins          the probes of this HALF_OPEN period that succeeded        *)
(*                                                                         *)
(* The backend is left alone for OpenDuration.  Then it is probed, by at   *)
(* most HalfOpenMaxRequests attempts at a time and beside no others, and   *)
(* only that many successes of theirs bring the traffic back.              *)
(***************************************************************************)
EXTENDS Integers, FiniteSets

CONSTANTS Callers, OpenDuration, HalfOpenMaxRequests

VARIABLES state, since, out, wins

vars == <<state, since, out, wins>>

Init == state = "CLOSED" /\ since = 0 /\ out = {} /\ wins = 0

\* The time of rest is over, and with it every attempt from before.
Rested == state = "OPEN" /\ since = OpenDuration /\ out = {}

Pass(c) ==
    /\ state = "CLOSED"
    /\ out' = out \cup {c}
    /\ UNCHANGED <<state, since, wins>>

Probe(c) ==
    /\ Rested \/ state = "HALF_OPEN"
    /\ Cardinality(out) < HalfOpenMaxRequests
    /\ out' = out \cup {c}
    /\ state' = "HALF_OPEN" /\ since' = 0
    /\ UNCHANGED wins

\* An attempt ends and changes nothing else.
Return(c) ==
    /\ c \in out
    /\ out' = out \ {c}
    /\ UNCHANGED <<state, since, wins>>

\* A probe succeeds; the last one needed closes the circuit.
Win(c) ==
    /\ state = "HALF_OPEN" /\ c \in out
    /\ out' = out \ {c}
    /\ \/ /\ wins + 1 < HalfOpenMaxRequests
          /\ wins' = wins + 1
          /\ UNCHANGED state
       \/ /\ wins + 1 = HalfOpenMaxRequests
          /\ wins' = 0
          /\ state' = "CLOSED"
    /\ UNCHANGED since

\* A failure opens the circuit: of an attempt in flight, or of one that could
\* not be sent, which after the rest is a probe too.
Trip(c) ==
    /\ state # "OPEN" \/ Rested
    /\ out' = out \ {c}
    /\ state' = "OPEN" /\ since' = 0 /\ wins' = 0

Rest ==
    /\ state = "OPEN" /\ since < OpenDuration
    /\ since' = since + 1
    /\ UNCHANGED <<state, out, wins>>

Next ==
    \/ \E c \in Callers : Pass(c) \/ Probe(c) \/ Return(c) \/ Win(c) \/ Trip(c)
    \/ Rest

Spec == Init /\ [][Next]_vars
=============================================================================
