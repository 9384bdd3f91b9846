----------------------------- MODULE MCGateway ------------------------------
(* Gateway for TLC: two requests of tenant A, by different routes, and one *)
(* of tenant B, to the same backend.                                       *)
EXTENDS Gateway

CONSTANTS a1, a2, b1

MCRequests == {a1, a2, b1}

MCGates == {"global", "tenant:A", "tenant:B", "route:1", "route:2", "backend"}

MCPathOf ==
    [r \in Requests |->
        <<"global",
          IF r = b1 THEN "tenant:B" ELSE "tenant:A",
          IF r = a2 THEN "route:2" ELSE "route:1",
          "backend">>]

\* Two requests may be inside: the third queues at the global gate, behind one
\* that has been woken or not, and the second at any of the others.
MCLimit == [g \in Gates |-> IF g = "global" THEN 2 ELSE 1]
=============================================================================
