--------------------------- MODULE MCBreakerCalls ---------------------------
(* BreakerCalls for TLC: callers are interchangeable.                      *)
EXTENDS BreakerCalls, TLC

CallerSymmetry == Permutations(Callers)
=============================================================================
