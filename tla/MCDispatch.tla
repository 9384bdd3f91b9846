----------------------------- MODULE MCDispatch -----------------------------
(* Dispatch for TLC: requests are interchangeable.                         *)
EXTENDS Dispatch, TLC

RequestSymmetry == Permutations(Requests)
=============================================================================
