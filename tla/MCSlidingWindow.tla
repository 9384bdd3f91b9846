-------------------------- MODULE MCSlidingWindow ---------------------------
(* SlidingWindow for TLC.                                                  *)
EXTENDS SlidingWindow, TLC

\* Requests are interchangeable.
RequestSymmetry == Permutations(Requests)
=============================================================================
