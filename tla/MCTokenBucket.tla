--------------------------- MODULE MCTokenBucket ----------------------------
(* TokenBucket for TLC.                                                    *)
EXTENDS TokenBucket, TLC

\* Requests are interchangeable.
RequestSymmetry == Permutations(Requests)
=============================================================================
