------------------------------- MODULE MCChain -------------------------------
(***************************************************************************)
(* Constants of the run of Chain.                                          *)
(***************************************************************************)
EXTENDS Chain, TLC

CONSTANTS a, b, c, d, e

FiveIds == {a, b, c, d, e}

\* Nothing compares or orders two job ids.
IdSymmetry == Permutations(Ids)
=============================================================================
