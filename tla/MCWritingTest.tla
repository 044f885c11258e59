---------------------------- MODULE MCWritingTest ----------------------------
(***************************************************************************)
(* A small writing test for TLC: its candidates are alike.                 *)
(***************************************************************************)
EXTENDS WritingTest, TLC

CandSymmetry == Permutations(Cands)
=============================================================================
