---------------------------- MODULE MCMediaLease ----------------------------
(***************************************************************************)
(* A small instance of MediaLease for TLC: two renders, the second given   *)
(* one attempt; the workers are interchangeable.                           *)
(***************************************************************************)
EXTENDS MediaLease, TLC

Tries == [s \in Stages |-> IF s = 1 THEN 2 ELSE 1]
AnyWorker == Permutations(Workers)
=============================================================================
