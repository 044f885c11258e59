----------------------------- MODULE MCJobQueue -----------------------------
(***************************************************************************)
(* Small instances of JobQueue for TLC: who the jobs are.                  *)
(***************************************************************************)
EXTENDS JobQueue

CONSTANTS clip, other

\* A clip start and a start of another kind, on subjects of their own.
ClipAndPlain == [j \in Jobs |-> IF j = clip THEN "clip" ELSE "plain"]
Apart        == [j \in Jobs |-> j]
\* A clip start and a deferred one that compete for one subject.
ClipAndTest  == [j \in Jobs |-> IF j = clip THEN "clip" ELSE "test"]
Together     == [j \in Jobs |-> clip]
=============================================================================
