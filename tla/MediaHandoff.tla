---------------------------- MODULE MediaHandoff ----------------------------
(***************************************************************************)
(* What leased media execution promises the jobs that wait for it          *)
(* (ARCH-49 to ARCH-51): a stage is executed by one worker at a time and   *)
(* renders by no more than Active of them; it publishes at most one result,*)
(* of an execution that is over; and its job is told once, when no worker  *)
(* is left at it and none will start.                                      *)
(***************************************************************************)
EXTENDS Naturals, FiniteSets

CONSTANTS
    Stages,
    Renders,  \* stages that count against the render capacity
    Workers,
    Active,   \* renders executed at once
    Executions

VARIABLES
    busy,    \* busy[s]: the workers executing the stage
    result,  \* result[s]: the execution whose result is published, or 0
    told     \* told[s]: its job has gone on or has ended

vars == <<busy, result, told>>

Init ==
    /\ busy   = [s \in Stages |-> {}]
    /\ result = [s \in Stages |-> 0]
    /\ told   = [s \in Stages |-> FALSE]

Alone(S) == S = {} \/ \E w \in Workers : S = {w}

\* No more than one worker at a stage, no worker at two, and no more renders
\* than the capacity.
Bounded ==
    /\ \A s \in Stages : Alone(busy[s])
    /\ \A s, k \in Stages : s # k => busy[s] \cap busy[k] = {}
    /\ Cardinality({s \in Renders : busy[s] # {}}) <= Active

\* An execution starts only while nobody is at the stage, nothing is published
\* and the job waits; it may stop at any time.
BusyMoves(s) ==
    \/ busy'[s] = busy[s]
    \/ busy'[s] = {}
    \/ busy[s] = {} /\ result[s] = 0 /\ ~told[s]

\* A result is published once, and the job is told with it.
ResultMoves(s) ==
    \/ result'[s] = result[s]
    \/ result[s] = 0 /\ result'[s] \in Executions /\ ~told[s] /\ told'[s]

\* The job is told once, when nobody is at the stage any more.
ToldMoves(s) ==
    \/ told'[s] = told[s]
    \/ ~told[s] /\ busy'[s] = {}

Next == Bounded' /\ \A s \in Stages : BusyMoves(s) /\ ResultMoves(s) /\ ToldMoves(s)

Spec == Init /\ [][Next]_vars
=============================================================================
