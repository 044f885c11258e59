---------------------------- MODULE JobLifecycle ----------------------------
(***************************************************************************)
(* What the queue and the ledger promise about one start, with no worker,  *)
(* continuation, crash or boot in sight.  A job is admitted, runs, and     *)
(* ends once; an owner's accepted stop decides how it ends; and the hold   *)
(* taken for it is closed at most once, with the outcome the job ended     *)
(* with.  JobQueue is shown to implement this specification.               *)
(***************************************************************************)
CONSTANT Jobs

VARIABLES
    status,   \* "absent" until the row exists, then the row's status
    stopped,  \* an owner's stop was accepted
    hold      \* "none", "open", or the outcome the hold was settled with

vars == <<status, stopped, hold>>

Terminal == {"done", "failed", "cancelled"}
Status   == {"absent", "queued", "running"} \cup Terminal
Hold     == {"none", "open"} \cup Terminal

TypeOK == /\ status  \in [Jobs -> Status]
          /\ stopped \in [Jobs -> BOOLEAN]
          /\ hold    \in [Jobs -> Hold]

Init == /\ status  = [j \in Jobs |-> "absent"]
        /\ stopped = [j \in Jobs |-> FALSE]
        /\ hold    = [j \in Jobs |-> "none"]

-----------------------------------------------------------------------------
(* What one step may do to one job. *)

\* The row moves forward only, and an ended job stays as it ended.
StatusMoves(j) ==
    \/ status'[j] = status[j]
    \/ status[j] = "absent"  /\ status'[j] = "queued"
    \/ status[j] = "queued"  /\ status'[j] \in {"running", "failed", "cancelled"}
    \/ status[j] = "running" /\ status'[j] \in Terminal

\* An accepted stop is never withdrawn, is accepted only before the end, and
\* is the only way to end cancelled.
StopMoves(j) ==
    /\ stopped[j] => stopped'[j]
    /\ stopped'[j] /\ ~stopped[j] => status[j] \in {"queued", "running"}
    /\ status'[j] \in Terminal => (status'[j] = "cancelled" <=> stopped'[j])

\* Credits are held before the end, given back when no row was ever made, and
\* settled only for a job that has ended, as it ended.
HoldMoves(j) ==
    \/ hold'[j] = hold[j]
    \/ hold[j] = "none" /\ hold'[j] = "open" /\ status[j] \in {"absent", "running"}
    \/ hold[j] = "open" /\ hold'[j] = "none" /\ status[j] = "absent"
    \/ hold[j] = "open" /\ status[j] \in Terminal /\ hold'[j] = status[j]

\* One database transaction may touch several jobs: a boot sweep ends many.
Next == /\ TypeOK'
        /\ \A j \in Jobs : StatusMoves(j) /\ StopMoves(j) /\ HoldMoves(j)

Spec == Init /\ [][Next]_vars
=============================================================================
