--------------------------- MODULE ClipSpeechProofs ---------------------------
(***************************************************************************)
(* Theorems about ClipSpeech, for every set of runs, number of segments    *)
(* and number of restarts.                                                 *)
(***************************************************************************)
EXTENDS ClipSpeech, TLAPS

-----------------------------------------------------------------------------
(* The inductive invariant. *)

\* What a process is doing dies with it, and the boot starts from rows alone.
\* A worker's job is running; a hook follows the end of its job.
ProcessInv ==
    /\ phase # "up" => wk = NoRun /\ hooks = {} /\ \A r \in Runs : start[r] = "idle"
    /\ wk.pc # "idle" => wk.run \in Runs /\ status[wk.run] = "running"
    /\ phase = "sweep" => \A r \in Runs : ~Incomplete(r)

\* A call that was never claimed was never issued, and a claimed call is on its
\* way to its one issue.
PaidInv ==
    /\ \A r \in Runs, i \in Calls : call[r][i] \in {"none", "reserved"} => issued[r][i] = 0
    /\ PaidOnce
    /\ wk.pc = "issue" => /\ issued[wk.run][wk.at] = 0
                          /\ call[wk.run][wk.at] \notin {"none", "reserved"}

\* The worker has issued every call before the one it is at, and that one too
\* once it has an answer.
ProgressInv ==
    /\ wk.pc # "idle" => \A i \in Calls : i < wk.at => issued[wk.run][i] = 1
    /\ wk.pc \in {"received", "publish"} => issued[wk.run][wk.at] = 1
    /\ wk.pc = "succeed" => \A i \in Calls : issued[wk.run][i] = 1
    /\ DoneIsComplete

IInv == TypeOK /\ ProcessInv /\ PaidInv /\ ProgressInv

\* Nothing has happened before the first start.
LEMMA InitIInv == Init => IInv
  <1> SUFFICES ASSUME Init PROVE IInv
    OBVIOUS
  <1>1. TypeOK
    BY SpeechAssumption DEF Init, TypeOK, CallState, Terminal, NoRun, Calls
  <1>2. ProcessInv /\ PaidInv /\ ProgressInv
    BY DEF Init, ProcessInv, PaidInv, PaidOnce, ProgressInv, DoneIsComplete, NoRun
  <1> QED
    BY <1>1, <1>2 DEF IInv

-----------------------------------------------------------------------------
(* What the journal's writes do to a call. *)

\* No edge leads back to a call that may be issued, or into an unknown state.
LEMMA Edges ==
    ASSUME NEW c \in CallState, NEW n \in CallState \ {"none", "reserved"}
    PROVE  Moved(c, n) \in CallState /\ (Moved(c, n) \in {"none", "reserved"} => Moved(c, n) = c)
  BY DEF Moved, CallState, Open

\* So recording an answer and closing a run leave no call claimable that was
\* not so before.
Keeps(c) == c \in [Runs -> [Calls -> CallState]]
            /\ \A r \in Runs, i \in Calls : c[r][i] \in {"none", "reserved"} => call[r][i] \in {"none", "reserved"}

LEMMA RecordedKeeps ==
    ASSUME TypeOK, NEW r \in Runs, NEW i \in Calls, NEW n \in CallState \ {"none", "reserved"}
    PROVE  Keeps(Recorded(r, i, n))
  <1>1. call \in [Runs -> [Calls -> CallState]] /\ call[r][i] \in CallState
    BY DEF TypeOK
  <1>2. Recorded(r, i, n) = [call EXCEPT ![r] = [call[r] EXCEPT ![i] = Moved(call[r][i], n)]]
    BY <1>1 DEF Recorded
  <1>3. Moved(call[r][i], n) \in CallState
        /\ (Moved(call[r][i], n) \in {"none", "reserved"} => Moved(call[r][i], n) = call[r][i])
    BY <1>1, Edges
  <1> QED
    BY <1>1, <1>2, <1>3 DEF Keeps

LEMMA ClosedKeeps ==
    ASSUME TypeOK, NEW r \in Runs, NEW n \in CallState \ {"none", "reserved"}
    PROVE  Keeps(Closed(r, n))
  <1>1. call \in [Runs -> [Calls -> CallState]]
    BY DEF TypeOK
  <1>2. \A i \in Calls : LET m == Moved(Moved(call[r][i], "obsolete"), n) IN
                         m \in CallState /\ (m \in {"none", "reserved"} => m = call[r][i])
    <2> SUFFICES ASSUME NEW i \in Calls
                 PROVE  LET m == Moved(Moved(call[r][i], "obsolete"), n) IN
                        m \in CallState /\ (m \in {"none", "reserved"} => m = call[r][i])
      OBVIOUS
    <2>1. "obsolete" \in CallState \ {"none", "reserved"} /\ call[r][i] \in CallState
      BY <1>1 DEF CallState
    <2> QED
      BY <2>1, Edges
  <1> QED
    BY <1>1, <1>2 DEF Closed, Keeps

LEMMA ReservedKeeps ==
    ASSUME TypeOK, NEW r \in Runs PROVE Keeps(Reserved(r))
  BY DEF TypeOK, CallState, Open, Reserved, Keeps

\* Each step keeps the calls that were claimed claimed.
LEMMA CallsStep ==
    ASSUME IInv, Next
    PROVE  /\ call' \in [Runs -> [Calls -> CallState]]
           /\ \A r \in Runs, i \in Calls : call'[r][i] \in {"none", "reserved"} => call[r][i] \in {"none", "reserved"}
  <1> DEFINE Goal == /\ call' \in [Runs -> [Calls -> CallState]]
                     /\ \A r \in Runs, i \in Calls : call'[r][i] \in {"none", "reserved"} => call[r][i] \in {"none", "reserved"}
  <1>0. TypeOK /\ call \in [Runs -> [Calls -> CallState]] /\ wk.at \in Calls /\ (wk.pc # "idle" => wk.run \in Runs)
    BY DEF IInv, TypeOK, ProcessInv
  <1>1. ASSUME UNCHANGED call PROVE Goal
    BY <1>0, <1>1
  <1>2. ASSUME NEW c, Keeps(c), call' = c PROVE Goal
    BY <1>2 DEF Keeps
  <1>3. {"received", "failed", "published", "obsolete", "cancelled", "unresolved"} \subseteq CallState \ {"none", "reserved"}
    BY DEF CallState, Open
  <1>4. ASSUME NEW r \in Runs, Starting(r) \/ StopRun(r) \/ PickRun(r) \/ TerminalHook(r) PROVE Goal
    BY <1>0, <1>1, <1>2, <1>3, <1>4, ReservedKeeps, ClosedKeeps DEF Starting, ReserveRun, EnqueueRun, StartFails, BindRun,
       ActivateRun, StopRun, PickRun, TerminalHook, rows
  <1>5. CASE Working
    <2>1. CASE ClaimCall
      <3>1. wk.run \in Runs /\ call' = [call EXCEPT ![wk.run][wk.at] = "claimed"]
        BY <1>0, <2>1 DEF ClaimCall
      <3> QED
        BY <1>0, <3>1 DEF CallState, Open
    <2>2. CASE ClaimRefused \/ IssueCall \/ EndRun
      BY <1>1, <2>2 DEF ClaimRefused, IssueCall, EndRun, rows
    <2>3. ASSUME NEW n \in {"received", "failed", "published", "obsolete"}, wk.pc # "idle",
                 call' \in {call, Recorded(wk.run, wk.at, n)}
          PROVE  Goal
      BY <1>0, <1>1, <1>2, <1>3, <2>3, RecordedKeeps
    <2> QED
      BY <1>5, <2>1, <2>2, <2>3 DEF Working, RecordAnswer, PublishAsset, PublishRefused
  <1>6. CASE Booting
    BY <1>0, <1>1, <1>2, <1>3, <1>6, ReservedKeeps, ClosedKeeps DEF Booting, Recovered, SweepJobs, RecoverBind, RecoverRun, rows
  <1>7. CASE Crash
    BY <1>1, <1>7 DEF Crash, rows
  <1> QED
    BY <1>4, <1>5, <1>6, <1>7 DEF Next

\* A call is issued by the worker that claimed it, and by nobody else.
LEMMA IssuedStep ==
    ASSUME IInv, Next
    PROVE  \/ UNCHANGED issued
           \/ /\ wk.pc = "issue" /\ issued' = [issued EXCEPT ![wk.run][wk.at] = 1] /\ UNCHANGED <<call, status>>
              /\ wk'.pc \in {"received", "failed"} /\ wk'.run = wk.run /\ wk'.at = wk.at
  <1>1. CASE IssueCall
    <2>1. wk.run \in Runs /\ issued[wk.run][wk.at] = 0 /\ issued \in [Runs -> [Calls -> 0..2]] /\ wk.at \in Calls
      BY <1>1 DEF IssueCall, IInv, PaidInv, TypeOK, ProcessInv
    <2>2. PICK pc \in {"received", "failed"} : wk' = [wk EXCEPT !.pc = pc]
      BY <1>1 DEF IssueCall
    <2>3. wk'.pc = pc /\ wk'.run = wk.run /\ wk'.at = wk.at
      BY <2>2 DEF IInv, TypeOK
    <2> QED
      BY <1>1, <2>1, <2>3 DEF IssueCall, rows
  <1>2. CASE Working /\ ~IssueCall
    BY <1>2 DEF Working, ClaimCall, ClaimRefused, RecordAnswer, PublishAsset, PublishRefused, EndRun
  <1>3. ASSUME NEW r \in Runs, Starting(r) \/ StopRun(r) \/ PickRun(r) \/ TerminalHook(r) PROVE UNCHANGED issued
    BY <1>3 DEF Starting, ReserveRun, EnqueueRun, StartFails, BindRun, ActivateRun, StopRun, PickRun, TerminalHook
  <1>4. CASE Booting \/ Crash
    BY <1>4 DEF Booting, Recovered, SweepJobs, RecoverBind, RecoverRun, Crash
  <1> QED
    BY <1>1, <1>2, <1>3, <1>4 DEF Next

\* The types are kept.
LEMMA TypeStep == ASSUME IInv, Next PROVE TypeOK'
  <1>0. TypeOK /\ (wk.pc # "idle" => wk.run \in Runs) /\ wk.at \in Calls
    BY DEF IInv, ProcessInv, TypeOK
  <1>1. call' \in [Runs -> [Calls -> CallState]]
    BY CallsStep
  <1>2. issued' \in [Runs -> [Calls -> 0..2]]
    <2>1. issued \in [Runs -> [Calls -> 0..2]] /\ 1 \in 0..2
      BY <1>0 DEF TypeOK
    <2>2. ASSUME wk.pc = "issue", issued' = [issued EXCEPT ![wk.run][wk.at] = 1] PROVE issued' \in [Runs -> [Calls -> 0..2]]
      BY <1>0, <2>1, <2>2
    <2> QED
      BY <2>1, <2>2, IssuedStep
  <1> DEFINE Rows == /\ status' \in [Runs -> {"absent", "queued", "running"} \cup Terminal]
                     /\ journal' \in [Runs -> {"none", "reserved", "bound"}]
                     /\ ready' \in [Runs -> BOOLEAN] /\ stop' \in [Runs -> BOOLEAN]
                     /\ start' \in [Runs -> {"idle", "enqueue", "bind", "activate"}]
                     /\ hooks' \subseteq Runs /\ phase' \in {"recover", "sweep", "up"} /\ boots' \in 0..MaxBoots
             At   == wk' \in [pc : {"idle", "claim", "issue", "received", "failed", "publish", "obsolete", "fail", "succeed"},
                              run : Runs \cup {"none"}, at : Calls]
  <1>3. Rows
    <2>1. ASSUME NEW r \in Runs, Starting(r) PROVE Rows
      BY <1>0, <2>1 DEF TypeOK, Starting, ReserveRun, EnqueueRun, StartFails, BindRun, ActivateRun, Bound, Ended, rows
    <2>2. ASSUME NEW r \in Runs, StopRun(r) PROVE Rows
      BY <1>0, <2>2 DEF TypeOK, StopRun, Ended, Terminal
    <2>6. ASSUME NEW r \in Runs, PickRun(r) \/ TerminalHook(r) PROVE Rows
      BY <1>0, <2>6 DEF TypeOK, PickRun, TerminalHook, Ended
    <2>3. CASE Working
      BY <1>0, <2>3 DEF TypeOK, Working, ClaimCall, ClaimRefused, IssueCall, RecordAnswer, PublishAsset, PublishRefused,
         EndRun, Ended, Terminal, rows
    <2>4. CASE Booting
      BY ZenonT(60), <1>0, <2>4 DEF TypeOK, Booting, Recovered, SweepJobs, RecoverBind, RecoverRun, Bound, Ended, Terminal, rows
    <2>5. CASE Crash
      BY <1>0, <2>5, SpeechAssumption DEF TypeOK, Crash, rows
    <2> QED
      BY <2>1, <2>2, <2>3, <2>4, <2>5, <2>6 DEF Next
  <1>4. At
    <2>1. ASSUME NEW r \in Runs, Starting(r) \/ StopRun(r) \/ PickRun(r) \/ TerminalHook(r) PROVE At
      BY <1>0, <2>1, SpeechAssumption DEF TypeOK, Starting, ReserveRun, EnqueueRun, StartFails, BindRun, ActivateRun,
         StopRun, PickRun, TerminalHook, Calls
    <2>2. CASE PublishAsset
      <3>1. ~IsLast(wk.at) => wk.at + 1 \in Calls
        BY <1>0, SpeechAssumption DEF IsLast, Calls
      <3>2. wk' = [wk EXCEPT !.pc = "succeed"]
            \/ (wk.at + 1 \in Calls /\ wk' = [[wk EXCEPT !.pc = "claim"] EXCEPT !.at = wk.at + 1])
        BY <1>0, <2>2, <3>1 DEF PublishAsset, TypeOK
      <3> QED
        BY <1>0, <3>2 DEF TypeOK
    <2>3. ASSUME NEW pc \in {"issue", "fail", "received", "failed", "publish"}, wk' = [wk EXCEPT !.pc = pc] PROVE At
      BY <1>0, <2>3 DEF TypeOK
    <2>5. CASE EndRun
      BY <2>5, SpeechAssumption DEF EndRun, NoRun, Calls
    <2>6. CASE Working /\ ~PublishAsset /\ ~EndRun
      BY <2>3, <2>6 DEF Working, ClaimCall, ClaimRefused, IssueCall, RecordAnswer, AfterAnswer, PublishRefused
    <2>4. CASE Booting \/ Crash
      BY <1>0, <2>4, SpeechAssumption DEF TypeOK, Booting, Recovered, SweepJobs, RecoverBind, RecoverRun, Crash, NoRun, Calls
    <2> QED
      BY <2>1, <2>2, <2>4, <2>5, <2>6 DEF Next
  <1> QED
    BY <1>1, <1>2, <1>3, <1>4 DEF TypeOK

\* Until it serves, the process does nothing but boot.
LEMMA BootAlone == ASSUME IInv, Next, phase # "up" PROVE Booting \/ Crash
  <1>0. wk.pc = "idle" /\ hooks = {} /\ \A r \in Runs : start[r] = "idle"
    BY DEF IInv, ProcessInv, NoRun
  <1>1. ~Working
    BY <1>0 DEF Working, ClaimCall, ClaimRefused, IssueCall, RecordAnswer, PublishAsset, PublishRefused, EndRun
  <1>2. ASSUME NEW r \in Runs, Starting(r) \/ StopRun(r) \/ PickRun(r) \/ TerminalHook(r) PROVE FALSE
    BY <1>0, <1>2 DEF Starting, ReserveRun, EnqueueRun, StartFails, BindRun, ActivateRun, StopRun, PickRun, TerminalHook
  <1> QED
    BY <1>1, <1>2 DEF Next

\* What the process does, it does for a running job.
LEMMA ProcessStep == ASSUME IInv, Next PROVE ProcessInv'
  <1>0. /\ ProcessInv /\ status \in [Runs -> {"absent", "queued", "running"} \cup Terminal]
        /\ wk \in [pc : {"idle", "claim", "issue", "received", "failed", "publish", "obsolete", "fail", "succeed"},
                   run : Runs \cup {"none"}, at : Calls]
    BY DEF IInv, TypeOK
  <1>1. CASE Crash
    BY <1>1 DEF Crash, ProcessInv, NoRun
  <1>2. CASE Booting
    <2>1. phase # "up" /\ UNCHANGED <<wk, hooks, start>>
      BY <1>2 DEF Booting, Recovered, SweepJobs, RecoverBind, RecoverRun
    <2>2. ASSUME phase' = "sweep" PROVE \A r \in Runs : ~Incomplete(r)'
      <3>1. Recovered
        BY <1>2, <2>2 DEF Booting, Recovered, SweepJobs, RecoverBind, RecoverRun
      <3> QED
        BY <3>1 DEF Recovered, rows, Incomplete
    <2> QED
      BY <1>0, <2>1, <2>2 DEF ProcessInv, NoRun
  <1>3. ASSUME NEW r \in Runs, Starting(r) \/ StopRun(r) \/ PickRun(r) \/ TerminalHook(r) PROVE ProcessInv'
    <2>1. phase = "up" /\ phase' = "up"
      BY <1>3, BootAlone DEF Booting, Recovered, SweepJobs, RecoverBind, RecoverRun, Crash, Next, ProcessInv, IInv,
         Starting, ReserveRun, EnqueueRun, StartFails, BindRun, ActivateRun, StopRun, PickRun, TerminalHook
    <2>2. CASE PickRun(r)
      BY <1>0, <2>1, <2>2 DEF PickRun, Ended, ProcessInv
    <2>3. CASE EnqueueRun(r)
      <3>1. UNCHANGED wk /\ (wk.pc # "idle" => FALSE)
        BY <1>0, <2>3 DEF EnqueueRun, Active, ProcessInv
      <3> QED
        BY <2>1, <3>1 DEF ProcessInv
    <2>4. CASE StopRun(r)
      <3>1. UNCHANGED wk /\ (status[r] = "queued" \/ UNCHANGED status) /\ status' \in {status, Ended(r, "cancelled")}
        BY <2>4 DEF StopRun
      <3> QED
        BY <1>0, <2>1, <3>1 DEF Ended, ProcessInv
    <2>5. CASE UNCHANGED <<wk, status>>
      BY <1>0, <2>1, <2>5 DEF ProcessInv
    <2> QED
      BY <1>3, <2>2, <2>3, <2>4, <2>5 DEF Starting, ReserveRun, StartFails, BindRun, ActivateRun, TerminalHook, rows
  <1>4. CASE Working
    <2>1. phase = "up" /\ phase' = "up"
      BY <1>0, <1>4 DEF Working, ClaimCall, ClaimRefused, IssueCall, RecordAnswer, PublishAsset, PublishRefused, EndRun,
         ProcessInv, NoRun
    <2>2. CASE EndRun
      BY <2>1, <2>2 DEF EndRun, NoRun, ProcessInv
    <2>3. CASE wk'.run = wk.run /\ UNCHANGED status /\ wk.pc # "idle"
      BY <1>0, <2>1, <2>3 DEF ProcessInv
    <2>4. ASSUME NEW pc, wk' = [wk EXCEPT !.pc = pc] \/ wk' = [wk EXCEPT !.pc = pc, !.at = wk.at + 1] PROVE wk'.run = wk.run
      BY <1>0, <2>4
    <2> QED
      BY <1>4, <2>2, <2>3, <2>4 DEF Working, ClaimCall, ClaimRefused, IssueCall, RecordAnswer, PublishAsset, PublishRefused, rows
  <1> QED
    BY <1>1, <1>2, <1>3, <1>4 DEF Next

\* What is claimed is issued once.
LEMMA PaidStep == ASSUME IInv, Next PROVE PaidInv'
  <1>0. /\ PaidInv /\ issued \in [Runs -> [Calls -> 0..2]] /\ wk.at \in Calls
        /\ wk.pc # "idle" => wk.run \in Runs
        /\ \A r \in Runs, i \in Calls : call'[r][i] \in {"none", "reserved"} => call[r][i] \in {"none", "reserved"}
    BY CallsStep DEF IInv, TypeOK, ProcessInv
  <1>1. CASE wk.pc = "issue" /\ issued' = [issued EXCEPT ![wk.run][wk.at] = 1] /\ UNCHANGED <<call, status>>
             /\ wk'.pc \in {"received", "failed"}
    BY <1>0, <1>1 DEF PaidInv, PaidOnce
  <1>2. CASE UNCHANGED issued
    <2>1. ASSUME wk'.pc = "issue" PROVE issued[wk'.run][wk'.at] = 0 /\ call'[wk'.run][wk'.at] \notin {"none", "reserved"}
      <3>1. CASE UNCHANGED wk
        BY <1>0, <2>1, <3>1 DEF PaidInv
      <3>2. CASE ClaimCall
        <4>1. wk'.run = wk.run /\ wk'.at = wk.at /\ wk.run \in Runs
              /\ call' = [call EXCEPT ![wk.run][wk.at] = "claimed"] /\ call[wk.run][wk.at] = "reserved"
          BY <1>0, <3>2 DEF ClaimCall, Claimable, IInv, TypeOK
        <4> QED
          BY <1>0, <4>1 DEF PaidInv, IInv, TypeOK
      <3>3. CASE Working /\ ~ClaimCall
        <4>1. ASSUME NEW pc \in {"fail", "received", "failed", "publish", "succeed"}, wk' = [wk EXCEPT !.pc = pc] PROVE wk'.pc # "issue"
          BY <4>1 DEF IInv, TypeOK
        <4>2. ASSUME PublishAsset PROVE wk'.pc # "issue"
          BY <4>2 DEF PublishAsset, IInv, TypeOK
        <4> QED
          BY <2>1, <3>3, <4>1, <4>2 DEF Working, ClaimRefused, IssueCall, RecordAnswer, AfterAnswer, PublishRefused, EndRun, NoRun
      <3>4. ASSUME NEW r \in Runs, Starting(r) \/ StopRun(r) \/ PickRun(r) \/ TerminalHook(r)
            PROVE  UNCHANGED wk
        BY <2>1, <3>4 DEF Starting, ReserveRun, EnqueueRun, StartFails, BindRun, ActivateRun, StopRun, PickRun, TerminalHook
      <3>5. CASE Booting \/ Crash
        BY <2>1, <3>1, <3>5 DEF Booting, Recovered, SweepJobs, RecoverBind, RecoverRun, Crash, NoRun
      <3> QED
        BY <3>1, <3>2, <3>3, <3>4, <3>5 DEF Next
    <2> QED
      BY <1>0, <1>2, <2>1 DEF PaidInv, PaidOnce
  <1> QED
    BY <1>1, <1>2, IssuedStep

\* The worker leaves no call behind it.
LEMMA ProgressStep == ASSUME IInv, Next PROVE ProgressInv'
  <1>0. /\ ProgressInv /\ issued \in [Runs -> [Calls -> 0..2]] /\ wk.at \in Calls
        /\ wk.pc # "idle" => wk.run \in Runs /\ status[wk.run] = "running"
        /\ status \in [Runs -> {"absent", "queued", "running"} \cup Terminal]
        /\ wk \in [pc : {"idle", "claim", "issue", "received", "failed", "publish", "obsolete", "fail", "succeed"},
                   run : Runs \cup {"none"}, at : Calls]
        /\ \A r \in Runs, i \in Calls : issued[r][i] = 1 => issued'[r][i] = 1
    BY SMTT(30), IssuedStep DEF IInv, TypeOK, ProcessInv
  <1> DEFINE Work == /\ wk'.pc # "idle" => \A i \in Calls : i < wk'.at => issued'[wk'.run][i] = 1
                     /\ wk'.pc \in {"received", "publish"} => issued'[wk'.run][wk'.at] = 1
                     /\ wk'.pc = "succeed" => \A i \in Calls : issued'[wk'.run][i] = 1
  <1>1. CASE UNCHANGED wk
    <2>1. Work
      BY <1>0, <1>1 DEF ProgressInv
    <2>2. \A r \in Runs : status'[r] = "done" => status[r] = "done"
      <3>1. ASSUME NEW r \in Runs, Starting(r) \/ StopRun(r) \/ PickRun(r) \/ TerminalHook(r)
            PROVE  \A q \in Runs : status'[q] = "done" => status[q] = "done"
        BY <1>0, <3>1 DEF Starting, ReserveRun, EnqueueRun, StartFails, BindRun, ActivateRun, StopRun, PickRun, TerminalHook,
           Ended, rows
      <3>2. CASE Booting
        BY <1>0, <3>2 DEF Booting, Recovered, SweepJobs, RecoverBind, RecoverRun, Ended, rows
      <3>3. CASE Crash
        BY <3>3 DEF Crash, rows
      <3>4. ~EndRun
        BY <1>1 DEF EndRun, NoRun
      <3>5. CASE Working /\ ~EndRun
        BY <3>5 DEF Working, ClaimCall, ClaimRefused, IssueCall, RecordAnswer, PublishAsset, PublishRefused, rows
      <3> QED
        BY <3>1, <3>2, <3>3, <3>4, <3>5 DEF Next
    <2> QED
      BY <1>0, <2>1, <2>2 DEF ProgressInv, DoneIsComplete
  <1>2. ASSUME UNCHANGED status, Work PROVE ProgressInv'
    BY <1>0, <1>2 DEF ProgressInv, DoneIsComplete
  <1>3. CASE Working /\ ~EndRun /\ ~PublishAsset /\ ~IssueCall
    <2>1. PICK pc \in {"issue", "fail", "publish"} : wk' = [wk EXCEPT !.pc = pc] /\ (pc = "publish" => wk.pc = "received")
      BY <1>3 DEF Working, ClaimCall, ClaimRefused, RecordAnswer, AfterAnswer, PublishRefused
    <2>2. wk'.pc = pc /\ wk'.run = wk.run /\ wk'.at = wk.at /\ wk.pc # "idle" /\ UNCHANGED status
      BY <1>0, <1>3, <2>1 DEF Working, ClaimCall, ClaimRefused, RecordAnswer, PublishRefused, rows
    <2>3. Work
      BY <1>0, <2>1, <2>2 DEF ProgressInv
    <2> QED
      BY <1>2, <2>2, <2>3
  <1>4. CASE IssueCall
    <2>1. /\ wk'.run = wk.run /\ wk'.at = wk.at /\ wk'.pc \in {"received", "failed"} /\ UNCHANGED status
          /\ wk.pc = "issue" /\ issued'[wk.run][wk.at] = 1
      <3>1. issued[wk.run][wk.at] = 0 /\ wk.run \in Runs
        BY <1>0, <1>4 DEF IssueCall, IInv, PaidInv
      <3> QED
        BY <1>0, <1>4, <3>1 DEF IssueCall, rows
    <2>2. Work
      BY <1>0, <2>1 DEF ProgressInv
    <2> QED
      BY <1>2, <2>1, <2>2
  <1>5. CASE PublishAsset
    <2>0. wk.pc = "publish" /\ UNCHANGED status /\ (\A i \in Calls : i <= wk.at => issued'[wk.run][i] = 1)
      BY <1>0, <1>5 DEF PublishAsset, ProgressInv, Calls
    <2>1. CASE IsLast(wk.at)
      <3>1. wk'.pc = "succeed" /\ wk'.run = wk.run /\ wk'.at = wk.at
        BY <1>0, <1>5, <2>1 DEF PublishAsset
      <3>2. Work
        BY <2>0, <2>1, <3>1 DEF IsLast, Calls
      <3> QED
        BY <1>2, <2>0, <3>2
    <2>2. CASE ~IsLast(wk.at)
      <3>1. wk'.pc = "claim" /\ wk'.run = wk.run /\ wk'.at = wk.at + 1
        BY <1>0, <1>5, <2>2 DEF PublishAsset
      <3>2. Work
        BY <1>0, <2>0, <3>1 DEF Calls
      <3> QED
        BY <1>2, <2>0, <3>2
    <2> QED
      BY <2>1, <2>2
  <1>6. CASE EndRun
    <2>1. Work
      BY <1>6 DEF EndRun, NoRun
    <2>2. \A r \in Runs : status'[r] = "done" => status[r] = "done" \/ (r = wk.run /\ wk.pc = "succeed")
      BY <1>0, <1>6 DEF EndRun, Ended
    <2> QED
      BY <1>0, <2>1, <2>2 DEF ProgressInv, DoneIsComplete
  <1>7. ASSUME NEW r \in Runs, PickRun(r) PROVE ProgressInv'
    <2>1. Work
      BY <1>7 DEF PickRun, Calls
    <2>2. \A q \in Runs : status'[q] = "done" => status[q] = "done"
      BY <1>0, <1>7 DEF PickRun, Ended
    <2> QED
      BY <1>0, <2>1, <2>2 DEF ProgressInv, DoneIsComplete
  <1>8. CASE Crash
    <2>1. Work /\ UNCHANGED status
      BY <1>8 DEF Crash, NoRun, rows
    <2> QED
      BY <1>2, <2>1
  <1>9. ASSUME NEW r \in Runs, Starting(r) \/ StopRun(r) \/ TerminalHook(r) PROVE UNCHANGED wk
    BY <1>9 DEF Starting, ReserveRun, EnqueueRun, StartFails, BindRun, ActivateRun, StopRun, TerminalHook
  <1>10. CASE Booting
    BY <1>1, <1>10 DEF Booting, Recovered, SweepJobs, RecoverBind, RecoverRun
  <1> QED
    BY <1>1, <1>3, <1>4, <1>5, <1>6, <1>7, <1>8, <1>9, <1>10 DEF Next

-----------------------------------------------------------------------------
(* The theorems. *)

\* The invariant holds in every reachable state.
THEOREM Invariance == Spec => []IInv
  <1>1. IInv /\ UNCHANGED vars => IInv'
    BY DEF IInv, TypeOK, ProcessInv, Incomplete, PaidInv, PaidOnce, ProgressInv, DoneIsComplete, vars
  <1>2. IInv /\ [Next]_vars => IInv'
    BY <1>1, TypeStep, ProcessStep, PaidStep, ProgressStep DEF IInv
  <1> QED
    BY <1>2, InitIInv, PTL DEF Spec

\* The rows, the starts and the worker keep their types.
THEOREM TypeCorrect == Spec => []TypeOK
  <1>1. IInv => TypeOK
    BY DEF IInv
  <1> QED
    BY <1>1, Invariance, PTL

\* No paid call is issued twice, whatever was interrupted: a claim is never
\* taken back, and only a claimed call is issued (ClaimSpeechCall).
THEOREM CallsArePaidOnce == Spec => []PaidOnce
  <1>1. IInv => PaidOnce
    BY DEF IInv, PaidInv
  <1> QED
    BY <1>1, Invariance, PTL

\* A run that ended well issued every one of its calls.
THEOREM DoneRunsAreComplete == Spec => []DoneIsComplete
  <1>1. IInv => DoneIsComplete
    BY DEF IInv, ProgressInv
  <1> QED
    BY <1>1, Invariance, PTL

\* Serving starts again with no call of an ended run left open: Recover closed
\* them all, and the sweep after it ends only jobs that were never activated.
THEOREM BootsCloseCalls == Spec => BootClosesCalls
  <1>1. ASSUME IInv, Next, phase = "sweep", phase' = "up", NEW r \in Runs, journal[r] = "bound", status'[r] \in Terminal,
               NEW i \in Calls
        PROVE  call'[r][i] \notin Open
    <2>1. SweepJobs
      BY <1>1, BootAlone DEF Booting, Recovered, RecoverBind, RecoverRun, Crash
    <2>2. ~Incomplete(r)
      BY <1>1 DEF IInv, ProcessInv
    <2> QED
      BY <1>1, <2>1, <2>2 DEF SweepJobs, Incomplete, Terminal, IInv, TypeOK
  <1>2. IInv /\ [Next]_vars =>
          [phase = "sweep" /\ phase' = "up" =>
             \A r \in Runs : journal[r] = "bound" /\ status'[r] \in Terminal =>
                 \A i \in Calls : call'[r][i] \notin Open]_vars
    BY <1>1
  <1> QED
    BY <1>2, Invariance, PTL DEF Spec, BootClosesCalls
=============================================================================
