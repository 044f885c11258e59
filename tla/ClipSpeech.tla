----------------------------- MODULE ClipSpeech -----------------------------
(***************************************************************************)
(* A paid narration run of a clip project (clip/app/speech.go): the run's  *)
(* own journal row, the deferred job that executes it, and one journal row *)
(* per paid speech call.  Start writes them in four separate commits; the  *)
(* worker claims, issues, records and publishes each call; Recover is the  *)
(* first boot step that looks at what a process left behind.               *)
(*                                                                         *)
(* The job of run r is named r: the job's payload is the run's id, and     *)
(* Recover matches the two by it.  All runs belong to one project, so the  *)
(* active-job guard allows one active job among them.                      *)
(***************************************************************************)
EXTENDS Naturals

CONSTANTS
    Runs,
    Segments,   \* the run's calls are 1..Segments, issued in that order
    MaxBoots    \* bound: restarts of the process

ASSUME SpeechAssumption == Segments \in Nat \ {0} /\ MaxBoots \in Nat

Calls    == 1..Segments
Terminal == {"done", "failed", "cancelled"}
Open     == {"reserved", "claimed", "received"}   \* ListIncompleteSpeechRuns
CallState == {"none", "published", "failed", "obsolete", "unresolved", "cancelled"} \cup Open
NoRun    == [pc |-> "idle", run |-> "none", at |-> 1]

VARIABLES
    journal,  \* the run's row: "none", "reserved" (no job id yet), "bound"
    status, ready, stop,   \* the job's row
    call,     \* call[r][i]: the state of the call's row
    issued,   \* issued[r][i]: how often the provider was asked
    start,    \* a Start call: "idle", "enqueue", "bind", "activate"
    wk,       \* the worker: what it does next, for which run and call
    hooks,    \* runs whose job ended and whose terminal hook is still to run
    phase,    \* "recover", "sweep", "up"
    boots

rows == <<journal, status, ready, stop, call>>
vars == <<journal, status, ready, stop, call, issued, start, wk, hooks, phase, boots>>

TypeOK ==
    /\ journal \in [Runs -> {"none", "reserved", "bound"}]
    /\ status  \in [Runs -> {"absent", "queued", "running"} \cup Terminal]
    /\ ready \in [Runs -> BOOLEAN] /\ stop \in [Runs -> BOOLEAN]
    /\ call    \in [Runs -> [Calls -> CallState]]
    /\ issued  \in [Runs -> [Calls -> 0..2]]
    /\ start   \in [Runs -> {"idle", "enqueue", "bind", "activate"}]
    /\ wk      \in [pc : {"idle", "claim", "issue", "received", "failed", "publish",
                          "obsolete", "fail", "succeed"},
                    run : Runs \cup {"none"}, at : Calls]
    /\ hooks \subseteq Runs /\ phase \in {"recover", "sweep", "up"} /\ boots \in 0..MaxBoots

Init ==
    /\ journal = [r \in Runs |-> "none"]
    /\ status  = [r \in Runs |-> "absent"]
    /\ ready = [r \in Runs |-> FALSE] /\ stop = [r \in Runs |-> FALSE]
    /\ call    = [r \in Runs |-> [i \in Calls |-> "none"]]
    /\ issued  = [r \in Runs |-> [i \in Calls |-> 0]]
    /\ start   = [r \in Runs |-> "idle"]
    /\ wk = NoRun /\ hooks = {} /\ phase = "recover" /\ boots = 0

Active(r) == status[r] \in {"queued", "running"}
Ended(r, s) == [status EXCEPT ![r] = s]

\* FinishSpeechCall: one row moves along an allowed edge, or nothing happens.
Edge == {<<"reserved", "failed">>, <<"reserved", "cancelled">>, <<"reserved", "unresolved">>,
         <<"claimed", "received">>, <<"claimed", "failed">>, <<"claimed", "cancelled">>,
         <<"claimed", "unresolved">>, <<"received", "published">>, <<"received", "obsolete">>}
Moved(c, next)  == IF <<c, next>> \in Edge THEN next ELSE c
Recorded(r, i, next) == [call EXCEPT ![r][i] = Moved(@, next)]
\* What the terminal hook and Recover do to every call of a run.
Closed(r, next) == [call EXCEPT ![r] = [i \in Calls |-> Moved(Moved(@[i], "obsolete"), next)]]

-----------------------------------------------------------------------------
(* Start: journal the run, enqueue its job, bind the two, activate. *)

ReserveRun(r) ==
    /\ phase = "up" /\ journal[r] = "none"
    /\ journal' = [journal EXCEPT ![r] = "reserved"]
    /\ start'   = [start EXCEPT ![r] = "enqueue"]
    /\ UNCHANGED <<status, ready, stop, call, issued, wk, hooks, phase, boots>>

EnqueueRun(r) ==
    /\ start[r] = "enqueue" /\ \A q \in Runs : ~Active(q)
    /\ status' = Ended(r, "queued")
    /\ start'  = [start EXCEPT ![r] = "bind"]
    /\ UNCHANGED <<journal, ready, stop, call, issued, wk, hooks, phase, boots>>

\* Any of the calls may be refused or time out: Start returns the error.
StartFails(r) ==
    /\ start[r] # "idle"
    /\ start' = [start EXCEPT ![r] = "idle"]
    /\ UNCHANGED <<rows, issued, wk, hooks, phase, boots>>

Bound(r)    == [journal EXCEPT ![r] = "bound"]
Reserved(r) == [call EXCEPT ![r] = [i \in Calls |-> IF @[i] = "none" THEN "reserved" ELSE @[i]]]

BindRun(r) ==
    /\ start[r] = "bind"
    /\ journal' = Bound(r) /\ call' = Reserved(r)
    /\ start'   = [start EXCEPT ![r] = "activate"]
    /\ UNCHANGED <<status, ready, stop, issued, wk, hooks, phase, boots>>

ActivateRun(r) ==
    /\ start[r] = "activate" /\ status[r] = "queued" /\ ~stop[r]
    /\ ready' = [ready EXCEPT ![r] = TRUE]
    /\ start' = [start EXCEPT ![r] = "idle"]
    /\ UNCHANGED <<journal, status, stop, call, issued, wk, hooks, phase, boots>>

\* The owner stops the job; on queued work the request ends it.
StopRun(r) ==
    /\ phase = "up" /\ Active(r) /\ ~stop[r]
    /\ stop' = [stop EXCEPT ![r] = TRUE]
    /\ IF status[r] = "queued"
          THEN status' = Ended(r, "cancelled") /\ hooks' = hooks \cup {r}
          ELSE UNCHANGED <<status, hooks>>
    /\ UNCHANGED <<journal, ready, call, issued, start, wk, phase, boots>>

-----------------------------------------------------------------------------
(* The worker's run: each call is claimed before it is issued. *)

PickRun(r) ==
    /\ phase = "up" /\ wk.pc = "idle"
    /\ status[r] = "queued" /\ ready[r] /\ ~stop[r]
    /\ status' = Ended(r, "running")
    /\ wk' = [pc |-> "claim", run |-> r, at |-> 1]
    /\ UNCHANGED <<journal, ready, stop, call, issued, start, hooks, phase, boots>>

\* The claim and the check that the job is still wanted are one transaction.
Claimable(c) == c = "reserved"

ClaimCall ==
    LET r == wk.run IN
    /\ wk.pc = "claim"
    /\ status[r] = "running" /\ ~stop[r] /\ Claimable(call[r][wk.at])
    /\ call' = [call EXCEPT ![r][wk.at] = "claimed"]
    /\ wk'   = [wk EXCEPT !.pc = "issue"]
    /\ UNCHANGED <<journal, status, ready, stop, issued, start, hooks, phase, boots>>

\* The voice or the plan changed, the claim was refused, the context ended.
ClaimRefused ==
    /\ wk.pc = "claim"
    /\ wk' = [wk EXCEPT !.pc = "fail"]
    /\ UNCHANGED <<rows, issued, start, hooks, phase, boots>>

IssueCall ==
    /\ wk.pc = "issue"
    /\ issued' = [issued EXCEPT ![wk.run][wk.at] = @ + 1]
    /\ \E pc \in {"received", "failed"} : wk' = [wk EXCEPT !.pc = pc]
    /\ UNCHANGED <<rows, start, hooks, phase, boots>>

RetryFailed(answer) == IF answer = "received" THEN "publish" ELSE "issue"   \* mutant: asked again
AfterAnswer(answer) == IF answer = "received" THEN "publish" ELSE "fail"

\* The answer is recorded on a context of its own, and its failure to be
\* recorded is ignored.
RecordAnswer(answer) ==
    /\ wk.pc = answer
    /\ call' \in {call, Recorded(wk.run, wk.at, answer)}
    /\ wk' = [wk EXCEPT !.pc = AfterAnswer(answer)]
    /\ UNCHANGED <<journal, status, ready, stop, issued, start, hooks, phase, boots>>

NextIsLast(i) == i + 1 >= Segments    \* mutant: the last call is left out
NoneIsLast(i) == i > Segments         \* mutant: off by one past the last call
IsLast(i)     == i = Segments

PublishAsset ==
    LET r == wk.run IN
    /\ wk.pc = "publish"
    /\ status[r] = "running" /\ ~stop[r]
    /\ call' = Recorded(r, wk.at, "published")
    /\ wk'   = IF IsLast(wk.at) THEN [wk EXCEPT !.pc = "succeed"]
               ELSE [wk EXCEPT !.pc = "claim", !.at = @ + 1]
    /\ UNCHANGED <<journal, status, ready, stop, issued, start, hooks, phase, boots>>

\* The job was stopped or the plan moved on: the asset is obsolete.
PublishRefused ==
    /\ wk.pc = "publish"
    /\ call' \in {call, Recorded(wk.run, wk.at, "obsolete")}
    /\ wk' = [wk EXCEPT !.pc = "fail"]
    /\ UNCHANGED <<journal, status, ready, stop, issued, start, hooks, phase, boots>>

\* The queue's terminal write, which a stop turns into a cancellation.
EndRun ==
    LET r == wk.run IN
    /\ wk.pc \in {"fail", "succeed"}
    /\ status' = Ended(r, IF stop[r] THEN "cancelled" ELSE IF wk.pc = "succeed" THEN "done" ELSE "failed")
    /\ hooks'  = hooks \cup {r} /\ wk' = NoRun
    /\ UNCHANGED <<journal, ready, stop, call, issued, start, phase, boots>>

\* OnTerminal closes whatever the run left open.
TerminalHook(r) ==
    /\ r \in hooks
    /\ call'  = Closed(r, IF status[r] = "cancelled" THEN "cancelled" ELSE "unresolved")
    /\ hooks' = hooks \ {r}
    /\ UNCHANGED <<journal, status, ready, stop, issued, start, wk, phase, boots>>

-----------------------------------------------------------------------------
(* Restart: Recover, then the queue's sweeps, then serving. *)

Crash ==
    /\ boots < MaxBoots /\ boots' = boots + 1
    /\ phase' = "recover" /\ wk' = NoRun /\ hooks' = {}
    /\ start' = [r \in Runs |-> "idle"]
    /\ UNCHANGED <<rows, issued>>

\* A run that never learnt its job's id is bound to it, if the job is active.
Unbound(r) == journal[r] = "reserved" /\ Active(r)
RecoverBind(r) ==
    /\ phase = "recover" /\ Unbound(r)
    /\ journal' = Bound(r) /\ call' = Reserved(r)
    /\ UNCHANGED <<status, ready, stop, issued, start, wk, hooks, phase, boots>>

\* mutant: a recorded answer that was not published is not listed
Unissued(r)   == /\ journal[r] = "bound" /\ \E i \in Calls : call[r][i] \in {"reserved", "claimed"}
                 /\ ~(status[r] = "queued" /\ ready[r])
Incomplete(r) == /\ journal[r] = "bound" /\ \E i \in Calls : call[r][i] \in Open
                 /\ ~(status[r] = "queued" /\ ready[r])
\* The job is ended and its calls are closed in one transaction.  The store's
\* terminal write takes a running row only, so on a queued one the
\* transaction, and with it the boot, fails: there is no step.
RecoverRun(r) ==
    /\ phase = "recover" /\ Incomplete(r)
    /\ status[r] \in {"running"} \cup Terminal
    /\ status' = IF status[r] = "running" THEN Ended(r, IF stop[r] THEN "cancelled" ELSE "failed") ELSE status
    /\ call'   = Closed(r, "unresolved")
    /\ UNCHANGED <<journal, ready, stop, issued, start, wk, hooks, phase, boots>>

Recovered ==
    /\ phase = "recover" /\ phase' = "sweep"
    /\ \A r \in Runs : ~Unbound(r) /\ ~Incomplete(r)
    /\ UNCHANGED <<rows, issued, start, wk, hooks, boots>>

\* The queue's own sweeps end what was running or never activated.
SweepJobs ==
    /\ phase = "sweep" /\ phase' = "up"
    /\ status' = [r \in Runs |->
          IF status[r] = "running" THEN IF stop[r] THEN "cancelled" ELSE "failed"
          ELSE IF status[r] = "queued" /\ ~ready[r] THEN "failed" ELSE status[r]]
    /\ UNCHANGED <<journal, ready, stop, call, issued, start, wk, hooks, boots>>

-----------------------------------------------------------------------------
Starting(r) == ReserveRun(r) \/ EnqueueRun(r) \/ StartFails(r) \/ BindRun(r) \/ ActivateRun(r)
Working     == \/ ClaimCall \/ ClaimRefused \/ IssueCall \/ RecordAnswer("received")
               \/ RecordAnswer("failed") \/ PublishAsset \/ PublishRefused \/ EndRun
Booting     == Recovered \/ SweepJobs \/ \E r \in Runs : RecoverBind(r) \/ RecoverRun(r)

Next == \/ \E r \in Runs : Starting(r) \/ StopRun(r) \/ PickRun(r) \/ TerminalHook(r)
        \/ Working \/ Booting \/ Crash

Spec == Init /\ [][Next]_vars
\* A process that is started takes its boot steps and runs its worker.
FairSpec == Spec /\ WF_vars(Booting) /\ WF_vars(Working)

-----------------------------------------------------------------------------
(* Properties. *)

\* No paid call is issued twice for one run, whatever was interrupted between
\* the claim, the call and the record of its answer: recovery never retries a
\* call whose outcome it cannot know (GEN-33, CLIP speech journal).
PaidOnce == \A r \in Runs, i \in Calls : issued[r][i] <= 1

\* A run that ended well asked the provider once for every one of its calls.
DoneIsComplete == \A r \in Runs : status[r] = "done" => \A i \in Calls : issued[r][i] = 1

\* When serving starts again, no ended run has a call that still reads as in
\* progress, so the next boot does not meet it again.
BootClosesCalls ==
    [][phase = "sweep" /\ phase' = "up" =>
         \A r \in Runs : journal[r] = "bound" /\ status'[r] \in Terminal =>
             \A i \in Calls : call'[r][i] \notin Open]_vars

\* A start that was never activated is failed by the boot that finds it, as
\* SweepUnactivated and GEN-33 say of interrupted jobs.
UnactivatedEndsAtBoot ==
    \A r \in Runs : (phase = "recover" /\ status[r] = "queued" /\ ~ready[r]) ~> status[r] \in Terminal
=============================================================================
