-------------------------- MODULE MediaLeaseProofs --------------------------
(***************************************************************************)
(* Theorems about the media leases: a worker that executes holds the lease *)
(* of the current attempt, the leases implement MediaHandoff, past the     *)
(* deadline every wait ends, and attempts and leases keep their bounds,    *)
(* for any stages, workers and limits.                                     *)
(***************************************************************************)
EXTENDS MediaLease, FiniteSetTheorems, WellFoundedInduction, TLAPS

AttRec   == [end : Nat, outcome : Outcomes]
StageRec == [state : States, retry : Nat, result : Nat, closed : BOOLEAN]
Parents  == [at : {"queued", "waiting", "ready", "ended"}, stop : BOOLEAN, void : BOOLEAN]
WorkPc   == {"idle", "claiming", "granted", "executing", "completing", "checked", "orphan", "failing"}
Codes    == {"none", "lost", "final", "cancelled"}
WorkRec  == [pc : WorkPc, s : Stages \cup {0}, n : Nat, sent : Nat, until : Nat, code : Codes]
BeatRec  == [pc : {"none", "sent", "granted"}, s : Stages \cup {0}, n : Nat, sent : Nat, until : Nat]

\* The types, with naturals where TypeOK has the bounds of an instance.
Types ==
    /\ now \in Nat
    /\ stage \in [Stages -> StageRec]
    /\ att \in [Stages -> Seq(AttRec)]
    /\ parent \in [Stages -> Parents]
    /\ rec \in [do : {"nothing", "acknowledge", "failqueued"}, s : Stages \cup {0}]
    /\ wk \in [Workers -> WorkRec]
    /\ beat \in [Workers -> BeatRec]

\* A worker holds the credential of an attempt from its claim on, and its
\* renewals carry it.
Holder(w)  == wk[w].pc \in {"granted", "executing", "completing", "checked", "orphan", "failing"}
Beating(w) == beat[w].pc # "none"
\* It may execute: it does, or it will as soon as it takes the answer.
Leads(w)   == wk[w].pc \in {"granted", "executing"} /\ wk[w].until > now

\* Credentials are of attempts there are, and each is one worker's.
Tokens ==
    \A w \in Workers :
       /\ Holder(w)  => wk[w].s \in Stages /\ wk[w].n \in 1..Attempts(wk[w].s)
       /\ Beating(w) => beat[w].s \in Stages /\ beat[w].n \in 1..Attempts(beat[w].s)
       /\ \A v \in Workers \ {w} :
            /\ Holder(w) /\ Holder(v)   => <<wk[w].s, wk[w].n>> # <<wk[v].s, wk[v].n>>
            /\ Holder(w) /\ Beating(v)  => <<wk[w].s, wk[w].n>> # <<beat[v].s, beat[v].n>>
            /\ Beating(w) /\ Beating(v) => <<beat[w].s, beat[w].n>> # <<beat[v].s, beat[v].n>>

\* What a worker knows of a lease never exceeds it, and a renewal under way
\* cannot shorten it.
Leases ==
    /\ \A s \in Stages : \A n \in 1..Attempts(s) : att[s][n].end <= now + TTL /\ att[s][n].end <= Deadline
    /\ \A w \in Workers :
       /\ wk[w].pc = "claiming" => wk[w].sent <= now
       /\ wk[w].pc \in {"granted", "executing"} => wk[w].until <= att[wk[w].s][wk[w].n].end
       /\ wk[w].pc = "executing" => wk[w].until > now
       /\ Beating(w) => beat[w].sent <= now
       /\ beat[w].pc = "sent" => att[beat[w].s][beat[w].n].end <= beat[w].sent + TTL
       /\ beat[w].pc = "granted" => beat[w].until <= att[beat[w].s][beat[w].n].end

\* Whoever may execute has the current attempt, and nobody may take the stage.
Leading ==
    \A w \in Workers : Leads(w) =>
       /\ wk[w].n = Attempts(wk[w].s)
       /\ att[wk[w].s][wk[w].n].outcome = "none"
       /\ stage[wk[w].s].state # "queued"

\* Stage, attempts and job agree, and a job that was told has no worker at it.
Final == {"succeeded", "failed", "cancelled"}
Rows ==
    /\ \A s \in Stages :
       /\ stage[s].result # 0 => stage[s].state = "succeeded"
       /\ stage[s].state = "succeeded" => att[s] # <<>> /\ att[s][Attempts(s)].outcome # "none"
       /\ parent[s].at = "queued" => att[s] = <<>>
       /\ parent[s].at = "ready" => stage[s].state \in Final
       /\ stage[s].closed => parent[s].at = "ended"
       /\ parent[s].at \in {"ready", "ended"} => \A w \in Workers : Leads(w) => wk[w].s # s
    /\ rec.do # "nothing" => rec.s \in Stages
    /\ rec.do = "acknowledge" => parent[rec.s].stop /\ Stopped(rec.s, now)

BusyRenders == {s \in Renders : \E w \in Workers : Leads(w) /\ wk[w].s = s}
Capacity == Cardinality(BusyRenders) <= Active

IInv == Types /\ Tokens /\ Leases /\ Leading /\ Rows /\ Capacity

-----------------------------------------------------------------------------
(* Facts about the operators. *)

LEMMA MaxPair == ASSUME NEW a \in Int, NEW b \in Int
                 PROVE  /\ Max({a, b}) \in {a, b} /\ Max({a, b}) >= a /\ Max({a, b}) >= b
  <1>1. \E x \in {a, b} : \A y \in {a, b} : x >= y
    <2>1. CASE a >= b
      BY <2>1
    <2>2. CASE ~(a >= b)
      BY <2>2
    <2> QED
      BY <2>1, <2>2
  <1> QED
    BY <1>1 DEF Max

LEMMA MinPair == ASSUME NEW a \in Int, NEW b \in Int
                 PROVE  /\ Min({a, b}) \in {a, b} /\ Min({a, b}) <= a /\ Min({a, b}) <= b
  <1>1. \E x \in {a, b} : \A y \in {a, b} : x <= y
    <2>1. CASE a <= b
      BY <2>1
    <2>2. CASE ~(a <= b)
      BY <2>2
    <2> QED
      BY <2>1, <2>2
  <1> QED
    BY <1>1 DEF Min

LEMMA LeaseEnds ==
    ASSUME NEW t \in Nat
    PROVE  /\ LeaseEnd(t) \in Nat /\ LeaseEnd(t) <= t + TTL /\ LeaseEnd(t) <= Deadline
           /\ \A u \in Nat : u <= t => LeaseEnd(u) <= LeaseEnd(t)
           /\ \A e \in Nat : e <= t + TTL /\ e <= Deadline => e <= LeaseEnd(t)
  <1>1. \A u \in Nat : /\ LeaseEnd(u) \in {u + TTL, Deadline} /\ LeaseEnd(u) <= u + TTL
                       /\ LeaseEnd(u) <= Deadline
    BY MinPair, LimitsAssumption DEF LeaseEnd
  <1> QED
    BY <1>1, LimitsAssumption

LEMMA Remains ==
    ASSUME now \in Nat, NEW sent \in Nat, NEW end \in Nat, sent <= now
    PROVE  Remaining(sent, end) \in Nat /\ Remaining(sent, end) <= end
  <1> DEFINE left == sent + end - now
  <1>1. left \in Int /\ left <= end
    OBVIOUS
  <1>2. Max({left, 0}) \in {left, 0} /\ Max({left, 0}) >= 0
    <2> HIDE DEF left
    <2> QED
      BY <1>1, MaxPair
  <1>3. Remaining(sent, end) = Max({left, 0})
    BY DEF Remaining
  <1> QED
    BY <1>1, <1>2, <1>3

LEMMA AttTypes ==
    ASSUME Types, NEW s \in Stages
    PROVE  /\ Attempts(s) \in Nat /\ att[s] \in Seq(AttRec)
           /\ \A n \in 1..Attempts(s) : att[s][n] \in AttRec
           /\ att[s] # <<>> <=> Attempts(s) > 0
  BY DEF Types, Attempts
-----------------------------------------------------------------------------
(* What the steps do to a worker, to its renewal and to a row.  A claim that *)
(* is granted is the exception and has its own part.                         *)

\* A credential is only ever kept; what a worker knows of its lease stays or
\* is what its own renewal was granted.
WorkMoves(w) ==
    /\ wk'[w] \in WorkRec
    /\ Holder(w)' => Holder(w) /\ wk'[w].s = wk[w].s /\ wk'[w].n = wk[w].n
    /\ wk'[w].pc = "claiming" => wk'[w].sent <= now'
    /\ wk'[w].pc \in {"granted", "executing"} =>
         /\ wk[w].pc \in {"granted", "executing"}
         /\ \/ wk'[w].until = wk[w].until
            \/ /\ wk[w].pc = "executing" /\ beat[w].pc = "granted"
               /\ beat[w].s = wk[w].s /\ beat[w].n = wk[w].n /\ wk'[w].until = beat[w].until
    /\ wk'[w].pc = "executing" => wk'[w].until > now'

\* A renewal carries the credential of its worker, and is granted once.
BeatMoves(w) ==
    /\ beat'[w] \in BeatRec
    /\ Beating(w)' =>
         \/ beat'[w] = beat[w]
         \/ /\ Holder(w) /\ now' = now /\ att' = att
            /\ beat'[w].pc = "sent" /\ beat'[w].sent = now
            /\ beat'[w].s = wk[w].s /\ beat'[w].n = wk[w].n
         \/ /\ beat[w].pc = "sent" /\ beat'[w].pc = "granted"
            /\ beat'[w].s = beat[w].s /\ beat'[w].n = beat[w].n /\ beat'[w].sent = beat[w].sent
            /\ beat'[w].until <= att'[beat[w].s][beat[w].n].end

\* The current attempt is over, or the party that holds it is past executing.
Settles(s) ==
    \/ Stopped(s, now)
    \/ \E w \in Workers : /\ wk[w].pc \in {"checked", "orphan", "failing"}
                          /\ wk[w].s = s /\ wk[w].n = Attempts(s)

Extends(s, n) ==
    /\ ParentAnswer(s) = "ok"
    /\ \E w \in Workers : /\ beat[w].pc = "sent" /\ beat[w].s = s /\ beat[w].n = n
                          /\ beat'[w].pc = "granted"
                          /\ \E t \in beat[w].sent..now : att'[s][n].end = LeaseEnd(t)

\* No attempt is added, a lease is only renewed, and the current attempt ends
\* once; a final state stays final, and a job is told of what is settled.
AttMoves(s) ==
    /\ Len(att'[s]) = Attempts(s)
    /\ \A n \in 1..Attempts(s) :
         /\ att'[s][n].end = att[s][n].end \/ Extends(s, n)
         /\ \/ att'[s][n].outcome = att[s][n].outcome
            \/ n = Attempts(s) /\ att[s][n].outcome = "none" /\ att'[s][n].outcome # "none" /\ Settles(s)
StageMoves(s) ==
    /\ stage'[s].state = "queued" => stage[s].state = "queued" \/ Settles(s)
    /\ stage[s].state \in Final => stage'[s].state \in Final
    /\ stage'[s].result # 0 => stage'[s].state = "succeeded"
    /\ stage'[s].state = "succeeded" =>
         \/ stage[s].state = "succeeded"
         \/ att[s] # <<>> /\ att'[s][Attempts(s)].outcome # "none"
ParentMoves(s) ==
    /\ parent'[s].at = "queued" => parent[s].at = "queued"
    /\ parent'[s].at = "ready" => stage'[s].state \in Final
    /\ parent'[s].at \in {"ready", "ended"} => parent[s].at \in {"ready", "ended"} \/ Settles(s)
    /\ parent[s].at \in {"ready", "ended"} => parent'[s].at \in {"ready", "ended"}
    /\ parent[s].stop => parent'[s].stop
    /\ stage'[s].closed => parent'[s].at = "ended"
RecMoves ==
    \/ rec'.do = "nothing"
    \/ rec' = rec
    \/ /\ rec'.s \in Stages
       /\ rec'.do = "acknowledge" => (parent[rec.s].stop /\ Stopped(rec.s, now))'
RowTypes ==
    /\ stage' \in [Stages -> StageRec] /\ att' \in [Stages -> Seq(AttRec)]
    /\ parent' \in [Stages -> Parents]
    /\ rec' \in [do : {"nothing", "acknowledge", "failqueued"}, s : Stages \cup {0}]
RowMoves == RowTypes /\ RecMoves /\ \A s \in Stages : AttMoves(s) /\ StageMoves(s) /\ ParentMoves(s)

Moves ==
    /\ now' \in Nat /\ now' >= now
    /\ RowMoves
    /\ \A w \in Workers : WorkMoves(w) /\ BeatMoves(w)

LEMMA SameWork == ASSUME Types, Leases, NEW w \in Workers, wk'[w] = wk[w], now' = now PROVE WorkMoves(w)
  BY DEF Types, Leases, WorkMoves, Holder

LEMMA SameBeat == ASSUME Types, NEW w \in Workers, beat'[w] = beat[w] PROVE BeatMoves(w)
  BY DEF Types, BeatMoves, Beating

LEMMA SameRows == ASSUME Types, Rows, UNCHANGED rows PROVE RowMoves
  <1>1. RowTypes /\ RecMoves
    BY DEF Types, RowTypes, RecMoves, rows
  <1>2. ASSUME NEW s \in Stages PROVE AttMoves(s)
    BY DEF rows, AttMoves, Attempts
  <1>3. ASSUME NEW s \in Stages PROVE StageMoves(s)
    BY DEF rows, StageMoves, Rows, Final, Attempts
  <1>4. ASSUME NEW s \in Stages PROVE ParentMoves(s)
    BY DEF rows, ParentMoves, Rows, Final
  <1> QED
    BY <1>1, <1>2, <1>3, <1>4 DEF RowMoves

-----------------------------------------------------------------------------
(* The steps of a worker that write no row. *)

Quiet(w) ==
    \/ Claim(w) \/ TakeWork(w) \/ Beat(w) \/ Renewed(w) \/ Watchdog(w) \/ AcceptLost(w) \/ Die(w) \/ GiveUp(w)
    \/ \E t \in wk[w].sent..now : NothingClaimed(w, t)
    \/ \E t \in beat[w].sent..now : RenewalRefused(w, t)
    \/ \E valid \in BOOLEAN : Check(w, valid)
    \/ \E code \in {"lost", "final"} : ExecutionFailed(w, code)

\* The ways a worker's record changes in them: given up, passed on to its
\* report, to an orphan, or to the next step of a completion.
Ends(w) ==
    \/ wk' = wk
    \/ wk' = [wk EXCEPT ![w] = NoWork]
    \/ \E code \in {"lost", "final", "cancelled"} :
          Holder(w) /\ wk' = [wk EXCEPT ![w].pc = "failing", ![w].sent = now, ![w].until = 0, ![w].code = code]
    \/ Holder(w) /\ wk' = [wk EXCEPT ![w].pc = "orphan", ![w].until = 0]
    \/ Holder(w) /\ wk' = [wk EXCEPT ![w].pc = "completing"]
    \/ Holder(w) /\ wk' = [wk EXCEPT ![w].pc = "checked"]

LEMMA WorkFields ==
    ASSUME NEW x \in WorkRec
    PROVE  /\ \A p \in WorkPc : [x EXCEPT !.pc = p] \in WorkRec
           /\ \A t \in Nat : [x EXCEPT !.sent = t] \in WorkRec
           /\ \A t \in Nat : [x EXCEPT !.until = t] \in WorkRec
           /\ \A c \in Codes : [x EXCEPT !.code = c] \in WorkRec
  BY DEF WorkRec

LEMMA WorkEnded ==
    ASSUME NEW x \in WorkRec, NEW t \in Nat, NEW code \in {"lost", "final", "cancelled"}
    PROVE  /\ [x EXCEPT !.pc = "failing", !.sent = t, !.until = 0, !.code = code] \in WorkRec
           /\ [x EXCEPT !.pc = "orphan", !.until = 0] \in WorkRec
  BY WorkFields, Zenon DEF WorkPc, Codes

LEMMA EndsMoves == ASSUME Types, Leases, NEW w \in Workers, Ends(w), now' = now
                   PROVE  \A v \in Workers : WorkMoves(v)
  <1>1. \A v \in Workers : v # w => wk'[v] = wk[v]
    BY DEF Types, Ends
  <1>2. WorkMoves(w)
    <2>1. CASE wk' = wk
      BY <2>1, SameWork
    <2>2. CASE wk' = [wk EXCEPT ![w] = NoWork]
      BY <2>2 DEF Types, WorkMoves, Holder, NoWork, WorkRec, WorkPc, Codes
    <2>3. ASSUME NEW code \in {"lost", "final", "cancelled"}, Holder(w),
                 wk' = [wk EXCEPT ![w].pc = "failing", ![w].sent = now, ![w].until = 0, ![w].code = code]
          PROVE  WorkMoves(w)
      <3>1. wk'[w] = [wk[w] EXCEPT !.pc = "failing", !.sent = now, !.until = 0, !.code = code]
        BY <2>3 DEF Types
      <3>2. wk[w] \in WorkRec /\ now \in Nat
        BY DEF Types
      <3>3. wk'[w] \in WorkRec
        <4>1. [wk[w] EXCEPT !.pc = "failing", !.sent = now, !.until = 0, !.code = code] \in WorkRec
          BY <3>2, WorkEnded, Zenon
        <4> QED
          BY <3>1, <4>1, Zenon
      <3>4. wk'[w].pc = "failing" /\ wk'[w].s = wk[w].s /\ wk'[w].n = wk[w].n
        BY <3>1, <3>2 DEF WorkRec
      <3> QED
        BY <3>3, <3>4, <2>3 DEF WorkMoves, Holder
    <2>4. CASE Holder(w) /\ wk' = [wk EXCEPT ![w].pc = "orphan", ![w].until = 0]
      <3>1. wk'[w] = [wk[w] EXCEPT !.pc = "orphan", !.until = 0]
        BY <2>4 DEF Types
      <3>2. wk[w] \in WorkRec /\ now \in Nat
        BY DEF Types
      <3>3. wk'[w] \in WorkRec
        BY <3>1, <3>2, WorkEnded, Zenon
      <3>4. wk'[w].pc = "orphan" /\ wk'[w].s = wk[w].s /\ wk'[w].n = wk[w].n
        BY <3>1, <3>2 DEF WorkRec
      <3> QED
        BY <3>3, <3>4, <2>4 DEF WorkMoves, Holder
    <2>5. ASSUME NEW pc \in {"completing", "checked"}, Holder(w), wk' = [wk EXCEPT ![w].pc = pc]
          PROVE  WorkMoves(w)
      <3>1. wk'[w] = [wk[w] EXCEPT !.pc = pc]
        BY <2>5 DEF Types
      <3>2. wk[w] \in WorkRec
        BY DEF Types
      <3>3. wk'[w] \in WorkRec
        BY <3>1, <3>2, WorkFields, Zenon DEF WorkPc
      <3>4. wk'[w].pc = pc /\ wk'[w].s = wk[w].s /\ wk'[w].n = wk[w].n
        BY <3>1, <3>2 DEF WorkRec
      <3> QED
        BY <3>3, <3>4, <2>5 DEF WorkMoves, Holder
    <2> QED
      BY <2>1, <2>2, <2>3, <2>4, <2>5 DEF Ends
  <1> QED
    BY <1>1, <1>2, SameWork

LEMMA Ending ==
    ASSUME Types, NEW w \in Workers,
           \/ Watchdog(w) \/ AcceptLost(w) \/ Die(w) \/ GiveUp(w)
           \/ \E t \in wk[w].sent..now : NothingClaimed(w, t)
           \/ \E t \in beat[w].sent..now : RenewalRefused(w, t)
           \/ \E valid \in BOOLEAN : Check(w, valid)
           \/ \E code \in {"lost", "final"} : ExecutionFailed(w, code)
    PROVE  Ends(w)
  <1> USE DEF Ends, Holder, At, Free, Failing, Stop, Runs
  <1>1. CASE Watchdog(w)
    BY <1>1 DEF Watchdog, Due
  <1>2. CASE AcceptLost(w)
    BY <1>2 DEF AcceptLost, Unanswered
  <1>3. CASE Die(w)
    BY <1>3 DEF Die
  <1>4. CASE GiveUp(w)
    BY <1>4 DEF GiveUp
  <1>5. CASE \E t \in wk[w].sent..now : NothingClaimed(w, t)
    BY <1>5 DEF NothingClaimed
  <1>6. CASE \E t \in beat[w].sent..now : RenewalRefused(w, t)
    BY <1>6 DEF RenewalRefused, Own
  <1>7. CASE \E valid \in BOOLEAN : Check(w, valid)
    <2>1. PICK valid \in BOOLEAN : Check(w, valid)
      BY <1>7
    <2> DEFINE answer == AcceptAnswer(wk[w].s, wk[w].n)
    <2>2. answer \in {"published", "lost", "cancelled", "ok"}
      BY DEF AcceptAnswer, Authorized, ParentAnswer
    <2>3. \/ wk' = [wk EXCEPT ![w].pc = "checked"]
          \/ answer = "ok" /\ ~valid /\ Takes(w, "rejected")
          \/ answer # "ok" /\ Takes(w, answer)
          \/ Unanswered(w)
      BY <2>1 DEF Check
    <2>4. Holder(w)
      BY <2>1 DEF Check
    <2> HIDE DEF answer
    <2> QED
      BY <2>2, <2>3, <2>4 DEF Takes, Unanswered
  <1>8. CASE \E code \in {"lost", "final"} : ExecutionFailed(w, code)
    BY <1>8 DEF ExecutionFailed
  <1> QED
    BY <1>1, <1>2, <1>3, <1>4, <1>5, <1>6, <1>7, <1>8

LEMMA QuietWork == ASSUME Types, Leases, NEW w \in Workers, Quiet(w), now' = now
                   PROVE  \A v \in Workers : WorkMoves(v)
  <1> USE DEF At, Free, Until
  <1>1. CASE Claim(w)
    <2>1. \A v \in Workers : v # w => wk'[v] = wk[v]
      BY <1>1 DEF Claim, Types
    <2>2. wk'[w] = [wk[w] EXCEPT !.pc = "claiming", !.sent = now] /\ now' = now
      BY <1>1 DEF Claim, Types
    <2>3. wk[w] \in WorkRec /\ now \in Nat
      BY DEF Types
    <2>4. wk'[w] \in WorkRec /\ wk'[w].pc = "claiming" /\ wk'[w].sent = now
      BY <2>2, <2>3 DEF WorkRec, WorkPc, Codes
    <2>5. WorkMoves(w)
      BY <2>2, <2>3, <2>4 DEF WorkMoves, Holder
    <2> QED
      BY <2>1, <2>5, <1>1, SameWork DEF Claim
  <1>2. CASE TakeWork(w)
    <2>1. \A v \in Workers : v # w => wk'[v] = wk[v]
      BY <1>2 DEF TakeWork, Types
    <2>2. WorkMoves(w)
      BY <1>2 DEF TakeWork, Types, WorkMoves, Holder, WorkRec, WorkPc, Codes, NoWork
    <2> QED
      BY <2>1, <2>2, SameWork
  <1>3. CASE Beat(w)
    BY <1>3, SameWork DEF Beat
  <1>4. CASE Renewed(w)
    <2>1. CASE Until(beat[w]) > now
      <3>1. \A v \in Workers : v # w => wk'[v] = wk[v]
        BY <1>4, <2>1 DEF Renewed, Types
      <3>2. wk'[w] = [wk[w] EXCEPT !.until = beat[w].until] /\ now' = now
        BY <1>4, <2>1 DEF Renewed, Types
      <3>3. /\ wk[w] \in WorkRec /\ beat[w] \in BeatRec /\ beat[w].until > now /\ beat[w].pc = "granted"
            /\ beat[w].s = wk[w].s /\ beat[w].n = wk[w].n
            /\ wk[w].pc \in {"executing", "completing", "checked"}
        BY <1>4, <2>1 DEF Renewed, Types, Own, Runs
      <3>4. WorkMoves(w)
        BY <3>2, <3>3 DEF WorkMoves, Holder, WorkRec, WorkPc, Codes, BeatRec
      <3> QED
        BY <3>1, <3>4, SameWork
    <2>2. CASE ~(Until(beat[w]) > now)
      <3>1. Ends(w)
        BY <1>4, <2>2 DEF Renewed, Ends, Stop, Holder, Own, Runs
      <3> QED
        BY <3>1, EndsMoves
    <2> QED
      BY <2>1, <2>2
  <1> QED
    BY <1>1, <1>2, <1>3, <1>4, Ending, EndsMoves DEF Quiet

LEMMA QuietBeat == ASSUME Types, NEW w \in Workers, Quiet(w)
                   PROVE  /\ now' = now /\ UNCHANGED rows
                          /\ \A v \in Workers : BeatMoves(v)
  <1> USE DEF rows
  <1>1. now' = now /\ UNCHANGED rows
    BY DEF Quiet, Claim, TakeWork, Beat, Renewed, Watchdog, AcceptLost, Die, GiveUp, NothingClaimed,
           RenewalRefused, Check, ExecutionFailed
  <1>2. CASE beat' = beat
    BY <1>1, <1>2, SameBeat
  <1>3. CASE beat' = [beat EXCEPT ![w] = NoBeat]
    <2>1. \A v \in Workers : v # w => beat'[v] = beat[v]
      BY <1>3 DEF Types
    <2>2. BeatMoves(w)
      BY <1>3 DEF Types, BeatMoves, NoBeat, BeatRec, Beating
    <2>3. ASSUME NEW v \in Workers \ {w} PROVE BeatMoves(v)
      BY <2>1, SameBeat
    <2> QED
      BY <1>1, <2>2, <2>3
  <1>4. CASE Beat(w)
    <2>1. \A v \in Workers : v # w => beat'[v] = beat[v]
      BY <1>4 DEF Types, Beat
    <2>2. BeatMoves(w)
      BY <1>1, <1>4 DEF Types, Beat, BeatMoves, NoBeat, BeatRec, WorkRec, WorkPc, Codes, Beating, Runs, Holder
    <2>3. ASSUME NEW v \in Workers \ {w} PROVE BeatMoves(v)
      BY <2>1, SameBeat
    <2> QED
      BY <1>1, <2>2, <2>3
  <1> QED
    BY <1>1, <1>2, <1>3, <1>4
       DEF Quiet, Claim, TakeWork, Renewed, Watchdog, AcceptLost, Die, GiveUp, NothingClaimed,
           RenewalRefused, Check, ExecutionFailed, Unbeat

-----------------------------------------------------------------------------
(* The steps that write rows. *)

LEMMA EndedMoves ==
    ASSUME Types, NEW s \in Stages, NEW outcome \in Outcomes \ {"none"},
           att' = att \/ (Settles(s) /\ att' = Ended(s, outcome))
    PROVE  /\ att' \in [Stages -> Seq(AttRec)]
           /\ \A k \in Stages : AttMoves(k)
  <1>1. CASE att' = att
    BY <1>1 DEF Types, AttMoves, Attempts
  <1>2. CASE Settles(s) /\ att' = [att EXCEPT ![s][Attempts(s)].outcome = outcome]
             /\ att[s] # <<>> /\ att[s][Attempts(s)].outcome = "none"
    <2>1. \A k \in Stages : k # s => att'[k] = att[k]
      BY <1>2 DEF Types
    <2>2. Attempts(s) \in 1..Attempts(s) /\ att[s] \in Seq(AttRec) /\ att[s][Attempts(s)] \in AttRec
      BY <1>2, AttTypes
    <2>3. att'[s] = [att[s] EXCEPT ![Attempts(s)] = [att[s][Attempts(s)] EXCEPT !.outcome = outcome]]
      BY <1>2 DEF Types
    <2>4. att'[s] \in Seq(AttRec) /\ Len(att'[s]) = Attempts(s)
      BY <2>2, <2>3 DEF Attempts, AttRec
    <2>5. \A n \in 1..Attempts(s) :
             att'[s][n] = IF n = Attempts(s) THEN [att[s][n] EXCEPT !.outcome = outcome] ELSE att[s][n]
      BY <2>2, <2>3 DEF Attempts
    <2>6. AttMoves(s)
      BY <1>2, <2>2, <2>4, <2>5 DEF AttMoves, AttRec
    <2>7. ASSUME NEW k \in Stages, k # s PROVE AttMoves(k)
      BY <2>1, <2>7 DEF AttMoves, Attempts
    <2>8. att' \in [Stages -> Seq(AttRec)]
      BY <1>2, <2>1, <2>4 DEF Types
    <2> QED
      BY <2>6, <2>7, <2>8
  <1> QED
    BY <1>1, <1>2 DEF Ended

\* A state that is not a success is set where none is; the attempts' outcomes
\* only come to be.
LEMMA SetMoves ==
    ASSUME Types, Rows, NEW s \in Stages, NEW state \in States, NEW retry \in Nat,
           state \in {"failed", "cancelled"} \/ (state = "queued" /\ stage[s].state = "running" /\ Settles(s)),
           stage' = Set(s, state, retry)
    PROVE  /\ stage' \in [Stages -> StageRec]
           /\ \A k \in Stages : StageMoves(k) /\ stage'[k].closed = stage[k].closed
  <1>1. CASE stage' = stage
    BY <1>1 DEF Types, Rows, StageMoves, Final
  <1>2. CASE stage' = [stage EXCEPT ![s].state = state, ![s].retry = retry] /\ stage[s].state # "succeeded"
    <2>1. \A k \in Stages : k # s => stage'[k] = stage[k]
      BY <1>2 DEF Types
    <2>2. stage'[s] = [stage[s] EXCEPT !.state = state, !.retry = retry] /\ stage[s] \in StageRec
      BY <1>2 DEF Types
    <2>3. stage' \in [Stages -> StageRec]
      BY ZenonT(60), <1>2, <2>1, <2>2 DEF Types, StageRec
    <2>4. ASSUME NEW k \in Stages, k # s PROVE StageMoves(k) /\ stage'[k].closed = stage[k].closed
      BY <2>1, <2>4 DEF Rows, StageMoves, Final
    <2>5. StageMoves(s) /\ stage'[s].closed = stage[s].closed
      BY <1>2, <2>2 DEF Rows, StageMoves, Final, StageRec
    <2> QED
      BY <2>3, <2>4, <2>5
  <1> QED
    BY <1>1, <1>2 DEF Set

LEMMA SameStage ==
    ASSUME Types, Rows, stage' = stage
    PROVE  /\ stage' \in [Stages -> StageRec]
           /\ \A k \in Stages : StageMoves(k) /\ stage'[k].closed = stage[k].closed
  BY DEF Types, Rows, StageMoves, Final

\* Jobs move alone, each to a state the stage allows.
LEMMA ParentsMove ==
    ASSUME Types, Rows, NEW s \in Stages, NEW p \in Parents,
           parent' = [parent EXCEPT ![s] = p],
           p.at = "queued" => parent[s].at = "queued",
           parent[s].stop => p.stop,
           p.at = "ready" => stage'[s].state \in Final,
           p.at \in {"ready", "ended"} => parent[s].at \in {"ready", "ended"} \/ Settles(s),
           parent[s].at \in {"ready", "ended"} => p.at \in {"ready", "ended"},
           parent[s].at = "ended" => p.at = "ended",
           \A k \in Stages : StageMoves(k),
           \A k \in Stages : stage'[k].closed = stage[k].closed \/ (k = s /\ p.at = "ended")
    PROVE  parent' \in [Stages -> Parents] /\ \A k \in Stages : ParentMoves(k)
  <1>1. parent' \in [Stages -> Parents]
    BY DEF Types
  <1>2. parent'[s] = p /\ \A k \in Stages : k # s => parent'[k] = parent[k]
    BY DEF Types
  <1>3. ParentMoves(s)
    BY <1>2 DEF ParentMoves, Rows
  <1>4. ASSUME NEW k \in Stages, k # s PROVE ParentMoves(k)
    BY <1>2, <1>4 DEF ParentMoves, StageMoves, Rows
  <1> QED
    BY <1>1, <1>3, <1>4

LEMMA SettlesQueued == ASSUME Types, Rows, NEW s \in Stages, parent[s].at = "queued" PROVE Settles(s)
  BY DEF Rows, Settles, Stopped

LEMMA SameParents ==
    ASSUME Types, Rows, NEW s \in Stages, parent' = parent,
           \A k \in Stages : StageMoves(k),
           \A k \in Stages : stage'[k].closed = stage[k].closed \/ (k = s /\ parent[k].at = "ended")
    PROVE  parent' \in [Stages -> Parents] /\ \A k \in Stages : ParentMoves(k)
  <1>1. parent' = [parent EXCEPT ![s] = parent[s]] /\ parent[s] \in Parents
    BY DEF Types
  <1>2. parent[s].at = "ready" => stage'[s].state \in Final
    BY DEF Rows, StageMoves
  <1> QED
    BY ZenonT(60), <1>1, <1>2, ParentsMove

LEMMA CloseMoves ==
    ASSUME Types, Rows, NEW s \in Stages, Abandon(s), Stopped(s, now), parent[s].at = "ended"
    PROVE  /\ stage' \in [Stages -> StageRec]
           /\ \A k \in Stages : StageMoves(k) /\ (k # s => stage'[k].closed = stage[k].closed)
  <1>0. stage' = IF stage[s].state = "succeeded" THEN [stage EXCEPT ![s].closed = TRUE]
                 ELSE [stage EXCEPT ![s].state = "cancelled", ![s].retry = 0, ![s].closed = TRUE]
    BY DEF Abandon, Set, Types
  <1>1. \A k \in Stages : k # s => stage'[k] = stage[k]
    BY <1>0 DEF Types
  <1>2. /\ stage[s] \in StageRec
        /\ stage'[s] = IF stage[s].state = "succeeded" THEN [stage[s] EXCEPT !.closed = TRUE]
                       ELSE [stage[s] EXCEPT !.state = "cancelled", !.retry = 0, !.closed = TRUE]
    BY <1>0 DEF Types, StageRec
  <1>3. /\ stage'[s] \in StageRec /\ stage'[s].result = stage[s].result
        /\ stage[s].state = "succeeded" => stage'[s].state = "succeeded"
        /\ stage[s].state # "succeeded" => stage'[s].state = "cancelled"
    <2>1. CASE stage[s].state = "succeeded"
      <3>1. stage'[s] = [stage[s] EXCEPT !.closed = TRUE]
        BY <1>2, <2>1
      <3> QED
        BY <1>2, <2>1, <3>1 DEF StageRec
    <2>2. CASE stage[s].state # "succeeded"
      <3>1. stage'[s] = [stage[s] EXCEPT !.state = "cancelled", !.retry = 0, !.closed = TRUE]
        BY <1>2, <2>2
      <3>2. stage'[s] = [state |-> "cancelled", retry |-> 0, result |-> stage[s].result, closed |-> TRUE]
        BY <1>2, <3>1 DEF StageRec
      <3>3. stage[s].result \in Nat
        BY <1>2 DEF StageRec
      <3> QED
        BY <2>2, <3>2, <3>3 DEF StageRec, States
    <2> QED
      BY <2>1, <2>2
  <1>4. stage' \in [Stages -> StageRec]
    BY <1>0, <1>1, <1>3 DEF Types
  <1>5. ASSUME NEW k \in Stages, k # s PROVE StageMoves(k) /\ stage'[k].closed = stage[k].closed
    BY <1>1, <1>5 DEF Rows, StageMoves, Final
  <1>6. StageMoves(s)
    BY <1>2, <1>3 DEF Rows, StageMoves, Final
  <1> QED
    BY <1>4, <1>5, <1>6

LEMMA AbandonMoves ==
    ASSUME Types, Rows, NEW s \in Stages, Abandon(s), now' = now
    PROVE  RowMoves
  <1> DEFINE over == Stopped(s, now)
  <1>1. att' = att \/ (Settles(s) /\ att' = Ended(s, "cancelled"))
    BY DEF Abandon, Settles
  <1>2. att' \in [Stages -> Seq(AttRec)] /\ \A k \in Stages : AttMoves(k)
    BY <1>1, EndedMoves DEF Outcomes
  <1>3. /\ stage' \in [Stages -> StageRec]
        /\ \A k \in Stages : StageMoves(k)
        /\ \A k \in Stages : stage'[k].closed = stage[k].closed \/ (k = s /\ parent[k].at = "ended")
    <2>1. CASE over /\ parent[s].at = "ended"
      BY <2>1, CloseMoves DEF Abandon
    <2>2. CASE ~(over /\ parent[s].at = "ended")
      <3>1. stage' = Set(s, "cancelled", 0)
        BY <2>2 DEF Abandon
      <3> QED
        BY <3>1, SetMoves DEF States
    <2> QED
      BY <2>1, <2>2
  <1>4. parent' \in [Stages -> Parents] /\ \A k \in Stages : ParentMoves(k)
    BY <1>3, SameParents DEF Abandon
  <1>5. rec' \in [do : {"nothing", "acknowledge", "failqueued"}, s : Stages \cup {0}]
    BY DEF Abandon, NoPost
  <1>6. RecMoves
    <2>1. CASE ~(over /\ parent[s].at # "ended")
      BY <2>1 DEF Abandon, NoPost, RecMoves
    <2>2. CASE over /\ parent[s].at # "ended"
      <3>1. rec'.s = s /\ parent'[s].stop
        BY <2>2 DEF Abandon
      <3>2. Stopped(s, now)'
        <4>1. CASE att[s] = <<>>
          BY <4>1, <2>2 DEF Abandon, Ended, Stopped
        <4>2. CASE att[s] # <<>>
          <5>1. Attempts(s) \in 1..Attempts(s) /\ att[s][Attempts(s)] \in AttRec
            BY <4>2, AttTypes
          <5>2. AttMoves(s)
            BY <1>2
          <5>3. att' = Ended(s, "cancelled")
            BY <2>2 DEF Abandon
          <5>4. att'[s][Attempts(s)].outcome # "none"
            BY <5>1, <5>2, <5>3, <4>2 DEF Ended, Types, AttRec, Attempts
          <5>5. Attempts(s)' = Attempts(s)
            BY <5>2 DEF AttMoves, Attempts
          <5> QED
            BY <5>4, <5>5 DEF Stopped
        <4> QED
          BY <4>1, <4>2
      <3> QED
        BY <3>1, <3>2 DEF RecMoves
    <2> QED
      BY <2>1, <2>2
  <1> QED
    BY <1>2, <1>3, <1>4, <1>5, <1>6 DEF RowMoves, RowTypes

LEMMA AwaitMoves ==
    ASSUME Types, Rows, NEW s \in Stages, Await(s), now' = now
    PROVE  RowMoves
  <1>1. att' \in [Stages -> Seq(AttRec)] /\ \A k \in Stages : AttMoves(k)
    BY EndedMoves DEF Outcomes, Await
  <1>2. /\ stage' \in [Stages -> StageRec]
        /\ \A k \in Stages : StageMoves(k) /\ stage'[k].closed = stage[k].closed
    BY SetMoves DEF Await, States
  <1>3. parent' \in [Stages -> Parents] /\ \A k \in Stages : ParentMoves(k)
    BY <1>2, SameParents DEF Await
  <1>4. RecMoves /\ rec' \in [do : {"nothing", "acknowledge", "failqueued"}, s : Stages \cup {0}]
    BY DEF Await, RecMoves
  <1> QED
    BY <1>1, <1>2, <1>3, <1>4 DEF RowMoves, RowTypes

LEMMA RepairMoves ==
    ASSUME Types, Rows, NEW s \in Stages, Repair(s), now' = now
    PROVE  RowMoves
  <1> DEFINE state == IF stage[s].state \in {"succeeded", "failed", "cancelled"} THEN stage[s].state
                      ELSE IF Hopeless(s) THEN "failed"
                      ELSE IF stage[s].state = "running" /\ Stopped(s, now) THEN "queued" ELSE stage[s].state
  <1>1. att' = att \/ (Settles(s) /\ att' = Ended(s, "expired"))
    BY DEF Repair, Settles
  <1>2. att' \in [Stages -> Seq(AttRec)] /\ \A k \in Stages : AttMoves(k)
    BY <1>1, EndedMoves DEF Outcomes
  <1>3. /\ stage[s].state \in States
        /\ stage' = stage \/ stage' = Set(s, state, 0)
        /\ state = stage[s].state => stage' = stage
        /\ state # stage[s].state => stage[s].state \notin Final /\ stage' = Set(s, state, 0)
    BY DEF Repair, Types, StageRec, Final
  <1>4. state = stage[s].state \/ state = "failed"
        \/ (state = "queued" /\ stage[s].state = "running" /\ Settles(s))
    BY DEF Settles
  <1> HIDE DEF state
  <1>5. /\ stage' \in [Stages -> StageRec]
        /\ \A k \in Stages : StageMoves(k) /\ stage'[k].closed = stage[k].closed
    BY <1>3, <1>4, SetMoves, SameStage DEF States
  <1>6. stage'[s].state = state
    <2>1. CASE state = stage[s].state
      BY <1>3, <2>1
    <2>2. CASE state # stage[s].state
      <3>1. stage' = [stage EXCEPT ![s].state = state, ![s].retry = 0] /\ stage[s] \in StageRec
        BY <1>3, <2>2 DEF Set, Final, Types
      <3> QED
        BY <3>1 DEF Types, StageRec
    <2> QED
      BY <2>1, <2>2
  <1>7. /\ parent' = parent \/ (Wakes(s) /\ parent' = [parent EXCEPT ![s].at = "ready"])
        /\ parent' # parent => state \in Final /\ (state = "succeeded" \/ Settles(s))
    BY DEF Repair, state, Woken, WakesNow, Settles, Final
  <1>8. parent' \in [Stages -> Parents] /\ \A k \in Stages : ParentMoves(k)
    <2>1. CASE parent' = parent
      BY <2>1, <1>5, SameParents
    <2>2. CASE parent' # parent
      <3> DEFINE p == [parent[s] EXCEPT !.at = "ready"]
      <3>1. parent' = [parent EXCEPT ![s] = p] /\ p \in Parents /\ parent[s].at = "waiting"
            /\ p.at = "ready" /\ p.stop = parent[s].stop
        BY <2>2, <1>7 DEF Wakes, Types, Parents
      <3>2. Settles(s)
        <4>1. CASE state = "succeeded"
          BY <4>1, <1>3, <1>4 DEF Rows, Settles, Stopped, Final
        <4> QED
          BY <4>1, <1>7, <2>2
      <3>3. stage'[s].state \in Final
        BY <1>6, <1>7, <2>2
      <3> HIDE DEF p
      <3> QED
        BY <3>1, <3>2, <3>3, <1>5, ParentsMove
    <2> QED
      BY <2>1, <2>2
  <1>9. RecMoves /\ rec' \in [do : {"nothing", "acknowledge", "failqueued"}, s : Stages \cup {0}]
    BY DEF Repair, RecMoves, Types
  <1> QED
    BY <1>2, <1>5, <1>8, <1>9 DEF RowMoves, RowTypes

\* The steps that write rows and neither a worker nor its renewal.
Server == \/ \E s \in Stages : Dispatch(s) \/ StopJob(s) \/ Supersede(s) \/ Reconcile(s)
          \/ Post \/ Restart

LEMMA ServerStep == ASSUME IInv, Server PROVE Moves
  <1> USE DEF IInv
  <1>1. now' = now /\ wk' = wk /\ beat' = beat
    BY DEF Server, Dispatch, StopJob, Supersede, Reconcile, Post, Restart
  <1>2. \A w \in Workers : WorkMoves(w) /\ BeatMoves(w)
    BY <1>1, SameWork, SameBeat
  <1>3. ASSUME NEW s \in Stages, NEW p \in Parents, UNCHANGED <<stage, att>>, rec' = rec \/ rec' = NoPost,
               parent' = [parent EXCEPT ![s] = p],
               p.at = "queued" => parent[s].at = "queued",
               parent[s].stop => p.stop,
               p.at = "ready" => parent[s].at = "ready",
               p.at \in {"ready", "ended"} => parent[s].at \in {"ready", "ended"} \/ Settles(s),
               parent[s].at \in {"ready", "ended"} => p.at \in {"ready", "ended"},
               parent[s].at = "ended" => p.at = "ended"
        PROVE  RowMoves
    <2>1. att' \in [Stages -> Seq(AttRec)] /\ \A k \in Stages : AttMoves(k)
      BY <1>3, EndedMoves DEF Outcomes
    <2>2. /\ stage' \in [Stages -> StageRec]
          /\ \A k \in Stages : StageMoves(k) /\ stage'[k].closed = stage[k].closed
      BY <1>3, SameStage
    <2>3. p.at = "ready" => stage'[s].state \in Final
      BY <1>3 DEF Rows
    <2>4. parent' \in [Stages -> Parents] /\ \A k \in Stages : ParentMoves(k)
      BY <1>3, <2>2, <2>3, ParentsMove
    <2>5. RecMoves /\ rec' \in [do : {"nothing", "acknowledge", "failqueued"}, s : Stages \cup {0}]
      BY <1>3 DEF RecMoves, NoPost, Types
    <2> QED
      BY <2>1, <2>2, <2>4, <2>5 DEF RowMoves, RowTypes
  <1>4. ASSUME NEW s \in Stages, Dispatch(s) PROVE RowMoves
    <2>1. [parent[s] EXCEPT !.at = "waiting"] \in Parents /\ parent' = [parent EXCEPT ![s] = [parent[s] EXCEPT !.at = "waiting"]]
      BY <1>4 DEF Dispatch, Types, Parents
    <2> QED
      BY <1>3, <1>4, <2>1 DEF Dispatch, Types, Parents
  <1>5. ASSUME NEW s \in Stages, StopJob(s) PROVE RowMoves
    <2>1. parent[s] \in Parents
      BY DEF Types
    <2>2. CASE parent[s].at = "queued"
      <3>1. [parent[s] EXCEPT !.at = "ended"] \in Parents /\ parent' = [parent EXCEPT ![s] = [parent[s] EXCEPT !.at = "ended"]]
        BY <1>5, <2>1, <2>2 DEF StopJob, Parents, Types
      <3> QED
        BY <1>3, <1>5, <2>1, <2>2, <3>1, SettlesQueued DEF StopJob, Parents
    <2>3. CASE parent[s].at # "queued"
      <3>1. [parent[s] EXCEPT !.stop = TRUE] \in Parents /\ parent' = [parent EXCEPT ![s] = [parent[s] EXCEPT !.stop = TRUE]]
        BY <1>5, <2>1, <2>3 DEF StopJob, Parents, Types
      <3> QED
        BY <1>3, <1>5, <2>1, <2>3, <3>1 DEF StopJob, Parents
    <2> QED
      BY <2>2, <2>3
  <1>6. ASSUME NEW s \in Stages, Supersede(s) PROVE RowMoves
    <2>1. [parent[s] EXCEPT !.void = TRUE] \in Parents /\ parent' = [parent EXCEPT ![s] = [parent[s] EXCEPT !.void = TRUE]]
      BY <1>6 DEF Supersede, Types, Parents
    <2> QED
      BY <1>3, <1>6, <2>1 DEF Supersede, Types, Parents
  <1>7. ASSUME NEW s \in Stages, Reconcile(s) PROVE RowMoves
    BY <1>1, <1>7, AbandonMoves, AwaitMoves, RepairMoves DEF Reconcile
  <1>8. ASSUME Post PROVE RowMoves
    <2>1. rec.s \in Stages
      BY <1>8 DEF Post, Rows, NoPost, Types
    <2>2. parent[rec.s] \in Parents
      BY <2>1 DEF Types
    <2>3. CASE parent' = parent
      <3>1. parent' = [parent EXCEPT ![rec.s] = parent[rec.s]]
        BY <2>1, <2>3 DEF Types
      <3> QED
        BY <1>3, <1>8, <2>1, <2>2, <3>1 DEF Post
    <2>4. CASE /\ parent' = [parent EXCEPT ![rec.s].at = "ended"]
               /\ rec.do = "acknowledge" \/ parent[rec.s].at = "queued"
      <3>1. [parent[rec.s] EXCEPT !.at = "ended"] \in Parents /\ parent' = [parent EXCEPT ![rec.s] = [parent[rec.s] EXCEPT !.at = "ended"]]
        BY <2>1, <2>2, <2>4 DEF Types, Parents
      <3>2. Settles(rec.s)
        BY <2>1, <2>4, SettlesQueued DEF Rows, Settles
      <3> QED
        BY <1>3, <1>8, <2>1, <2>2, <3>1, <3>2 DEF Post, Parents
    <2> QED
      BY <1>8, <2>3, <2>4 DEF Post
  <1>9. ASSUME Restart PROVE RowMoves
    <2>1. rec.s \in Stages
      BY <1>9 DEF Restart, Rows, NoPost, Types
    <2>2. parent[rec.s] \in Parents /\ parent' = [parent EXCEPT ![rec.s] = parent[rec.s]]
      BY <1>9, <2>1 DEF Restart, Types
    <2> QED
      BY <1>3, <1>9, <2>1, <2>2 DEF Restart
  <1> QED
    BY <1>1, <1>2, <1>4, <1>5, <1>6, <1>7, <1>8, <1>9 DEF Server, Moves, Types

LEMMA QuietStep == ASSUME IInv, NEW w \in Workers, Quiet(w) PROVE Moves
  BY QuietWork, QuietBeat, SameRows DEF IInv, Types, Moves

LEMMA TickStep == ASSUME IInv, Tick PROVE Moves
  <1> USE DEF IInv
  <1>1. now' = now + 1 /\ wk' = wk /\ beat' = beat /\ UNCHANGED rows
    BY DEF Tick
  <1>2. ASSUME NEW w \in Workers PROVE WorkMoves(w)
    BY <1>1 DEF Tick, Due, Runs, Types, Leases, WorkMoves, Holder, WorkRec, WorkPc, Codes
  <1> QED
    BY <1>1, <1>2, SameBeat, SameRows DEF Moves, Types

LEMMA RenewStep ==
    ASSUME IInv, NEW w \in Workers, NEW t \in beat[w].sent..now, RenewMediaLease(w, t)
    PROVE  Moves
  <1> DEFINE s == beat[w].s
             n == beat[w].n
  <1> USE DEF IInv
  <1>1. /\ now' = now /\ stage' = stage /\ parent' = parent /\ rec' = rec /\ wk' = wk
        /\ beat[w].pc = "sent" /\ Authorized(s, n, t) = "ok"
        /\ att'  = [att EXCEPT ![s][n].end = LeaseEnd(t)]
        /\ beat' = [beat EXCEPT ![w].pc = "granted", ![w].until = Remaining(beat[w].sent, LeaseEnd(t))]
    BY DEF RenewMediaLease
  <1>2. s \in Stages /\ n \in 1..Attempts(s) /\ beat[w] \in BeatRec /\ beat[w].sent <= now /\ t \in Nat
    BY <1>1 DEF Tokens, Beating, Leases, Types, BeatRec
  <1>3. n = Attempts(s) /\ stage[s].state = "running" /\ att[s][n].outcome = "none" /\ ParentAnswer(s) = "ok"
    BY <1>1 DEF Authorized, Live
  <1>4. att[s] \in Seq(AttRec) /\ att[s][n] \in AttRec /\ LeaseEnd(t) \in Nat
    BY <1>2, AttTypes, LeaseEnds
  <1> HIDE DEF s, n
  <1>5. /\ att'[s] = [att[s] EXCEPT ![n] = [att[s][n] EXCEPT !.end = LeaseEnd(t)]]
        /\ \A k \in Stages : k # s => att'[k] = att[k]
    BY <1>1, <1>2 DEF Types
  <1>6. /\ att'[s] \in Seq(AttRec) /\ Len(att'[s]) = Attempts(s)
        /\ \A i \in 1..Attempts(s) :
             att'[s][i] = IF i = n THEN [att[s][n] EXCEPT !.end = LeaseEnd(t)] ELSE att[s][i]
    BY SMTT(30), <1>2, <1>4, <1>5 DEF Attempts, AttRec
  <1>7. att'[s][n].end = LeaseEnd(t) /\ att'[s][n].outcome = att[s][n].outcome
    BY <1>2, <1>4, <1>6 DEF AttRec
  <1>8. beat'[w].pc = "granted" /\ beat[w].s = s /\ beat[w].n = n
    BY <1>1 DEF s, n, Types
  <1>9. Extends(s, n)
    BY <1>1, <1>3, <1>7, <1>8 DEF Extends
  <1>10. AttMoves(s)
    BY <1>6, <1>7, <1>9 DEF AttMoves
  <1>11. ASSUME NEW k \in Stages, k # s PROVE AttMoves(k)
    BY <1>5, <1>11 DEF AttMoves, Attempts
  <1>12. att' \in [Stages -> Seq(AttRec)]
    BY <1>1, <1>5, <1>6 DEF Types
  <1>13. RowMoves
    <2>1. /\ stage' \in [Stages -> StageRec]
          /\ \A k \in Stages : StageMoves(k) /\ stage'[k].closed = stage[k].closed
      BY <1>1, SameStage
    <2>2. parent' \in [Stages -> Parents] /\ \A k \in Stages : ParentMoves(k)
      BY <1>1, <1>2, <2>1, SameParents
    <2>3. RecMoves /\ rec' \in [do : {"nothing", "acknowledge", "failqueued"}, s : Stages \cup {0}]
      BY <1>1 DEF RecMoves, Types
    <2> QED
      BY <1>10, <1>11, <1>12, <2>1, <2>2, <2>3 DEF RowMoves, RowTypes
  <1>14. BeatMoves(w)
    <2>1. Remaining(beat[w].sent, LeaseEnd(t)) \in Nat /\ Remaining(beat[w].sent, LeaseEnd(t)) <= LeaseEnd(t)
      BY <1>2, <1>4, Remains DEF Types, BeatRec
    <2>2. beat'[w] = [beat[w] EXCEPT !.pc = "granted", !.until = Remaining(beat[w].sent, LeaseEnd(t))]
      BY <1>1 DEF Types
    <2>3. /\ beat'[w] \in BeatRec /\ beat'[w].until <= LeaseEnd(t)
          /\ beat'[w].s = s /\ beat'[w].n = n /\ beat'[w].sent = beat[w].sent
      BY <1>2, <1>8, <2>1, <2>2 DEF BeatRec
    <2> QED
      BY <1>1, <1>7, <1>8, <2>3 DEF BeatMoves
  <1>15. ASSUME NEW v \in Workers \ {w} PROVE BeatMoves(v)
    BY <1>1, SameBeat DEF Types
  <1> QED
    BY <1>1, <1>13, <1>14, <1>15, SameWork DEF Moves, Types

LEMMA AcceptEnds == ASSUME NEW w \in Workers, Accept(w) PROVE Ends(w) /\ beat' = beat
  <1> DEFINE answer == SecondAnswer(wk[w].s, wk[w].n)
  <1>1. wk[w].pc \in {"checked", "orphan"} /\ beat' = beat
    BY DEF Accept
  <1>2. answer \in {"published", "lost", "cancelled", "ok"}
    BY DEF SecondAnswer, AcceptAnswer, Authorized, ParentAnswer
  <1>3. Ends(w)
    <2>1. \/ At(w, "orphan") /\ Free(w)
          \/ Takes(w, IF answer = "ok" THEN "published" ELSE answer)
          \/ Unanswered(w)
      BY DEF Accept
    <2> HIDE DEF answer
    <2>2. CASE Takes(w, IF answer = "ok" THEN "published" ELSE answer)
      BY <1>1, <1>2, <2>2 DEF Ends, Holder, Takes, Free, Failing
    <2> QED
      BY <1>1, <2>1, <2>2 DEF Ends, Holder, Unanswered, Free, Failing
  <1> QED
    BY <1>1, <1>3

LEMMA AcceptStep == ASSUME IInv, NEW w \in Workers, Accept(w) PROVE Moves
  <1> DEFINE s == wk[w].s
             n == wk[w].n
             answer == SecondAnswer(s, n)
  <1> USE DEF IInv
  <1>1. /\ now' = now /\ beat' = beat /\ rec' = rec
        /\ wk[w].pc \in {"checked", "orphan"} /\ s \in Stages /\ n \in 1..Attempts(s)
    BY DEF Accept, Tokens, Holder
  <1>3. Ends(w)
    BY AcceptEnds
  <1>4. \A v \in Workers : WorkMoves(v) /\ BeatMoves(v)
    BY <1>1, <1>3, EndsMoves, SameBeat
  <1>5. CASE answer # "ok"
    <2>1. UNCHANGED rows
      BY <1>5 DEF Accept, rows
    <2> QED
      BY <1>1, <1>4, <2>1, SameRows DEF Moves, Types
  <1>6. CASE answer = "ok"
    <2>1. /\ stage'  = [stage EXCEPT ![s].state = "succeeded", ![s].result = n]
          /\ att'    = [att EXCEPT ![s][n].outcome = "succeeded"]
          /\ parent' = Woken(s)
      BY <1>6 DEF Accept
    <2>2. n = Attempts(s) /\ att[s][n].outcome = "none"
      BY <1>6 DEF SecondAnswer, AcceptAnswer, Authorized, Live
    <2> HIDE DEF answer
    <2>3. att[s] # <<>> /\ Settles(s)
      BY <1>1, <2>2, AttTypes DEF Settles
    <2>4. att' = Ended(s, "succeeded")
      BY <2>1, <2>2, <2>3 DEF Ended
    <2>5. att' \in [Stages -> Seq(AttRec)] /\ \A k \in Stages : AttMoves(k)
      BY <1>1, <2>3, <2>4, EndedMoves DEF Outcomes
    <2>6. att'[s][n].outcome = "succeeded"
      BY <1>1, <2>1, AttTypes DEF Types, AttRec, Attempts
    <2>7. /\ \A k \in Stages : k # s => stage'[k] = stage[k]
          /\ stage'[s] = [stage[s] EXCEPT !.state = "succeeded", !.result = n] /\ stage[s] \in StageRec
          /\ n \in Nat
      BY <1>1, <2>1 DEF Types, Attempts, WorkRec, WorkPc, Codes
    <2>8. stage'[s] \in StageRec /\ stage'[s].state = "succeeded" /\ stage'[s].closed = stage[s].closed
      BY <2>7 DEF StageRec, States
    <2>9. stage' \in [Stages -> StageRec]
      BY <2>1, <2>7, <2>8 DEF Types
    <2>10. StageMoves(s)
      BY <2>2, <2>3, <2>6, <2>8 DEF StageMoves, Final
    <2>11. ASSUME NEW k \in Stages, k # s PROVE StageMoves(k)
      BY <2>7, <2>11 DEF Rows, StageMoves, Final
    <2>12. parent' \in [Stages -> Parents] /\ \A k \in Stages : ParentMoves(k)
      <3>1. CASE parent' = parent
        BY <1>1, <2>7, <2>8, <2>10, <2>11, <3>1, SameParents
      <3>2. CASE Wakes(s) /\ parent' = [parent EXCEPT ![s].at = "ready"]
        <4> DEFINE p == [parent[s] EXCEPT !.at = "ready"]
        <4>1. parent' = [parent EXCEPT ![s] = p] /\ p \in Parents /\ parent[s].at = "waiting"
              /\ p.at = "ready" /\ p.stop = parent[s].stop
          BY <1>1, <3>2 DEF Wakes, Types, Parents
        <4>2. stage'[s].state \in Final
          BY <2>8 DEF Final
        <4> HIDE DEF p
        <4> QED
          BY <1>1, <2>3, <2>7, <2>8, <2>10, <2>11, <4>1, <4>2, ParentsMove
      <3> QED
        BY <2>1, <3>1, <3>2 DEF Woken
    <2>13. RecMoves /\ rec' \in [do : {"nothing", "acknowledge", "failqueued"}, s : Stages \cup {0}]
      BY <1>1 DEF RecMoves, Types
    <2>14. RowMoves
      BY <2>5, <2>9, <2>10, <2>11, <2>12, <2>13 DEF RowMoves, RowTypes
    <2> QED
      BY <1>1, <1>4, <2>14 DEF Moves, Types
  <1> QED
    BY <1>5, <1>6

LEMMA FailStep ==
    ASSUME IInv, NEW w \in Workers, NEW t \in wk[w].sent..now, FailMediaStage(w, t)
    PROVE  Moves
  <1> DEFINE s == wk[w].s
             n == wk[w].n
  <1> USE DEF IInv
  <1>1. /\ now' = now /\ beat' = beat /\ rec' = rec /\ parent' = parent /\ wk[w].pc = "failing"
        /\ s \in Stages /\ n \in 1..Attempts(s) /\ t \in Nat
    BY DEF FailMediaStage, At, Tokens, Holder, Types, WorkRec, WorkPc, Codes
  <1>2. \A v \in Workers : WorkMoves(v) /\ BeatMoves(v)
    <2>1. Ends(w)
      BY DEF FailMediaStage, Free, Ends
    <2> QED
      BY <1>1, <2>1, EndsMoves, SameBeat
  <1>3. \/ stage' = stage /\ att' = att
        \/ n = Attempts(s) /\ stage' = Set(s, "cancelled", 0) /\ att' = Ended(s, "cancelled")
        \/ /\ Live(s, n, t) /\ att' = Ended(s, "failed")
           /\ stage' = Set(s, "queued", t + Retry) \/ stage' = Set(s, "failed", 0)
    BY DEF FailMediaStage
  <1>4. n = Attempts(s) => Settles(s)
    BY <1>1 DEF Settles
  <1>5. Live(s, n, t) => n = Attempts(s) /\ stage[s].state = "running"
    BY DEF Live
  <1>6. t + Retry \in Nat
    BY <1>1, LimitsAssumption
  <1> HIDE DEF s, n
  <1>7. att' \in [Stages -> Seq(AttRec)] /\ \A k \in Stages : AttMoves(k)
    <2>1. att' = att \/ (Settles(s) /\ att' = Ended(s, "cancelled")) \/ (Settles(s) /\ att' = Ended(s, "failed"))
      BY <1>3, <1>4, <1>5
    <2> QED
      BY <1>1, <2>1, EndedMoves DEF Outcomes
  <1>8. /\ stage' \in [Stages -> StageRec]
        /\ \A k \in Stages : StageMoves(k) /\ stage'[k].closed = stage[k].closed
    <2>1. CASE stage' = stage
      BY <2>1, SameStage
    <2>2. CASE stage' = Set(s, "cancelled", 0)
      BY <1>1, <2>2, SetMoves DEF States
    <2>3. CASE stage' = Set(s, "failed", 0)
      BY <1>1, <2>3, SetMoves DEF States
    <2>4. CASE stage' = Set(s, "queued", t + Retry) /\ Live(s, n, t)
      BY <1>1, <1>4, <1>5, <1>6, <2>4, SetMoves DEF States
    <2> QED
      BY <1>3, <2>1, <2>2, <2>3, <2>4
  <1>9. parent' \in [Stages -> Parents] /\ \A k \in Stages : ParentMoves(k)
    BY <1>1, <1>8, SameParents
  <1>10. RecMoves /\ rec' \in [do : {"nothing", "acknowledge", "failqueued"}, s : Stages \cup {0}]
    BY <1>1 DEF RecMoves, Types
  <1>11. RowMoves
    BY <1>7, <1>8, <1>9, <1>10 DEF RowMoves, RowTypes
  <1> QED
    BY <1>1, <1>2, <1>11 DEF Moves, Types

\* A claim that is granted.
Granted == \E w \in Workers : \E t \in wk[w].sent..now : ClaimMediaStage(w, t)

LEMMA StepMoves == ASSUME IInv, [Next]_vars, ~Granted PROVE Moves
  <1>1. CASE UNCHANGED vars
    BY <1>1, SameWork, SameBeat, SameRows DEF vars, IInv, Types, Moves
  <1>2. CASE Server \/ Tick
    BY <1>2, ServerStep, TickStep
  <1>3. ASSUME NEW w \in Workers, Quiet(w) PROVE Moves
    BY <1>3, QuietStep
  <1>4. ASSUME NEW w \in Workers, Accept(w) PROVE Moves
    BY <1>4, AcceptStep
  <1>5. ASSUME NEW w \in Workers, NEW t \in wk[w].sent..now, FailMediaStage(w, t) PROVE Moves
    BY <1>5, FailStep
  <1>6. ASSUME NEW w \in Workers, NEW t \in beat[w].sent..now, RenewMediaLease(w, t) PROVE Moves
    BY <1>6, RenewStep
  <1> QED
    BY <1>1, <1>2, <1>3, <1>4, <1>5, <1>6 DEF Next, Server, Quiet, Granted

-----------------------------------------------------------------------------
(* The invariant, kept by every other step. *)

LEMMA NobodyLeads ==
    ASSUME IInv, NEW s \in Stages, Settles(s), NEW w \in Workers, Leads(w), wk[w].s = s
    PROVE  FALSE
  <1> USE DEF IInv
  <1>1. Holder(w) /\ wk[w].n = Attempts(s) /\ Attempts(s) \in 1..Attempts(s)
    BY DEF Leads, Leading, Holder, Tokens
  <1>2. att[s][Attempts(s)].outcome = "none" /\ att[s][Attempts(s)].end >= wk[w].until /\ wk[w].until > now
    BY <1>1, AttTypes DEF Leads, Leading, Leases, Types, WorkRec, WorkPc, Codes, AttRec
  <1>3. ~Stopped(s, now)
    <2>1. /\ att[s] # <<>> /\ now \in Nat /\ wk[w].until \in Nat
          /\ att[s][Attempts(s)].end \in Nat
      <3>1. wk[w] \in WorkRec /\ now \in Nat
        BY DEF Types
      <3>2. att[s] # <<>> /\ att[s][Attempts(s)] \in AttRec
        BY <1>1, AttTypes
      <3> QED
        BY <3>1, <3>2 DEF WorkRec, WorkPc, Codes, AttRec
    <2> QED
      BY <1>2, <2>1 DEF Stopped
  <1>4. ASSUME NEW v \in Workers, wk[v].pc \in {"checked", "orphan", "failing"}, wk[v].s = s, wk[v].n = Attempts(s)
        PROVE  FALSE
    BY <1>1, <1>4 DEF Tokens, Holder, Leads
  <1> QED
    BY <1>3, <1>4 DEF Settles

LEMMA LedBefore ==
    ASSUME IInv, Moves, NEW w \in Workers, Leads(w)'
    PROVE  Leads(w) /\ wk'[w].s = wk[w].s /\ wk'[w].n = wk[w].n
  BY DEF IInv, Types, Leases, Moves, WorkMoves, Leads, Holder, WorkRec, WorkPc, Codes

LEMMA SameAttempts ==
    ASSUME IInv, Moves, NEW s \in Stages
    PROVE  /\ Attempts(s)' = Attempts(s) /\ (att[s] = <<>> => att'[s] = <<>>)
           /\ \A n \in 1..Attempts(s) : att'[s][n] \in AttRec
  BY AttTypes DEF IInv, Types, Moves, RowMoves, RowTypes, AttMoves, Attempts

\* A renewal is the only step that changes a lease, and it extends it.
LEMMA LeasesGrow ==
    ASSUME IInv, Moves, NEW s \in Stages, NEW n \in 1..Attempts(s)
    PROVE  /\ att'[s][n].end >= att[s][n].end
           /\ att'[s][n].end <= now' + TTL /\ att'[s][n].end <= Deadline
  <1> USE DEF IInv
  <1>1. /\ att[s][n] \in AttRec /\ now' >= now /\ now' \in Nat /\ now \in Nat
        /\ att[s][n].end <= now + TTL /\ att[s][n].end <= Deadline
    BY AttTypes DEF Leases, Moves, Types
  <1>2. CASE att'[s][n].end = att[s][n].end
    BY <1>1, <1>2, LimitsAssumption DEF AttRec
  <1>3. CASE Extends(s, n)
    <2>1. PICK w \in Workers : /\ beat[w].pc = "sent" /\ beat[w].s = s /\ beat[w].n = n
                              /\ \E t \in beat[w].sent..now : att'[s][n].end = LeaseEnd(t)
      BY <1>3 DEF Extends
    <2>2. PICK t \in beat[w].sent..now : att'[s][n].end = LeaseEnd(t)
      BY <2>1
    <2>3. att[s][n].end <= beat[w].sent + TTL /\ beat[w].sent \in Nat
      BY <2>1 DEF Leases, Types, BeatRec
    <2>4. t \in Nat /\ t <= now /\ t >= beat[w].sent
      BY <1>1, <2>2, <2>3
    <2>5. att[s][n].end <= t + TTL
      BY <1>1, <2>3, <2>4, LimitsAssumption DEF AttRec
    <2>6. att[s][n].end <= LeaseEnd(t) /\ LeaseEnd(t) <= t + TTL /\ LeaseEnd(t) <= Deadline /\ LeaseEnd(t) \in Nat
      BY <1>1, <2>4, <2>5, LeaseEnds DEF AttRec
    <2> QED
      BY <1>1, <2>2, <2>4, <2>6, LimitsAssumption DEF AttRec
  <1> QED
    BY <1>2, <1>3 DEF Moves, RowMoves, AttMoves

LEMMA TokensKept == ASSUME IInv, Moves PROVE Tokens'
  <1> USE DEF IInv
  <1>1. ASSUME NEW w \in Workers, Holder(w)'
        PROVE  Holder(w) /\ wk'[w].s = wk[w].s /\ wk'[w].n = wk[w].n
    BY <1>1 DEF Moves, WorkMoves
  <1>2. ASSUME NEW w \in Workers, Beating(w)'
        PROVE  \/ Beating(w) /\ beat'[w].s = beat[w].s /\ beat'[w].n = beat[w].n
               \/ Holder(w) /\ beat'[w].s = wk[w].s /\ beat'[w].n = wk[w].n
    BY <1>2 DEF Moves, BeatMoves, Beating
  <1>3. ASSUME NEW w \in Workers, Holder(w)'
        PROVE  wk'[w].s \in Stages /\ wk'[w].n \in 1..Len(att'[wk'[w].s])
    BY <1>1, <1>3, SameAttempts DEF Tokens, Attempts
  <1>4. ASSUME NEW w \in Workers, Beating(w)'
        PROVE  beat'[w].s \in Stages /\ beat'[w].n \in 1..Len(att'[beat'[w].s])
    BY <1>2, <1>4, SameAttempts DEF Tokens, Attempts
  <1>5. ASSUME NEW w \in Workers, NEW v \in Workers \ {w}
        PROVE  /\ Holder(w)' /\ Holder(v)'   => <<wk'[w].s, wk'[w].n>> # <<wk'[v].s, wk'[v].n>>
               /\ Holder(w)' /\ Beating(v)'  => <<wk'[w].s, wk'[w].n>> # <<beat'[v].s, beat'[v].n>>
               /\ Beating(w)' /\ Beating(v)' => <<beat'[w].s, beat'[w].n>> # <<beat'[v].s, beat'[v].n>>
    BY <1>1, <1>2 DEF Tokens
  <1> QED
    BY <1>3, <1>4, <1>5 DEF Tokens, Attempts

LEMMA LeasesKept == ASSUME IInv, Moves PROVE Leases'
  <1> USE DEF IInv
  <1>1. ASSUME NEW s \in Stages, NEW n \in 1..Attempts(s)'
        PROVE  att'[s][n].end <= now' + TTL /\ att'[s][n].end <= Deadline
    BY SameAttempts, LeasesGrow
  <1>2. ASSUME NEW w \in Workers, wk'[w].pc \in {"granted", "executing"}
        PROVE  wk'[w].until <= att'[wk'[w].s][wk'[w].n].end
    <2> DEFINE s == wk[w].s
               n == wk[w].n
    <2>1. /\ wk'[w].s = s /\ wk'[w].n = n /\ Holder(w) /\ s \in Stages /\ n \in 1..Attempts(s)
          /\ wk[w].pc \in {"granted", "executing"}
      BY <1>2 DEF Moves, WorkMoves, Holder, Tokens
    <2>2. wk[w].until <= att[s][n].end /\ att[s][n] \in AttRec /\ att'[s][n] \in AttRec /\ wk[w] \in WorkRec
      BY <2>1, AttTypes, SameAttempts DEF Leases, Types
    <2>3. att'[s][n].end >= att[s][n].end
      BY <2>1, LeasesGrow
    <2>4. CASE wk'[w].until = wk[w].until
      BY <2>1, <2>2, <2>3, <2>4 DEF AttRec, WorkRec, WorkPc, Codes
    <2>5. CASE beat[w].pc = "granted" /\ beat[w].s = s /\ beat[w].n = n /\ wk'[w].until = beat[w].until
      BY SMTT(30), <2>1, <2>2, <2>3, <2>5 DEF Leases, Types, AttRec, BeatRec
    <2> QED
      BY <1>2, <2>4, <2>5 DEF Moves, WorkMoves
  <1>3. ASSUME NEW w \in Workers
        PROVE  /\ wk'[w].pc = "claiming" => wk'[w].sent <= now'
               /\ wk'[w].pc = "executing" => wk'[w].until > now'
    BY DEF Moves, WorkMoves
  <1>4. ASSUME NEW w \in Workers, Beating(w)'
        PROVE  /\ beat'[w].sent <= now'
               /\ beat'[w].pc = "sent" => att'[beat'[w].s][beat'[w].n].end <= beat'[w].sent + TTL
               /\ beat'[w].pc = "granted" => beat'[w].until <= att'[beat'[w].s][beat'[w].n].end
    <2> DEFINE s == beat[w].s
               n == beat[w].n
    <2>0. now' >= now /\ now \in Nat /\ now' \in Nat /\ beat[w] \in BeatRec
      BY DEF Moves, Types
    <2>1. CASE beat'[w] = beat[w]
      <3>1. Beating(w) /\ s \in Stages /\ n \in 1..Attempts(s) /\ beat[w].sent <= now
        BY <1>4, <2>1 DEF Beating, Tokens, Leases
      <3>2. att'[s][n] \in AttRec /\ att[s][n] \in AttRec /\ att'[s][n].end >= att[s][n].end
        BY <3>1, AttTypes, SameAttempts, LeasesGrow
      <3>3. beat[w].pc = "sent" => ~Extends(s, n)
        BY <2>1, <3>1 DEF Extends, Tokens, Beating
      <3>4. beat[w].pc = "sent" => att'[s][n].end = att[s][n].end
        BY <3>1, <3>3 DEF Moves, RowMoves, AttMoves
      <3>5. /\ beat[w].pc = "sent" => att[s][n].end <= beat[w].sent + TTL
            /\ beat[w].pc = "granted" => beat[w].until <= att[s][n].end
        BY DEF Leases
      <3>6. /\ beat[w].sent \in Nat /\ beat[w].until \in Nat
            /\ att[s][n].end \in Nat /\ att'[s][n].end \in Nat
        BY <2>0, <3>2 DEF BeatRec, AttRec
      <3> QED
        BY <2>0, <2>1, <3>1, <3>2, <3>4, <3>5, <3>6
    <2>2. CASE /\ Holder(w) /\ now' = now /\ att' = att
               /\ beat'[w].pc = "sent" /\ beat'[w].sent = now
               /\ beat'[w].s = wk[w].s /\ beat'[w].n = wk[w].n
      BY <2>0, <2>2 DEF Tokens, Leases
    <2>3. CASE /\ beat[w].pc = "sent" /\ beat'[w].pc = "granted"
               /\ beat'[w].s = beat[w].s /\ beat'[w].n = beat[w].n /\ beat'[w].sent = beat[w].sent
               /\ beat'[w].until <= att'[beat[w].s][beat[w].n].end
      BY <2>0, <2>3 DEF Leases, Beating, BeatRec
    <2> QED
      BY <1>4, <2>1, <2>2, <2>3 DEF Moves, BeatMoves
  <1> QED
    BY <1>1, <1>2, <1>3, <1>4 DEF Leases, Attempts, Beating

LEMMA LeadingKept == ASSUME IInv, Moves PROVE Leading'
  <1> USE DEF IInv
  <1> SUFFICES ASSUME NEW w \in Workers, Leads(w)'
               PROVE  /\ wk'[w].n = Len(att'[wk'[w].s])
                      /\ att'[wk'[w].s][wk'[w].n].outcome = "none"
                      /\ stage'[wk'[w].s].state # "queued"
    BY DEF Leading, Attempts
  <1>1. Leads(w) /\ wk'[w].s = wk[w].s /\ wk'[w].n = wk[w].n
    BY LedBefore
  <1>2. wk[w].s \in Stages /\ wk[w].n \in 1..Attempts(wk[w].s)
    BY <1>1 DEF Tokens, Leads, Holder
  <1>3. ~Settles(wk[w].s)
    BY <1>1, <1>2, NobodyLeads
  <1> QED
    BY <1>1, <1>2, <1>3, SameAttempts DEF Leading, Moves, RowMoves, AttMoves, StageMoves, Attempts

LEMMA RowsKept == ASSUME IInv, Moves PROVE Rows'
  <1> USE DEF IInv
  <1>1. ASSUME NEW s \in Stages
        PROVE  /\ stage'[s].result # 0 => stage'[s].state = "succeeded"
               /\ parent'[s].at = "queued" => att'[s] = <<>>
               /\ parent'[s].at = "ready" => stage'[s].state \in Final
               /\ stage'[s].closed => parent'[s].at = "ended"
    BY SameAttempts DEF Moves, RowMoves, StageMoves, ParentMoves, Rows
  <1>2. ASSUME NEW s \in Stages, stage'[s].state = "succeeded"
        PROVE  att'[s] # <<>> /\ att'[s][Attempts(s)'].outcome # "none"
    <2>1. att[s] # <<>> /\ (stage[s].state = "succeeded" => att[s][Attempts(s)].outcome # "none")
      BY <1>2 DEF Moves, RowMoves, StageMoves, Rows
    <2>2. Attempts(s) \in 1..Attempts(s)
      BY <2>1, AttTypes
    <2>3. Attempts(s)' = Attempts(s) /\ Len(att'[s]) = Attempts(s)
      BY SameAttempts DEF Attempts
    <2> QED
      BY <1>2, <2>1, <2>2, <2>3 DEF Moves, RowMoves, StageMoves, AttMoves
  <1>3. ASSUME NEW s \in Stages, parent'[s].at \in {"ready", "ended"}, NEW w \in Workers, Leads(w)', wk'[w].s = s
        PROVE  FALSE
    <2>1. Leads(w) /\ wk[w].s = s
      BY <1>3, LedBefore
    <2>2. ~Settles(s)
      BY <2>1, NobodyLeads
    <2> QED
      BY <1>3, <2>1, <2>2 DEF Moves, RowMoves, ParentMoves, Rows
  <1>4. rec'.do # "nothing" => rec'.s \in Stages
    BY DEF Moves, RowMoves, RecMoves, Rows
  <1>5. ASSUME rec'.do = "acknowledge" PROVE (parent[rec.s].stop /\ Stopped(rec.s, now))'
    <2>1. CASE rec' = rec
      <3>1. PICK s \in Stages : s = rec.s /\ parent[s].stop /\ Stopped(s, now)
        BY <1>5, <2>1 DEF Rows
      <3>2. parent'[s].stop
        BY <3>1 DEF Moves, RowMoves, ParentMoves
      <3>3. Attempts(s)' = Attempts(s) /\ Attempts(s) \in Nat /\ (att[s] = <<>> => att'[s] = <<>>)
        BY <3>1, SameAttempts, AttTypes
      <3>4. CASE att[s] # <<>>
        <4>1. Attempts(s) \in 1..Attempts(s) /\ att[s][Attempts(s)] \in AttRec
          BY <3>1, <3>4, AttTypes
        <4>2. ~Extends(s, Attempts(s))
          BY <3>1 DEF Extends, ParentAnswer
        <4>3. /\ att'[s][Attempts(s)].end = att[s][Attempts(s)].end
              /\ att[s][Attempts(s)].outcome # "none" => att'[s][Attempts(s)].outcome # "none"
          BY <3>1, <4>1, <4>2 DEF Moves, RowMoves, AttMoves
        <4>4. now' >= now /\ now \in Nat /\ now' \in Nat
          BY DEF Moves, Types
        <4> QED
          BY <2>1, <3>2, <3>3, <3>4, <4>1, <4>3, <4>4, <3>1 DEF Stopped, AttRec
      <3>5. CASE att[s] = <<>>
        BY <2>1, <3>1, <3>2, <3>3, <3>5 DEF Stopped
      <3> QED
        BY <3>4, <3>5
    <2> QED
      BY <1>5, <2>1 DEF Moves, RowMoves, RecMoves
  <1> QED
    BY <1>1, <1>2, <1>3, <1>4, <1>5 DEF Rows, Attempts

(* One element more makes a finite set at most one larger. *)
LEMMA OneMore ==
  ASSUME NEW S, NEW x, IsFiniteSet(S)
  PROVE  /\ IsFiniteSet(S \cup {x})
         /\ Cardinality(S \cup {x}) <= Cardinality(S) + 1
         /\ Cardinality(S \cup {x}) \in Nat
<1> DEFINE c == Cardinality(S)
           d == Cardinality(S \cup {x})
<1>1. IsFiniteSet(S \cup {x}) /\ d = IF x \in S THEN c ELSE c + 1
  BY FS_AddElement
<1>2. c \in Nat
  BY FS_CardinalityType
<1> HIDE DEF c, d
<1>3. d <= c + 1 /\ d \in Nat
  BY <1>1, <1>2
<1> QED
  BY <1>1, <1>3 DEF c, d

LEMMA BusyFinite == IsFiniteSet(BusyRenders) /\ Cardinality(BusyRenders) \in Nat
  BY StagesAssumption, FS_Subset, FS_CardinalityType DEF BusyRenders

LEMMA CapacityKept == ASSUME IInv, Moves PROVE Capacity'
  <1>1. BusyRenders' \subseteq BusyRenders
    BY LedBefore DEF BusyRenders
  <1>2. Cardinality(BusyRenders') <= Cardinality(BusyRenders) /\ Cardinality(BusyRenders') \in Nat
    BY <1>1, BusyFinite, FS_Subset, FS_CardinalityType
  <1> QED
    BY <1>2, BusyFinite, LimitsAssumption DEF IInv, Capacity

LEMMA Functions ==
    ASSUME Types, [Next]_vars
    PROVE  wk' = [w \in Workers |-> wk'[w]] /\ beat' = [w \in Workers |-> beat'[w]]
  <1> DEFINE F(f) == f = [w \in Workers |-> f[w]]
  <1>0. F(wk) /\ F(beat)
    BY DEF Types
  <1>1. ASSUME NEW w \in Workers, Ends(w) PROVE F(wk')
    BY <1>0, <1>1 DEF Ends
  <1>2. ASSUME NEW w \in Workers, Quiet(w) PROVE F(wk') /\ F(beat')
    <2>1. F(wk')
      BY <1>0, <1>1, <1>2, Ending DEF Quiet, Claim, TakeWork, Beat, Renewed, Stop, Free
    <2>2. F(beat')
      BY <1>0, <1>2 DEF Quiet, Claim, TakeWork, Beat, Renewed, Watchdog, AcceptLost, Die, GiveUp,
         NothingClaimed, RenewalRefused, Check, ExecutionFailed, Unbeat
    <2> QED
      BY <2>1, <2>2
  <1>3. CASE Server \/ Tick \/ UNCHANGED vars
    BY <1>0, <1>3 DEF Server, Tick, Dispatch, StopJob, Supersede, Reconcile, Post, Restart, vars
  <1>4. ASSUME NEW w \in Workers, Accept(w) PROVE F(wk') /\ F(beat')
    BY <1>0, <1>1, <1>4, AcceptEnds
  <1>5. ASSUME NEW w \in Workers, NEW t \in wk[w].sent..now, FailMediaStage(w, t) PROVE F(wk') /\ F(beat')
    BY <1>0, <1>5 DEF FailMediaStage, Free
  <1>6. ASSUME NEW w \in Workers, NEW t \in beat[w].sent..now, RenewMediaLease(w, t) PROVE F(wk') /\ F(beat')
    BY <1>0, <1>6 DEF RenewMediaLease
  <1>7. ASSUME NEW w \in Workers, NEW t \in wk[w].sent..now, ClaimMediaStage(w, t) PROVE F(wk') /\ F(beat')
    BY <1>0, <1>7 DEF ClaimMediaStage
  <1> QED
    BY <1>2, <1>3, <1>4, <1>5, <1>6, <1>7 DEF Next, Server, Quiet

LEMMA MovesKeep == ASSUME IInv, Moves, [Next]_vars PROVE IInv'
  <1>1. Types'
    <2>1. now' \in Nat /\ RowTypes
      BY DEF Moves, RowMoves
    <2>2. wk' \in [Workers -> WorkRec] /\ beat' \in [Workers -> BeatRec]
      <3>1. \A w \in Workers : wk'[w] \in WorkRec /\ beat'[w] \in BeatRec
        BY DEF Moves, WorkMoves, BeatMoves
      <3> QED
        BY <3>1, Functions DEF IInv
    <2> QED
      BY <2>1, <2>2 DEF RowTypes, Types
  <1> QED
    BY <1>1, TokensKept, LeasesKept, LeadingKept, RowsKept, CapacityKept DEF IInv
-----------------------------------------------------------------------------
(* A claim that is granted. *)

\* The stage of a claim: nobody may execute it, and its job waits.
LEMMA ClaimFacts ==
    ASSUME IInv, NEW w \in Workers, NEW t \in wk[w].sent..now, NEW s \in Stages, s \in AnyQueued(t),
           ParentAnswer(s) = "ok"
    PROVE  /\ t \in Nat /\ t <= now
           /\ \A v \in Workers : ~(Leads(v) /\ wk[v].s = s)
           /\ stage[s].state \in {"queued", "running"}
           /\ parent[s].at = "waiting" /\ ~parent[s].stop
  <1> USE DEF IInv
  <1>1. t \in Nat /\ t <= now /\ now \in Nat
    BY DEF Types, WorkRec, WorkPc, Codes
  <1>2. stage[s].state = "queued" \/ (stage[s].state = "running" /\ Lapsed(s, t))
    BY DEF AnyQueued
  <1>3. ASSUME NEW v \in Workers, Leads(v), wk[v].s = s PROVE FALSE
    <2>1. stage[s].state # "queued" /\ wk[v].n = Attempts(s) /\ Holder(v) /\ wk[v].until > now
      BY <1>3 DEF Leading, Leads, Holder
    <2>2. Attempts(s) \in 1..Attempts(s)
      BY <1>3, <2>1 DEF Tokens
    <2>3. att[s][Attempts(s)].end <= t /\ att[s][Attempts(s)].end \in Nat /\ wk[v].until \in Nat
      BY <1>2, <2>1, <2>2, AttTypes DEF Lapsed, AttRec, Types, WorkRec, WorkPc, Codes
    <2>4. wk[v].until <= att[s][Attempts(s)].end
      BY <1>3, <2>1 DEF Leases, Leads
    <2> QED
      BY <1>1, <2>1, <2>3, <2>4
  <1>4. parent[s].at = "waiting" /\ ~parent[s].stop
    BY <1>2 DEF ParentAnswer, Rows, Final
  <1> QED
    BY <1>1, <1>2, <1>3, <1>4

LEMMA ClaimKeeps == ASSUME IInv, Granted, [Next]_vars PROVE IInv'
  <1> USE DEF IInv
  <1>a. PICK w \in Workers : \E t \in wk[w].sent..now : ClaimMediaStage(w, t)
    BY DEF Granted
  <1>0. PICK t \in wk[w].sent..now : ClaimMediaStage(w, t)
    BY <1>a
  <1>1. PICK s \in Oldest(t) :
          /\ wk[w].pc = "claiming" /\ ParentAnswer(s) = "ok"
          /\ stage' = [stage EXCEPT ![s].state = "running"]
          /\ att'   = [att EXCEPT ![s] =
                         Append([n \in 1..Attempts(s) |->
                                   IF att[s][n].outcome = "none" /\ att[s][n].end <= t
                                     THEN [att[s][n] EXCEPT !.outcome = "expired"] ELSE att[s][n]],
                                [end |-> LeaseEnd(t), outcome |-> "none"])]
          /\ wk'    = [wk EXCEPT ![w].pc = "granted", ![w].s = s, ![w].n = Attempts(s) + 1,
                                 ![w].until = Remaining(wk[w].sent, LeaseEnd(t))]
          /\ UNCHANGED <<now, parent, rec, beat>>
    BY <1>0 DEF ClaimMediaStage, At
  <1>2. /\ s \in Stages /\ s \in AnyQueued(t)
        /\ s \in Renders => Cardinality(Occupied(t)) < Active
    BY <1>1 DEF Oldest, Claimable, AnyQueued
  <1>3. /\ t \in Nat /\ t <= now /\ now \in Nat
        /\ \A v \in Workers : ~(Leads(v) /\ wk[v].s = s)
        /\ stage[s].state \in {"queued", "running"}
        /\ parent[s].at = "waiting" /\ ~parent[s].stop
    BY <1>1, <1>2, ClaimFacts DEF Types
  <1>4. LeaseEnd(t) \in Nat /\ LeaseEnd(t) <= now + TTL /\ LeaseEnd(t) <= Deadline
    BY <1>3, LeaseEnds, LimitsAssumption
  <1> DEFINE N == Attempts(s) + 1
             until == Remaining(wk[w].sent, LeaseEnd(t))
             new == [end |-> LeaseEnd(t), outcome |-> "none"]
             old == [n \in 1..Attempts(s) |->
                       IF att[s][n].outcome = "none" /\ att[s][n].end <= t
                         THEN [att[s][n] EXCEPT !.outcome = "expired"] ELSE att[s][n]]
  <1>5. until \in Nat /\ until <= LeaseEnd(t)
    BY <1>1, <1>3, <1>4, Remains DEF Leases, Types, WorkRec, WorkPc, Codes
  <1>6. /\ Attempts(s) \in Nat /\ old \in Seq(AttRec) /\ Len(old) = Attempts(s)
        /\ \A n \in 1..Attempts(s) : old[n].end = att[s][n].end
    <2>1. Attempts(s) \in Nat /\ \A n \in 1..Attempts(s) : att[s][n] \in AttRec
      BY <1>2, AttTypes
    <2>2. ASSUME NEW n \in 1..Attempts(s) PROVE old[n] \in AttRec /\ old[n].end = att[s][n].end
      <3>1. att[s][n] \in AttRec
        BY <2>1
      <3>2. [att[s][n] EXCEPT !.outcome = "expired"] \in AttRec /\ [att[s][n] EXCEPT !.outcome = "expired"].end = att[s][n].end
        BY <3>1 DEF AttRec, Outcomes
      <3> QED
        BY <3>1, <3>2
    <2>3. old = [n \in 1..Attempts(s) |-> old[n]]
      OBVIOUS
    <2> HIDE DEF old
    <2>4. old \in [1..Attempts(s) -> AttRec]
      BY <2>2, <2>3
    <2> QED
      BY <2>1, <2>2, <2>4
  <1>7. new \in AttRec
    BY <1>4 DEF AttRec, Outcomes
  <1>8. att' = [att EXCEPT ![s] = Append(old, new)]
    BY <1>1
  <1>9. new.end = LeaseEnd(t) /\ new.outcome = "none"
    OBVIOUS
  <1> HIDE DEF old, new
  <1>10. /\ att'[s] \in Seq(AttRec) /\ Len(att'[s]) = N /\ N \in Nat /\ att'[s] # <<>>
         /\ att'[s][N] = new /\ \A n \in 1..Attempts(s) : att'[s][n].end = att[s][n].end
         /\ \A k \in Stages : k # s => att'[k] = att[k]
    BY SMTT(30), <1>2, <1>6, <1>7, <1>8 DEF Types
  <1>11. att' \in [Stages -> Seq(AttRec)]
    BY <1>8, <1>10 DEF Types
  <1>12. wk'[w] \in WorkRec /\ wk'[w].pc = "granted" /\ wk'[w].s = s /\ wk'[w].n = N /\ wk'[w].until = until
    <2>1. wk'[w] = [wk[w] EXCEPT !.pc = "granted", !.s = s, !.n = N, !.until = until] /\ wk[w] \in WorkRec
      BY <1>1 DEF Types
    <2> HIDE DEF until
    <2> QED
      BY <1>2, <1>5, <1>10, <2>1 DEF WorkRec, WorkPc, Codes
  <1>13. \A v \in Workers : v # w => wk'[v] = wk[v]
    BY <1>1 DEF Types
  <1> HIDE DEF until, N
  <1>14. /\ stage' \in [Stages -> StageRec]
         /\ stage'[s].state = "running" /\ stage'[s].result = stage[s].result /\ stage'[s].closed = stage[s].closed
         /\ \A k \in Stages : k # s => stage'[k] = stage[k]
    <2>1. stage'[s] = [stage[s] EXCEPT !.state = "running"] /\ stage[s] \in StageRec
      BY <1>1, <1>2 DEF Types
    <2>2. /\ stage'[s] \in StageRec
          /\ stage'[s].state = "running" /\ stage'[s].result = stage[s].result /\ stage'[s].closed = stage[s].closed
      BY <2>1 DEF StageRec, States
    <2> QED
      BY <1>1, <1>2, <2>2 DEF Types
  <1>15. Types'
    <2>1. wk' \in [Workers -> WorkRec]
      BY <1>12, <1>13, Functions DEF Types
    <2> QED
      BY <1>1, <1>11, <1>14, <2>1 DEF Types
  <1>16. ASSUME NEW v \in Workers \ {w}
         PROVE  /\ Holder(v)' <=> Holder(v)
                /\ Leads(v)' <=> Leads(v)
                /\ Leads(v) => wk[v].s # s
    BY <1>1, <1>3, <1>13 DEF Holder, Leads
  <1>17. ~Holder(w) /\ ~Leads(w)
    BY <1>1 DEF Holder, Leads
  <1>18. \A k \in Stages : \A n \in 1..Attempts(k) :
             n \in 1..Len(att'[k]) /\ att'[k][n].end = att[k][n].end
    BY <1>6, <1>10 DEF N, Attempts
  <1>19. Tokens'
    <2>1. \A v \in Workers : Beating(v)' <=> Beating(v)
      BY <1>1 DEF Beating
    <2>2. ASSUME NEW v \in Workers, Holder(v)' PROVE wk'[v].s \in Stages /\ wk'[v].n \in 1..Len(att'[wk'[v].s])
      <3>1. CASE v = w
        BY <1>2, <1>6, <1>10, <1>12, <3>1 DEF N
      <3>2. CASE v # w
        BY <1>13, <1>16, <1>18, <2>2, <3>2 DEF Tokens
      <3> QED
        BY <3>1, <3>2
    <2>3. ASSUME NEW v \in Workers, Beating(v) PROVE beat'[v].s \in Stages /\ beat'[v].n \in 1..Len(att'[beat'[v].s])
      BY <1>1, <1>18, <2>3 DEF Tokens
    <2>4. \A k \in Stages : \A n \in 1..Attempts(k) : <<k, n>> # <<s, N>>
      BY <1>6 DEF N
    <2>5. ASSUME NEW v \in Workers, NEW u \in Workers \ {v}
          PROVE  /\ Holder(v)' /\ Holder(u)'   => <<wk'[v].s, wk'[v].n>> # <<wk'[u].s, wk'[u].n>>
                 /\ Holder(v)' /\ Beating(u)'  => <<wk'[v].s, wk'[v].n>> # <<beat'[u].s, beat'[u].n>>
                 /\ Beating(v)' /\ Beating(u)' => <<beat'[v].s, beat'[v].n>> # <<beat'[u].s, beat'[u].n>>
      <3>1. ASSUME NEW x \in Workers \ {w}, Holder(x)' PROVE <<wk'[x].s, wk'[x].n>> # <<s, N>>
        BY <1>13, <1>16, <2>4, <3>1 DEF Tokens
      <3>2. ASSUME NEW x \in Workers, Beating(x) PROVE <<beat[x].s, beat[x].n>> # <<s, N>>
        BY <2>4, <3>2 DEF Tokens
      <3>3. CASE v = w
        BY <1>1, <1>12, <1>17, <2>1, <3>1, <3>2, <3>3 DEF Tokens
      <3>4. CASE u = w
        <4>1. v \in Workers \ {w} /\ w \in Workers \ {v} /\ wk'[v] = wk[v] /\ beat' = beat
          BY <1>1, <1>13, <3>4
        <4>2. Holder(v)' => <<wk'[v].s, wk'[v].n>> # <<wk'[w].s, wk'[w].n>>
          BY <1>12, <3>1, <4>1
        <4>3. Holder(v)' /\ Beating(w) => <<wk[v].s, wk[v].n>> # <<beat[w].s, beat[w].n>>
          BY <1>16, <4>1 DEF Tokens
        <4>4. Beating(v) /\ Beating(w) => <<beat[v].s, beat[v].n>> # <<beat[w].s, beat[w].n>>
          BY <4>1 DEF Tokens
        <4> QED
          BY <2>1, <3>4, <4>1, <4>2, <4>3, <4>4
      <3>5. CASE v # w /\ u # w
        BY ZenonT(60), <1>1, <1>13, <1>16, <2>1, <3>5 DEF Tokens
      <3> QED
        BY <3>3, <3>4, <3>5
    <2> QED
      BY <2>1, <2>2, <2>3, <2>5 DEF Tokens, Attempts
  <1>20. Leases'
    <2>1. ASSUME NEW k \in Stages, NEW n \in 1..Len(att'[k])
          PROVE  att'[k][n].end <= now' + TTL /\ att'[k][n].end <= Deadline
      <3>1. CASE k = s /\ n = N
        BY <1>1, <1>4, <1>9, <1>10, <3>1
      <3>2. CASE ~(k = s /\ n = N)
        <4>1. n \in 1..Attempts(k)
          BY <1>2, <1>6, <1>10, <3>2 DEF N, Attempts
        <4> QED
          BY <1>1, <1>18, <4>1 DEF Leases
      <3> QED
        BY <3>1, <3>2
    <2>2. ASSUME NEW v \in Workers
          PROVE  /\ wk'[v].pc = "claiming" => wk'[v].sent <= now'
                 /\ wk'[v].pc \in {"granted", "executing"} => wk'[v].until <= att'[wk'[v].s][wk'[v].n].end
                 /\ wk'[v].pc = "executing" => wk'[v].until > now'
      <3>1. CASE v = w
        BY <1>5, <1>9, <1>10, <1>12, <3>1
      <3>2. CASE v # w
        <4>1. wk[v].pc \in {"granted", "executing"} => wk[v].s \in Stages /\ wk[v].n \in 1..Attempts(wk[v].s)
          BY DEF Tokens, Holder
        <4>2. wk'[v] = wk[v] /\ now' = now
          BY <1>1, <1>13, <3>2
        <4>3. ASSUME wk[v].pc \in {"granted", "executing"} PROVE wk[v].until <= att'[wk[v].s][wk[v].n].end
          <5>1. att'[wk[v].s][wk[v].n].end = att[wk[v].s][wk[v].n].end
            BY <1>18, <4>1, <4>3
          <5> QED
            BY <4>3, <5>1 DEF Leases
        <4>4. /\ wk[v].pc = "claiming" => wk[v].sent <= now
              /\ wk[v].pc = "executing" => wk[v].until > now
          BY DEF Leases
        <4> QED
          BY <4>2, <4>3, <4>4
      <3> QED
        BY <3>1, <3>2
    <2>3. ASSUME NEW v \in Workers
          PROVE  /\ Beating(v) => beat'[v].sent <= now'
                 /\ beat'[v].pc = "sent" => att'[beat'[v].s][beat'[v].n].end <= beat'[v].sent + TTL
                 /\ beat'[v].pc = "granted" => beat'[v].until <= att'[beat'[v].s][beat'[v].n].end
      <3>1. Beating(v) => beat[v].s \in Stages /\ beat[v].n \in 1..Attempts(beat[v].s)
        BY DEF Tokens
      <3> QED
        BY ZenonT(60), <1>1, <1>18, <3>1 DEF Leases, Beating
    <2> QED
      BY <1>1, <2>1, <2>2, <2>3 DEF Leases, Attempts, Beating
  <1>21. Leading'
    <2> SUFFICES ASSUME NEW v \in Workers, Leads(v)'
                 PROVE  /\ wk'[v].n = Len(att'[wk'[v].s])
                        /\ att'[wk'[v].s][wk'[v].n].outcome = "none"
                        /\ stage'[wk'[v].s].state # "queued"
      BY DEF Leading, Attempts
    <2>1. CASE v = w
      BY <1>9, <1>10, <1>12, <1>14, <2>1
    <2>2. CASE v # w
      <3>1. Leads(v) /\ wk[v].s # s /\ wk[v].s \in Stages
        BY <1>16, <2>2 DEF Tokens, Leads, Holder
      <3> QED
        BY <1>10, <1>13, <1>14, <2>2, <3>1 DEF Leading, Attempts
    <2> QED
      BY <2>1, <2>2
  <1>22. Rows'
    <2>1. ASSUME NEW k \in Stages
          PROVE  /\ stage'[k].result # 0 => stage'[k].state = "succeeded"
                 /\ stage'[k].state = "succeeded" => att'[k] # <<>> /\ att'[k][Len(att'[k])].outcome # "none"
                 /\ parent'[k].at = "queued" => att'[k] = <<>>
                 /\ parent'[k].at = "ready" => stage'[k].state \in Final
                 /\ stage'[k].closed => parent'[k].at = "ended"
      <3>1. CASE k = s
        BY <1>1, <1>3, <1>14, <3>1 DEF Rows
      <3>2. CASE k # s
        BY <1>1, <1>10, <1>14, <3>2 DEF Rows, Attempts
      <3> QED
        BY <3>1, <3>2
    <2>2. ASSUME NEW k \in Stages, parent'[k].at \in {"ready", "ended"}, NEW v \in Workers, Leads(v)'
          PROVE  wk'[v].s # k
      <3>1. CASE v = w
        BY <1>1, <1>3, <1>12, <2>2, <3>1
      <3>2. CASE v # w
        <4>1. Leads(v) /\ wk'[v] = wk[v] /\ parent' = parent
          BY <1>1, <1>13, <1>16, <2>2, <3>2
        <4> QED
          BY <2>2, <4>1 DEF Rows
      <3> QED
        BY <3>1, <3>2
    <2>3. /\ rec'.do # "nothing" => rec'.s \in Stages
          /\ rec'.do = "acknowledge" => (parent[rec.s].stop /\ Stopped(rec.s, now))'
      <3>1. ASSUME rec.do = "acknowledge" PROVE rec.s \in Stages /\ rec.s # s /\ parent[rec.s].stop /\ Stopped(rec.s, now)
        BY <1>3, <3>1 DEF Rows
      <3>2. ASSUME rec.do = "acknowledge" PROVE parent'[rec.s].stop /\ Stopped(rec.s, now)'
        <4>1. att'[rec.s] = att[rec.s] /\ parent' = parent /\ now' = now
          BY <1>1, <1>10, <3>1, <3>2
        <4>2. rec' = rec
          BY <1>1
        <4> QED
          BY <3>1, <3>2, <4>1, <4>2 DEF Stopped, Attempts
      <3> QED
        BY <1>1, <3>2 DEF Rows
    <2> QED
      BY <2>1, <2>2, <2>3 DEF Rows, Attempts
  <1>23. Capacity'
    <2>1. BusyRenders' \subseteq BusyRenders \cup {s}
      BY <1>12, <1>13, <1>16 DEF BusyRenders
    <2>2. CASE s \notin Renders
      <3>1. BusyRenders' \subseteq BusyRenders
        BY <2>1, <2>2 DEF BusyRenders
      <3>2. Cardinality(BusyRenders') <= Cardinality(BusyRenders) /\ Cardinality(BusyRenders') \in Nat
        BY <3>1, BusyFinite, FS_Subset, FS_CardinalityType
      <3> QED
        BY <3>2, BusyFinite, LimitsAssumption DEF Capacity
    <2>3. CASE s \in Renders
      <3>1. IsFiniteSet(Occupied(t)) /\ Cardinality(Occupied(t)) \in Nat
        BY StagesAssumption, FS_Subset, FS_CardinalityType DEF Occupied
      <3>2. BusyRenders \subseteq Occupied(t)
        <4> SUFFICES ASSUME NEW k \in Renders, NEW v \in Workers, Leads(v), wk[v].s = k
                     PROVE  k \in Occupied(t)
          BY DEF BusyRenders
        <4>1. ~Settles(k) /\ k \in Stages
          BY NobodyLeads, StagesAssumption
        <4>2. ~Stopped(k, now) /\ att[k] # <<>>
          BY <4>1 DEF Settles, Stopped
        <4>3. Attempts(k) \in 1..Attempts(k) /\ att[k][Attempts(k)].end \in Nat
          BY <4>1, <4>2, AttTypes DEF AttRec
        <4>4. ~Stopped(k, t)
          BY <1>3, <4>2, <4>3 DEF Stopped
        <4> QED
          BY <4>2, <4>4 DEF Occupied
      <3>3. Cardinality(BusyRenders) < Active
        BY <1>2, <2>3, <3>1, <3>2, BusyFinite, FS_Subset, LimitsAssumption
      <3>4. IsFiniteSet(BusyRenders \cup {s}) /\ Cardinality(BusyRenders \cup {s}) <= Cardinality(BusyRenders) + 1
            /\ Cardinality(BusyRenders \cup {s}) \in Nat
        BY BusyFinite, OneMore
      <3>5. Cardinality(BusyRenders') <= Cardinality(BusyRenders \cup {s}) /\ Cardinality(BusyRenders') \in Nat
        BY <2>1, <3>4, FS_Subset, FS_CardinalityType
      <3> QED
        BY <3>3, <3>4, <3>5, BusyFinite, LimitsAssumption DEF Capacity
    <2> QED
      BY <2>2, <2>3
  <1> QED
    BY <1>15, <1>19, <1>20, <1>21, <1>22, <1>23

LEMMA StepKeeps == ASSUME IInv, [Next]_vars PROVE IInv'
  BY ClaimKeeps, StepMoves, MovesKeep
-----------------------------------------------------------------------------
(* Theorems. *)

LEMMA InitInv == Init => IInv
  <1> SUFFICES ASSUME Init PROVE IInv
    OBVIOUS
  <1> USE DEF Init
  <1>1. \A s \in Stages : att[s] = <<>> /\ Attempts(s) = 0
    BY DEF Attempts
  <1>2. \A w \in Workers : ~Holder(w) /\ ~Beating(w) /\ ~Leads(w) /\ wk[w].pc = "idle" /\ beat[w].pc = "none"
    BY DEF Holder, Beating, Leads, NoWork, NoBeat
  <1>3. Types
    BY DEF Types, StageRec, Parents, States, NoPost, NoWork, NoBeat, WorkRec, WorkPc, Codes, BeatRec
  <1>4. Tokens /\ Leases /\ Leading
    BY <1>1, <1>2 DEF Tokens, Leases, Leading
  <1>5. Rows
    BY <1>1, <1>2 DEF Rows, NoPost
  <1>6. BusyRenders = {}
    BY <1>2 DEF BusyRenders
  <1>7. Capacity
    BY <1>6, FS_EmptySet, LimitsAssumption DEF Capacity
  <1> QED
    BY <1>3, <1>4, <1>5, <1>7 DEF IInv

\* The inductive invariant of the leases: every credential is one worker's, what
\* a worker knows of its lease never exceeds the lease, and whoever may execute
\* has the current attempt of a job that was not told.
THEOREM Invariance == Spec => []IInv
  BY InitInv, StepKeeps, PTL DEF Spec

\* A worker executes only under the lease of the current attempt
\* (clip/worker/loop.go against clip/store/media_stages.go), for any stages,
\* workers, clock readings, lost calls and renewals.
THEOREM ExecutorsHoldLeases == Spec => []ExecutorHoldsLease
  <1>1. IInv => ExecutorHoldsLease
    <2> SUFFICES ASSUME IInv, NEW w \in Workers, wk[w].pc = "executing"
                 PROVE  wk[w].n = Attempts(wk[w].s) /\ att[wk[w].s][wk[w].n].end > now
      BY DEF ExecutorHoldsLease, At
    <2> USE DEF IInv
    <2>1. Leads(w) /\ Holder(w)
      BY DEF Leads, Leases, Holder
    <2>2. wk[w].s \in Stages /\ wk[w].n \in 1..Attempts(wk[w].s) /\ wk[w].n = Attempts(wk[w].s)
      BY <2>1 DEF Tokens, Leading
    <2>3. att[wk[w].s][wk[w].n].end \in Nat /\ wk[w].until \in Nat /\ now \in Nat
      BY <2>2, AttTypes DEF AttRec, Types, WorkRec, WorkPc, Codes
    <2> QED
      BY <2>2, <2>3 DEF Leases
  <1> QED
    BY <1>1, Invariance, PTL

\* Past the deadline one reconciliation (clip/app/media_recovery.go) ends the
\* wait, whatever became of workers, leases and retries.
THEOREM DeadlinesTell == Spec => DeadlineTells
  <1> DEFINE Ends1(s) ==
        parent[s].at = "waiting" =>
        /\ ~stage[s].closed
        /\ Deadline <= now /\ Reconcile(s) =>
              parent'[s].at = "ready" \/ rec' = [do |-> "acknowledge", s |-> s]
  <1>1. ASSUME IInv, NEW s \in Stages, parent[s].at = "waiting", Deadline <= now, Reconcile(s)
        PROVE  parent'[s].at = "ready" \/ rec' = [do |-> "acknowledge", s |-> s]
    <2> USE DEF IInv
    <2>1. Stopped(s, now)
      <3>1. CASE att[s] = <<>>
        BY <3>1 DEF Stopped
      <3>2. CASE att[s] # <<>>
        <4>1. Attempts(s) \in 1..Attempts(s) /\ att[s][Attempts(s)] \in AttRec
          BY <1>1, <3>2, AttTypes
        <4>2. att[s][Attempts(s)].end \in Nat /\ att[s][Attempts(s)].end <= Deadline /\ now \in Nat
          BY <1>1, <4>1 DEF Leases, AttRec, Types
        <4> QED
          BY <1>1, <4>2, LimitsAssumption DEF Stopped
      <3> QED
        BY <3>1, <3>2
    <2>2. CASE Abandon(s)
      BY <1>1, <2>1, <2>2 DEF Abandon
    <2>3. CASE Await(s)
      BY <1>1, <2>3 DEF Await
    <2>4. CASE Repair(s)
      <3>1. ~parent[s].stop /\ parent[s] \in Parents /\ Wakes(s)
        BY <1>1, <2>4 DEF Repair, Wakes, Types
      <3>2. parent' = Woken(s)
        BY <1>1, <2>1, <2>4 DEF Repair, WakesNow, Hopeless
      <3>3. parent' = [parent EXCEPT ![s].at = "ready"]
        BY <3>1, <3>2 DEF Woken
      <3>4. parent \in [Stages -> Parents]
        BY <1>1 DEF Types
      <3> QED
        BY <3>3, <3>4 DEF Parents
    <2> QED
      BY <1>1, <2>2, <2>3, <2>4 DEF Reconcile
  <1>2. ASSUME IInv, NEW s \in Stages, parent[s].at = "waiting" PROVE ~stage[s].closed
    BY <1>2 DEF IInv, Rows
  <1>3. IInv => \A s \in Stages : Ends1(s)
    BY <1>1, <1>2
  <1> QED
    BY <1>3, Invariance, PTL DEF DeadlineTells
-----------------------------------------------------------------------------
(* Refinement. *)

Busy(s) == {w \in Workers : At(w, "executing") /\ wk[w].s = s}
Told(s) == parent[s].at \in {"ready", "ended"}

\* Whoever may execute a stage is the only one.
LEMMA OneLeads ==
    ASSUME IInv, NEW v \in Workers, NEW w \in Workers, Leads(v), Leads(w), wk[v].s = wk[w].s
    PROVE  v = w
  BY DEF IInv, Leading, Tokens, Leads, Holder

LEMMA ExecutingLeads == ASSUME IInv, NEW w \in Workers, At(w, "executing") PROVE Leads(w) /\ wk[w].s \in Stages
  BY DEF IInv, Leases, Leads, At, Tokens, Holder

LEMMA SameCardinality == ASSUME NEW S PROVE Handoff!Cardinality(S) = Cardinality(S)
  BY Zenon DEF Handoff!Cardinality, Cardinality

LEMMA HandoffBounded == ASSUME IInv PROVE Handoff!Bounded
  <1>1. ASSUME NEW s \in Stages PROVE Handoff!Alone(Busy(s))
    BY OneLeads, ExecutingLeads DEF Busy, Handoff!Alone
  <1>2. \A s, k \in Stages : s # k => Busy(s) \cap Busy(k) = {}
    BY DEF Busy
  <1>3. Cardinality({s \in Renders : Busy(s) # {}}) <= Active
    <2>1. {s \in Renders : Busy(s) # {}} \subseteq BusyRenders
      BY ExecutingLeads DEF Busy, BusyRenders
    <2>2. Cardinality({s \in Renders : Busy(s) # {}}) <= Cardinality(BusyRenders)
          /\ Cardinality({s \in Renders : Busy(s) # {}}) \in Nat
      BY <2>1, BusyFinite, FS_Subset, FS_CardinalityType
    <2> QED
      BY <2>2, BusyFinite, LimitsAssumption DEF IInv, Capacity
  <1> DEFINE busy == [s \in Stages |-> {w \in Workers : At(w, "executing") /\ wk[w].s = s}]
  <1>4. \A s \in Stages : busy[s] = Busy(s)
    BY DEF Busy
  <1>5. {s \in Renders : busy[s] # {}} = {s \in Renders : Busy(s) # {}}
    BY <1>4, StagesAssumption
  <1> HIDE DEF busy
  <1>6. /\ \A s \in Stages : Handoff!Alone(busy[s])
        /\ \A s, k \in Stages : s # k => busy[s] \cap busy[k] = {}
        /\ Cardinality({s \in Renders : busy[s] # {}}) <= Active
    BY <1>1, <1>2, <1>3, <1>4, <1>5
  <1> QED
    BY <1>6, SameCardinality DEF Handoff!Bounded, busy

\* An execution starts only where nobody may execute, nothing is published and
\* the job was not told.
LEMMA BusyStep ==
    ASSUME IInv, IInv', [Next]_vars, NEW s \in Stages
    PROVE  \/ Busy(s)' = Busy(s)
           \/ Busy(s)' = {}
           \/ Busy(s) = {} /\ stage[s].result = 0 /\ ~Told(s)
  <1>1. CASE Granted
    <2>1. PICK w \in Workers : \E t \in wk[w].sent..now : ClaimMediaStage(w, t)
      BY <1>1 DEF Granted
    <2>2. /\ wk[w].pc = "claiming" /\ wk'[w].pc = "granted"
          /\ \A v \in Workers : v # w => wk'[v] = wk[v]
      BY <2>1 DEF ClaimMediaStage, At, IInv, Types
    <2> QED
      BY <2>2 DEF Busy, At
  <1>2. CASE ~Granted /\ Busy(s)' # {}
    <2>1. Moves
      BY <1>2, StepMoves
    <2>2. PICK w \in Workers : wk'[w].pc = "executing" /\ wk'[w].s = s
      BY <1>2 DEF Busy, At
    <2>3. Leads(w) /\ wk[w].s = s /\ Leads(w)'
      <3>1. Leads(w)'
        BY <2>1, <2>2 DEF Leads, Moves, WorkMoves
      <3> QED
        BY <2>1, <2>2, <3>1, LedBefore
    <2>4. \A v \in Workers : wk'[v].pc = "executing" /\ wk'[v].s = s => v = w
      <3> SUFFICES ASSUME NEW v \in Workers, wk'[v].pc = "executing", wk'[v].s = s PROVE v = w
        OBVIOUS
      <3>1. Leads(v)'
        BY <2>1 DEF Leads, Moves, WorkMoves
      <3>2. Leads(v) /\ wk[v].s = s
        BY <2>1, <3>1, LedBefore
      <3> QED
        BY <2>3, <3>2, OneLeads
    <2>5. Busy(s)' = {w}
      BY <2>2, <2>4 DEF Busy, At
    <2>6. \A v \in Workers : At(v, "executing") /\ wk[v].s = s => v = w
      BY <2>3, OneLeads, ExecutingLeads
    <2>7. CASE At(w, "executing")
      <3>1. Busy(s) = {w}
        BY <2>3, <2>6, <2>7 DEF Busy
      <3> QED
        BY <2>5, <3>1
    <2>8. CASE ~At(w, "executing")
      <3>1. Busy(s) = {}
        BY <2>6, <2>8 DEF Busy
      <3>2. ~Told(s)
        BY <2>3 DEF IInv, Rows, Told
      <3>3. ~Settles(s)
        BY <2>3, NobodyLeads
      <3>4. stage[s].state # "succeeded"
        BY <3>3 DEF Settles, Stopped, IInv, Rows
      <3>5. stage[s].result = 0
        BY <3>4 DEF IInv, Rows
      <3> QED
        BY <3>1, <3>2, <3>5
    <2> QED
      BY <2>7, <2>8
  <1> QED
    BY <1>1, <1>2

\* Only an acceptance publishes, once, and it wakes the job.
LEMMA ResultStep ==
    ASSUME IInv, [Next]_vars, NEW s \in Stages
    PROVE  \/ stage'[s].result = stage[s].result
           \/ stage[s].result = 0 /\ stage'[s].result \in Nat \ {0} /\ ~Told(s) /\ Told(s)'
  <1>0. stage \in [Stages -> StageRec]
    BY DEF IInv, Types
  <1>1. CASE stage' = stage
    BY <1>1
  <1>2. ASSUME NEW k \in Stages, NEW state, NEW retry, stage' = Set(k, state, retry)
        PROVE  stage'[s].result = stage[s].result
    BY <1>0, <1>2 DEF Set, StageRec
  <1>3. ASSUME NEW k \in Stages, Reconcile(k) PROVE stage'[s].result = stage[s].result
    <2>1. CASE Abandon(k)
      <3>1. CASE stage' = Set(k, "cancelled", 0)
        BY <1>2, <3>1
      <3>2. CASE Stopped(k, now) /\ parent[k].at = "ended"
        <4>1. stage' = IF stage[k].state = "succeeded" THEN [stage EXCEPT ![k].closed = TRUE]
                       ELSE [stage EXCEPT ![k].state = "cancelled", ![k].retry = 0, ![k].closed = TRUE]
          BY <1>0, <2>1, <3>2 DEF Abandon, Set
        <4> QED
          BY <1>0, <4>1 DEF StageRec
      <3> QED
        BY <2>1, <3>1, <3>2 DEF Abandon
    <2>2. CASE Await(k)
      BY <1>2, <2>2 DEF Await
    <2>3. CASE Repair(k)
      BY <1>1, <1>2, <2>3 DEF Repair
    <2> QED
      BY <1>3, <2>1, <2>2, <2>3 DEF Reconcile
  <1>4. ASSUME NEW w \in Workers, NEW t \in wk[w].sent..now, FailMediaStage(w, t)
        PROVE  stage'[s].result = stage[s].result
    <2>1. wk[w].s \in Stages
      BY <1>4 DEF FailMediaStage, At, IInv, Tokens, Holder
    <2> QED
      BY <1>1, <1>2, <1>4, <2>1 DEF FailMediaStage
  <1>5. ASSUME NEW w \in Workers, NEW t \in wk[w].sent..now, ClaimMediaStage(w, t)
        PROVE  stage'[s].result = stage[s].result
    BY <1>0, <1>5 DEF ClaimMediaStage, StageRec
  <1>6. ASSUME NEW w \in Workers, Accept(w), stage' # stage
        PROVE  \/ stage'[s].result = stage[s].result
               \/ stage[s].result = 0 /\ stage'[s].result \in Nat \ {0} /\ ~Told(s) /\ Told(s)'
    <2> DEFINE k == wk[w].s
               n == wk[w].n
    <2>1. /\ SecondAnswer(k, n) = "ok" /\ k \in Stages /\ n \in 1..Attempts(k)
          /\ stage' = [stage EXCEPT ![k].state = "succeeded", ![k].result = n]
          /\ parent' = Woken(k)
      BY <1>6 DEF Accept, IInv, Tokens, Holder
    <2>2. stage[k].state = "running" /\ ParentAnswer(k) = "ok"
      BY <2>1 DEF SecondAnswer, AcceptAnswer, Authorized, Live
    <2>3. stage[k].result = 0 /\ parent[k].at = "waiting" /\ ~parent[k].stop
      BY <2>1, <2>2 DEF IInv, Rows, Final, ParentAnswer
    <2>4. n \in Nat \ {0}
      BY <2>1, AttTypes DEF IInv
    <2> HIDE DEF k, n
    <2>5. CASE s = k
      <3>1. stage'[s].result = n
        BY <1>0, <2>1, <2>5 DEF StageRec
      <3>2. parent' = [parent EXCEPT ![s].at = "ready"] /\ parent \in [Stages -> Parents]
        BY <2>1, <2>3, <2>5 DEF Woken, Wakes, IInv, Types
      <3>3. parent'[s].at = "ready"
        BY <3>2 DEF Parents
      <3> QED
        BY <2>3, <2>4, <2>5, <3>1, <3>3 DEF Told
    <2>6. CASE s # k
      BY <1>0, <2>1, <2>6
    <2> QED
      BY <2>5, <2>6
  <1>7. ASSUME NEW w \in Workers, Quiet(w) PROVE stage' = stage
    BY <1>7, QuietBeat DEF IInv, rows
  <1>8. CASE Dispatch(s) \/ Tick \/ Post \/ Restart \/ UNCHANGED vars
    BY <1>8 DEF Dispatch, Tick, Post, Restart, vars, rows
  <1> QED
    BY <1>1, <1>3, <1>4, <1>5, <1>6, <1>7, <1>8
       DEF Next, Quiet, Dispatch, StopJob, Supersede, RenewMediaLease

LEMMA ToldStep ==
    ASSUME IInv, IInv', [Next]_vars, NEW s \in Stages
    PROVE  Told(s)' = Told(s) \/ (~Told(s) /\ Busy(s)' = {})
  <1>1. Told(s) => Told(s)'
    <2>1. CASE Granted
      BY <2>1 DEF Granted, ClaimMediaStage, Told
    <2>2. CASE ~Granted
      BY <2>2, StepMoves DEF Moves, RowMoves, ParentMoves, Told
    <2> QED
      BY <2>1, <2>2
  <1>2. Told(s)' => Busy(s)' = {}
    <2>1. ASSUME IInv, Told(s) PROVE Busy(s) = {}
      BY <2>1, ExecutingLeads DEF IInv, Rows, Told, Busy
    <2>2. ASSUME IInv', Told(s)' PROVE Busy(s)' = {}
      <3> SUFFICES ASSUME NEW w \in Workers, wk'[w].pc = "executing", wk'[w].s = s PROVE FALSE
        BY DEF Busy, At
      <3>1. Leads(w)'
        BY DEF IInv, Leases, Leads
      <3> QED
        BY <2>2, <3>1 DEF IInv, Rows, Told
    <2> QED
      BY <2>2
  <1> QED
    BY <1>1, <1>2 DEF Told

\* Leased execution (media_stages.go, media_artifacts.go, media_recovery.go and
\* the workers' loop) implements what MediaHandoff promises: one executor, no
\* more renders than the capacity, one result, and the job told when nobody is
\* left at its stage.
THEOREM LeasesImplementHandoff == Spec => ImplementsHandoff
  <1>1. Init => Handoff!Init
    <2> SUFFICES ASSUME Init PROVE Handoff!Init
      OBVIOUS
    <2>1. \A w \in Workers : wk[w].pc = "idle"
      BY DEF Init, NoWork
    <2>2. \A s \in Stages : Busy(s) = {} /\ stage[s].result = 0 /\ ~Told(s)
      BY <2>1 DEF Init, Busy, At, Told
    <2>3. [s \in Stages |-> Busy(s)] = [s \in Stages |-> {}]
      BY <2>2
    <2>4. [s \in Stages |-> stage[s].result] = [s \in Stages |-> 0]
      BY <2>2
    <2>5. [s \in Stages |-> Told(s)] = [s \in Stages |-> FALSE]
      <3>1. \A s \in Stages : Told(s) = FALSE
        BY <2>2 DEF Told
      <3> QED
        BY <3>1
    <2> QED
      BY <2>3, <2>4, <2>5 DEF Handoff!Init, Busy, Told
  <1>2. IInv' => Handoff!Bounded'
    BY HandoffBounded, PTL
  <1>3. ASSUME IInv, IInv', [Next]_vars PROVE Handoff!Next
    <2>1. ASSUME NEW s \in Stages
          PROVE  Handoff!BusyMoves(s) /\ Handoff!ResultMoves(s) /\ Handoff!ToldMoves(s)
      <3>1. Handoff!BusyMoves(s)
        BY <1>3, BusyStep DEF Handoff!BusyMoves, Busy, Told
      <3>2. Handoff!ResultMoves(s)
        BY <1>3, ResultStep DEF Handoff!ResultMoves, Told
      <3>3. Handoff!ToldMoves(s)
        BY <1>3, ToldStep DEF Handoff!ToldMoves, Busy, Told
      <3> QED
        BY <3>1, <3>2, <3>3
    <2> QED
      BY <1>2, <1>3, <2>1 DEF Handoff!Next
  <1> QED
    BY <1>1, <1>3, Invariance, PTL DEF Spec, ImplementsHandoff, Handoff!Spec

-----------------------------------------------------------------------------
(* The declared types, with their bounds. *)

\* A nonempty family of subsets of a finite set has a smallest member, and a
\* nonempty finite set of numbers a greatest.
LEMMA Smallest ==
    ASSUME NEW S, IsFiniteSet(S), NEW T, T \subseteq SUBSET S, T # {}
    PROVE  \E X \in T : \A Y \in T : Y \subseteq X => Y = X
  <1>1. IsWellFoundedOn(StrictSubsetOrdering(S), SUBSET S)
    BY FS_StrictSubsetOrderingWellFounded, FS_FiniteSubsetsOfFinite
  <1>2. PICK X \in T : \A Y \in T : ~ (<<Y, X>> \in StrictSubsetOrdering(S))
    BY <1>1, WFMin
  <1> QED
    BY <1>2 DEF StrictSubsetOrdering

LEMMA Greatest ==
    ASSUME NEW S, IsFiniteSet(S), S # {}, \A x \in S : x \in Int
    PROVE  Max(S) \in S /\ \A x \in S : x <= Max(S)
  <1> DEFINE Top(T) == \E x \in T : \A y \in T : x >= y
             Bad == {T \in SUBSET S : T # {} /\ ~ Top(T)}
  <1>1. Bad = {}
    <2> SUFFICES ASSUME Bad # {} PROVE FALSE
      OBVIOUS
    <2>1. PICK T \in Bad : \A Y \in Bad : Y \subseteq T => Y = T
      <3>1. Bad \subseteq SUBSET S
        OBVIOUS
      <3> HIDE DEF Bad
      <3> QED
        BY <3>1, Smallest
    <2>2. PICK x \in T : TRUE
      BY <2>1
    <2>3. CASE T \ {x} = {}
      BY <2>1, <2>2, <2>3
    <2>4. CASE T \ {x} # {}
      <3>1. Top(T \ {x})
        <4>1. T \ {x} \in SUBSET S /\ T \ {x} \subseteq T /\ T \ {x} # T
          BY <2>1, <2>2
        <4> HIDE DEF Top
        <4> QED
          BY <2>1, <2>4, <4>1
      <3> QED
        BY <2>1, <2>2, <3>1
    <2> QED
      BY <2>3, <2>4
  <1>2. Top(S)
    BY <1>1
  <1>3. PICK x \in S : \A y \in S : x >= y
    BY <1>2
  <1>4. Max(S) \in S /\ \A y \in S : Max(S) >= y
    BY <1>3, Zenon DEF Max
  <1> QED
    BY <1>4

-----------------------------------------------------------------------------
(* The bounds.  The attempts of a stage are counted by its rows alone; a     *)
(* worker's numbers are those it was given, so they stay within what the     *)
(* rows had when it was given them.                                          *)

Within(x) == x.n <= Most /\ x.sent <= now /\ x.until <= Deadline
Bounds ==
    /\ now <= MaxTime /\ mishaps \in 0..MaxMishaps
    /\ \A s \in Stages : /\ Attempts(s) <= Limit[s]
                         /\ stage[s].retry <= MaxTime + Retry /\ stage[s].result <= Most
    /\ \A w \in Workers : Within(wk[w]) /\ Within(beat[w])

LEMMA MostIs == Most \in Nat /\ \A s \in Stages : Limit[s] <= Most
  <1> DEFINE L == {0} \cup {Limit[s] : s \in Stages}
  <1>1. IsFiniteSet(L)
    <2>1. IsFiniteSet({Limit[s] : s \in Stages})
      <3>1. Limit \in Surjection(Stages, {Limit[s] : s \in Stages})
        BY LimitsAssumption DEF Surjection
      <3> QED
        BY <3>1, StagesAssumption, FS_Surjection
    <2> QED
      BY <2>1, FS_Singleton, FS_Union
  <1>2. L # {} /\ \A x \in L : x \in Nat
    BY LimitsAssumption
  <1>3. Most = Max(L)
    BY DEF Most
  <1>4. \A s \in Stages : Limit[s] \in L
    OBVIOUS
  <1> HIDE DEF L
  <1>5. Max(L) \in L /\ \A x \in L : x <= Max(L)
    BY <1>1, <1>2, Greatest
  <1> QED
    BY <1>2, <1>3, <1>4, <1>5

LEMMA ClockBounds ==
    ASSUME Types, Bounds, [Next]_vars
    PROVE  now' \in Nat /\ now' >= now /\ now' <= MaxTime /\ (mishaps \in 0..MaxMishaps)'
  <1> USE LimitsAssumption
  <1>a. Server \/ Tick \/ UNCHANGED vars => (now' = now \/ Tick) /\ (mishaps' = mishaps \/ Mishap)
    BY DEF Server, Dispatch, StopJob, Supersede, Reconcile, Post, Restart, Tick, vars
  <1>b. ASSUME NEW w \in Workers, \/ Quiet(w) \/ Accept(w)
                                  \/ \E t \in wk[w].sent..now : ClaimMediaStage(w, t) \/ FailMediaStage(w, t)
                                  \/ \E t \in beat[w].sent..now : RenewMediaLease(w, t)
        PROVE  now' = now /\ (mishaps' = mishaps \/ Mishap)
    BY <1>b DEF Quiet, Claim, TakeWork, Beat, Renewed, Watchdog, Accept, AcceptLost, Die, GiveUp, ClaimMediaStage,
           NothingClaimed, FailMediaStage, RenewMediaLease, RenewalRefused, Check, ExecutionFailed
  <1>1. now' = now \/ Tick
    BY <1>a, <1>b DEF Next, Server, Quiet
  <1>2. now' \in Nat /\ now' >= now /\ now' <= MaxTime
    BY <1>1 DEF Tick, Types, Bounds
  <1>3. mishaps' = mishaps \/ Mishap
    BY <1>a, <1>b DEF Next, Server, Quiet
  <1>4. (mishaps \in 0..MaxMishaps)'
    BY <1>3 DEF Mishap, Bounds
  <1> QED
    BY <1>2, <1>4

LEMMA AttemptsBounded ==
    ASSUME IInv, Bounds, [Next]_vars, NEW s \in Stages
    PROVE  Attempts(s)' <= Limit[s]
  <1> USE LimitsAssumption
  <1>1. att[s] \in Seq(AttRec) /\ att \in [Stages -> Seq(AttRec)] /\ Attempts(s) \in Nat
    BY AttTypes DEF IInv, Types
  <1>2. CASE ~Granted
    BY <1>2, StepMoves DEF Moves, RowMoves, AttMoves, Attempts, Bounds
  <1>3. ASSUME NEW w \in Workers, NEW t \in wk[w].sent..now, ClaimMediaStage(w, t)
        PROVE  Attempts(s)' <= Limit[s]
    <2>1. PICK k \in Oldest(t) :
             att' = [att EXCEPT ![k] = Append([n \in 1..Attempts(k) |->
                       IF att[k][n].outcome = "none" /\ att[k][n].end <= t
                         THEN [att[k][n] EXCEPT !.outcome = "expired"] ELSE att[k][n]],
                       [end |-> LeaseEnd(t), outcome |-> "none"])]
      BY <1>3 DEF ClaimMediaStage
    <2> DEFINE old == [n \in 1..Attempts(k) |->
                         IF att[k][n].outcome = "none" /\ att[k][n].end <= t
                           THEN [att[k][n] EXCEPT !.outcome = "expired"] ELSE att[k][n]]
    <2>2. k \in Stages /\ Attempts(k) < Limit[k]
      BY <2>1 DEF Oldest, Claimable, AnyQueued
    <2>3. CASE s # k
      BY <1>1, <2>1, <2>2, <2>3 DEF Attempts, Bounds
    <2>4. CASE s = k
      <3>1. att'[s] = Append(old, [end |-> LeaseEnd(t), outcome |-> "none"])
        BY <1>1, <2>1, <2>4
      <3>2. Attempts(k) \in Nat
        BY <1>1, <2>4
      <3>3. DOMAIN old = 1..Attempts(k) /\ old \in Seq({old[n] : n \in 1..Attempts(k)})
        BY <3>2
      <3> HIDE DEF old
      <3>4. Len(old) = Attempts(k)
        BY <3>2, <3>3
      <3>5. Len(att'[s]) = Attempts(k) + 1
        BY <3>1, <3>3, <3>4
      <3> QED
        BY <1>1, <2>2, <2>4, <3>2, <3>5 DEF Attempts
    <2> QED
      BY <2>3, <2>4
  <1> QED
    BY <1>2, <1>3 DEF Granted

LEMMA StageBounds ==
    ASSUME IInv, Bounds, [Next]_vars, NEW s \in Stages
    PROVE  (stage[s].retry <= MaxTime + Retry /\ stage[s].result <= Most)'
  <1> USE LimitsAssumption, MostIs
  <1>0. /\ stage \in [Stages -> StageRec] /\ stage[s].retry <= MaxTime + Retry /\ stage[s].result <= Most
        /\ now \in Nat /\ now <= MaxTime
    BY DEF IInv, Types, Bounds
  <1>1. CASE stage' = stage
    BY <1>0, <1>1
  <1>2. ASSUME NEW k \in Stages, NEW state, NEW retry \in Nat, retry <= MaxTime + Retry, stage' = Set(k, state, retry)
        PROVE  (stage[s].retry <= MaxTime + Retry /\ stage[s].result <= Most)'
    BY <1>0, <1>2 DEF Set, StageRec
  <1>9. 0 \in Nat /\ 0 <= MaxTime + Retry
    OBVIOUS
  <1>3. ASSUME NEW k \in Stages, Reconcile(k)
        PROVE  (stage[s].retry <= MaxTime + Retry /\ stage[s].result <= Most)'
    <2>1. CASE Abandon(k)
      <3>1. CASE stage' = Set(k, "cancelled", 0)
        BY <1>9, <1>2, <3>1
      <3>2. CASE Stopped(k, now) /\ parent[k].at = "ended"
        <4>1. stage' = IF stage[k].state = "succeeded" THEN [stage EXCEPT ![k].closed = TRUE]
                       ELSE [stage EXCEPT ![k].state = "cancelled", ![k].retry = 0, ![k].closed = TRUE]
          BY <1>0, <2>1, <3>2 DEF Abandon, Set
        <4> QED
          BY <1>0, <1>9, <4>1 DEF StageRec
      <3> QED
        BY <2>1, <3>1, <3>2 DEF Abandon
    <2>2. CASE Await(k)
      BY <1>9, <1>2, <2>2 DEF Await
    <2>3. CASE Repair(k)
      BY <1>9, <1>1, <1>2, <2>3 DEF Repair
    <2> QED
      BY <1>3, <2>1, <2>2, <2>3 DEF Reconcile
  <1>4. ASSUME NEW w \in Workers, NEW t \in wk[w].sent..now, FailMediaStage(w, t)
        PROVE  (stage[s].retry <= MaxTime + Retry /\ stage[s].result <= Most)'
    <2>1. wk[w].s \in Stages
      BY <1>4 DEF FailMediaStage, At, IInv, Tokens, Holder
    <2>2. wk[w].sent \in Nat
      BY DEF IInv, Types, WorkRec, WorkPc, Codes
    <2>3. t + Retry \in Nat /\ t + Retry <= MaxTime + Retry
      BY <1>0, <2>2
    <2> QED
      BY <1>9, <1>1, <1>2, <1>4, <2>1, <2>3 DEF FailMediaStage
  <1>5. ASSUME NEW w \in Workers, NEW t \in wk[w].sent..now, ClaimMediaStage(w, t)
        PROVE  (stage[s].retry <= MaxTime + Retry /\ stage[s].result <= Most)'
    BY <1>0, <1>5 DEF ClaimMediaStage, StageRec
  <1>6. ASSUME NEW w \in Workers, Accept(w), stage' # stage
        PROVE  (stage[s].retry <= MaxTime + Retry /\ stage[s].result <= Most)'
    <2>1. stage' = [stage EXCEPT ![wk[w].s].state = "succeeded", ![wk[w].s].result = wk[w].n]
      BY <1>6 DEF Accept
    <2>2. wk[w].n <= Most
      BY DEF Bounds, Within
    <2> QED
      BY <1>0, <2>1, <2>2 DEF StageRec
  <1>7. ASSUME NEW w \in Workers, Quiet(w) PROVE stage' = stage
    BY <1>7, QuietBeat DEF IInv, rows
  <1>8. CASE Dispatch(s) \/ Tick \/ Post \/ Restart \/ UNCHANGED vars
    BY <1>1, <1>8 DEF Dispatch, Tick, Post, Restart, vars, rows
  <1> QED
    BY <1>1, <1>3, <1>4, <1>5, <1>6, <1>7, <1>8
       DEF Next, Quiet, Dispatch, StopJob, Supersede, RenewMediaLease

\* A worker's numbers in a step that does not give it an attempt.
Keeps(w) ==
    /\ wk'[w].n \in {0, wk[w].n}
    /\ wk'[w].sent \in {0, now, wk[w].sent}
    /\ wk'[w].until \in {0, wk[w].until, beat[w].until}

LEMMA EndsKeep == ASSUME Types, NEW w \in Workers, Ends(w), NEW v \in Workers PROVE Keeps(v)
  <1> USE DEF Keeps
  <1>1. CASE v # w
    BY <1>1 DEF Types, Ends
  <1>2. CASE v = w
    <2>0. wk \in [Workers -> WorkRec] /\ wk[w] \in WorkRec
      BY DEF Types
    <2>1. CASE wk' = wk
      BY <1>2, <2>1
    <2>2. CASE wk' = [wk EXCEPT ![w] = NoWork]
      BY <1>2, <2>0, <2>2 DEF NoWork
    <2>3. ASSUME NEW code \in {"lost", "final", "cancelled"},
                 wk' = [wk EXCEPT ![w].pc = "failing", ![w].sent = now, ![w].until = 0, ![w].code = code]
          PROVE  Keeps(w)
      BY <2>0, <2>3 DEF WorkRec
    <2>4. CASE wk' = [wk EXCEPT ![w].pc = "orphan", ![w].until = 0]
      BY <1>2, <2>0, <2>4 DEF WorkRec
    <2>5. ASSUME NEW pc \in {"completing", "checked"}, wk' = [wk EXCEPT ![w].pc = pc]
          PROVE  Keeps(w)
      BY <2>0, <2>5 DEF WorkRec
    <2> QED
      BY <1>2, <2>1, <2>2, <2>3, <2>4, <2>5 DEF Ends
  <1> QED
    BY <1>1, <1>2

LEMMA StepKeepsWork ==
    ASSUME IInv, [Next]_vars, ~Granted, NEW v \in Workers
    PROVE  Keeps(v)
  <1>0. Types /\ wk \in [Workers -> WorkRec]
    BY DEF IInv, Types
  <1>1. CASE wk' = wk
    BY <1>1 DEF Keeps
  <1>2. ASSUME NEW w \in Workers, Ends(w) PROVE Keeps(v)
    BY <1>0, <1>2, EndsKeep
  <1>3. ASSUME NEW w \in Workers, Claim(w) PROVE Keeps(v)
    BY <1>0, <1>3 DEF Claim, Keeps, WorkRec
  <1>4. ASSUME NEW w \in Workers, TakeWork(w) PROVE Keeps(v)
    <2>1. CASE v = w
      BY <1>0, <1>4, <2>1 DEF TakeWork, Keeps, WorkRec, NoWork, Until
    <2>2. CASE v # w
      BY <1>0, <1>4, <2>2 DEF TakeWork, Keeps
    <2> QED
      BY <2>1, <2>2
  <1>5. ASSUME NEW w \in Workers, Renewed(w) PROVE Keeps(v)
    <2>1. CASE Until(beat[w]) > now
      <3>1. wk' = [wk EXCEPT ![w].until = beat[w].until]
        BY <1>5, <2>1 DEF Renewed, Until
      <3> QED
        BY <1>0, <3>1 DEF Keeps, WorkRec
    <2>2. CASE ~(Until(beat[w]) > now)
      <3>1. Ends(w)
        BY <1>5, <2>2 DEF Renewed, Ends, Stop, Holder, Own, Runs, Free, At
      <3> QED
        BY <1>2, <3>1
    <2> QED
      BY <2>1, <2>2
  <1>6. ASSUME NEW w \in Workers, Quiet(w) PROVE Keeps(v)
    <2>1. CASE Beat(w)
      BY <1>1, <2>1 DEF Beat
    <2>2. CASE Ends(w)
      BY <1>2, <2>2
    <2> QED
      BY <1>0, <1>3, <1>4, <1>5, <1>6, <2>1, <2>2, Ending DEF Quiet
  <1>7. ASSUME NEW w \in Workers, NEW t \in wk[w].sent..now, FailMediaStage(w, t) PROVE Keeps(v)
    <2>1. Ends(w)
      BY <1>7 DEF FailMediaStage, Free, Ends
    <2> QED
      BY <1>2, <2>1
  <1>8. ASSUME NEW w \in Workers, Accept(w) PROVE Keeps(v)
    BY <1>2, <1>8, AcceptEnds
  <1>9. CASE Server \/ Tick \/ UNCHANGED vars
    BY <1>1, <1>9 DEF Server, Dispatch, StopJob, Supersede, Reconcile, Post, Restart, Tick, vars
  <1>10. ASSUME NEW w \in Workers, NEW t \in beat[w].sent..now, RenewMediaLease(w, t) PROVE Keeps(v)
    BY <1>1, <1>10 DEF RenewMediaLease
  <1> QED
    BY <1>6, <1>7, <1>8, <1>9, <1>10 DEF Next, Server, Quiet, Granted

LEMMA WorkWithin ==
    ASSUME IInv, Bounds, [Next]_vars, NEW v \in Workers
    PROVE  Within(wk[v])'
  <1> USE LimitsAssumption, MostIs
  <1>0. /\ now \in Nat /\ now' \in Nat /\ now' >= now
        /\ wk \in [Workers -> WorkRec] /\ beat \in [Workers -> BeatRec]
    BY ClockBounds DEF IInv, Types
  <1>1. /\ wk[v].n \in Nat /\ wk[v].sent \in Nat /\ wk[v].until \in Nat /\ beat[v].until \in Nat
        /\ wk[v].n <= Most /\ wk[v].sent <= now /\ wk[v].until <= Deadline /\ beat[v].until <= Deadline
    BY <1>0 DEF WorkRec, BeatRec, Bounds, Within
  <1>2. CASE ~Granted
    <2>1. Keeps(v)
      BY <1>2, StepKeepsWork
    <2> QED
      BY <1>0, <1>1, <2>1 DEF Keeps, Within
  <1>3. ASSUME NEW w \in Workers, NEW t \in wk[w].sent..now, ClaimMediaStage(w, t)
        PROVE  Within(wk[v])'
    <2>1. PICK s \in Oldest(t) :
            wk' = [wk EXCEPT ![w].pc = "granted", ![w].s = s, ![w].n = Attempts(s) + 1,
                             ![w].until = Remaining(wk[w].sent, LeaseEnd(t))]
      BY <1>3 DEF ClaimMediaStage
    <2>2. s \in Stages /\ Attempts(s) < Limit[s] /\ Attempts(s) \in Nat
      BY <2>1, AttTypes DEF Oldest, Claimable, AnyQueued, IInv
    <2>3. Attempts(s) + 1 <= Most
      BY <2>2
    <2>4. wk[w].sent \in Nat /\ wk[w].sent <= now
      BY <1>0 DEF WorkRec, Bounds, Within
    <2>5. LeaseEnd(t) \in Nat /\ LeaseEnd(t) <= Deadline
      <3>1. t \in Nat
        BY <1>0, <2>4
      <3> QED
        BY <3>1, LeaseEnds
    <2>6. Remaining(wk[w].sent, LeaseEnd(t)) \in Nat /\ Remaining(wk[w].sent, LeaseEnd(t)) <= LeaseEnd(t)
      BY <1>0, <2>4, <2>5, Remains
    <2>7. Remaining(wk[w].sent, LeaseEnd(t)) <= Deadline
      BY <2>5, <2>6
    <2>8. CASE v = w
      <3>1. /\ wk'[v].n = Attempts(s) + 1 /\ wk'[v].sent = wk[v].sent
            /\ wk'[v].until = Remaining(wk[w].sent, LeaseEnd(t))
        BY <1>0, <2>1, <2>8 DEF WorkRec
      <3> QED
        BY <1>0, <1>1, <2>3, <2>7, <3>1 DEF Within
    <2>9. CASE v # w
      <3>1. wk'[v] = wk[v]
        BY <1>0, <2>1, <2>9
      <3> QED
        BY <1>0, <1>1, <3>1 DEF Within
    <2> QED
      BY <2>8, <2>9
  <1> QED
    BY <1>2, <1>3 DEF Granted

LEMMA BeatWithin ==
    ASSUME IInv, Bounds, [Next]_vars, NEW v \in Workers
    PROVE  Within(beat[v])'
  <1> USE LimitsAssumption, MostIs
  <1>0. /\ now \in Nat /\ now' \in Nat /\ now' >= now
        /\ wk \in [Workers -> WorkRec] /\ beat \in [Workers -> BeatRec]
    BY ClockBounds DEF IInv, Types
  <1>1. /\ wk[v].n \in Nat /\ beat[v].n \in Nat /\ beat[v].sent \in Nat /\ beat[v].until \in Nat
        /\ wk[v].n <= Most /\ beat[v].n <= Most /\ beat[v].sent <= now /\ beat[v].until <= Deadline
    BY <1>0 DEF WorkRec, BeatRec, Bounds, Within
  <1>2. CASE beat' = beat
    BY <1>0, <1>1, <1>2 DEF Within
  <1>3. ASSUME NEW w \in Workers, beat' = [beat EXCEPT ![w] = NoBeat] PROVE Within(beat[v])'
    BY <1>0, <1>1, <1>3 DEF Within, NoBeat
  <1>4. ASSUME NEW w \in Workers, Beat(w) PROVE Within(beat[v])'
    <2>1. beat' = [beat EXCEPT ![w] = [NoBeat EXCEPT !.pc = "sent", !.s = wk[w].s, !.n = wk[w].n, !.sent = now]]
      BY <1>4 DEF Beat
    <2>2. CASE v = w
      <3>1. beat'[v].n = wk[v].n /\ beat'[v].sent = now /\ beat'[v].until = 0
        BY <1>0, <2>1, <2>2 DEF NoBeat
      <3> QED
        BY <1>0, <1>1, <3>1 DEF Within
    <2>3. CASE v # w
      <3>1. beat'[v] = beat[v]
        BY <1>0, <2>1, <2>3
      <3> QED
        BY <1>0, <1>1, <3>1 DEF Within
    <2> QED
      BY <2>2, <2>3
  <1>5. ASSUME NEW w \in Workers, NEW t \in beat[w].sent..now, RenewMediaLease(w, t) PROVE Within(beat[v])'
    <2>1. beat' = [beat EXCEPT ![w].pc = "granted", ![w].until = Remaining(beat[w].sent, LeaseEnd(t))]
      BY <1>5 DEF RenewMediaLease
    <2>2. beat[w].sent \in Nat /\ beat[w].sent <= now
      BY <1>0 DEF BeatRec, Bounds, Within
    <2>3. LeaseEnd(t) \in Nat /\ LeaseEnd(t) <= Deadline
      <3>1. t \in Nat
        BY <1>0, <2>2
      <3> QED
        BY <3>1, LeaseEnds
    <2>4. Remaining(beat[w].sent, LeaseEnd(t)) \in Nat /\ Remaining(beat[w].sent, LeaseEnd(t)) <= LeaseEnd(t)
      BY <1>0, <2>2, <2>3, Remains
    <2>5. Remaining(beat[w].sent, LeaseEnd(t)) <= Deadline
      BY <2>3, <2>4
    <2>6. CASE v = w
      <3>1. /\ beat'[v].n = beat[v].n /\ beat'[v].sent = beat[v].sent
            /\ beat'[v].until = Remaining(beat[w].sent, LeaseEnd(t))
        BY <1>0, <2>1, <2>6 DEF BeatRec
      <3> QED
        BY <1>0, <1>1, <2>5, <3>1 DEF Within
    <2>7. CASE v # w
      <3>1. beat'[v] = beat[v]
        BY <1>0, <2>1, <2>7
      <3> QED
        BY <1>0, <1>1, <3>1 DEF Within
    <2> QED
      BY <2>6, <2>7
  <1>6. ASSUME NEW w \in Workers, Quiet(w)
        PROVE  beat' = beat \/ beat' = [beat EXCEPT ![w] = NoBeat] \/ Beat(w)
    BY <1>6 DEF Quiet, Claim, TakeWork, Renewed, Watchdog, AcceptLost, Die, GiveUp, NothingClaimed,
                RenewalRefused, Check, ExecutionFailed, Unbeat
  <1>7. Server \/ Tick \/ UNCHANGED vars => beat' = beat
    BY DEF Server, Dispatch, StopJob, Supersede, Reconcile, Post, Restart, Tick, vars
  <1>8. ASSUME NEW w \in Workers,
               Accept(w) \/ \E t \in wk[w].sent..now : ClaimMediaStage(w, t) \/ FailMediaStage(w, t)
        PROVE  beat' = beat
    BY <1>8 DEF Accept, ClaimMediaStage, FailMediaStage
  <1> QED
    BY <1>2, <1>3, <1>4, <1>5, <1>6, <1>7, <1>8 DEF Next, Server, Quiet

LEMMA BoundsInit == Init => Bounds
  <1> SUFFICES ASSUME Init PROVE Bounds
    OBVIOUS
  <1>1. \A s \in Stages : Attempts(s) = 0 /\ stage[s].retry = 0 /\ stage[s].result = 0
    BY DEF Init, Attempts
  <1>2. \A w \in Workers : wk[w] = NoWork /\ beat[w] = NoBeat
    BY DEF Init
  <1>3. now = 0 /\ mishaps = 0
    BY DEF Init
  <1>4. Most \in Nat /\ \A s \in Stages : Limit[s] \in Nat
    BY MostIs, LimitsAssumption
  <1> QED
    BY <1>1, <1>2, <1>3, <1>4, LimitsAssumption DEF Bounds, Within, NoWork, NoBeat

LEMMA BoundsKept == ASSUME IInv, Bounds, [Next]_vars PROVE Bounds'
  <1>1. (now <= MaxTime /\ mishaps \in 0..MaxMishaps)'
    BY ClockBounds DEF IInv
  <1>2. ASSUME NEW s \in Stages
        PROVE  (Attempts(s) <= Limit[s] /\ stage[s].retry <= MaxTime + Retry /\ stage[s].result <= Most)'
    BY AttemptsBounded, StageBounds
  <1>3. ASSUME NEW w \in Workers PROVE (Within(wk[w]) /\ Within(beat[w]))'
    BY WorkWithin, BeatWithin
  <1> QED
    BY <1>1, <1>2, <1>3 DEF Bounds

LEMMA WithinBounds == ASSUME IInv, Bounds PROVE TypeOK
  <1> USE LimitsAssumption, MostIs
  <1>1. now \in Times /\ mishaps \in 0..MaxMishaps
    BY DEF IInv, Types, Bounds, Times
  <1>2. stage \in [Stages -> [state : States, retry : 0..(MaxTime + Retry), result : 0..Most, closed : BOOLEAN]]
    BY DEF IInv, Types, Bounds, StageRec
  <1>3. ASSUME NEW s \in Stages
        PROVE  /\ Attempts(s) \in 0..Limit[s]
               /\ \A n \in 1..Attempts(s) : att[s][n] \in [end : 0..Deadline, outcome : Outcomes]
    <2>1. Attempts(s) \in Nat /\ Limit[s] \in Nat /\ Attempts(s) <= Limit[s]
      BY AttTypes DEF IInv, Bounds
    <2>2. ASSUME NEW n \in 1..Attempts(s) PROVE att[s][n] \in [end : 0..Deadline, outcome : Outcomes]
      <3>1. att[s][n] \in AttRec /\ att[s][n].end <= Deadline
        BY AttTypes DEF IInv, Leases
      <3> QED
        BY <3>1 DEF AttRec
    <2> QED
      BY <2>1, <2>2
  <1>4. /\ parent \in [Stages -> [at : {"queued", "waiting", "ready", "ended"}, stop : BOOLEAN, void : BOOLEAN]]
        /\ rec \in [do : {"nothing", "acknowledge", "failqueued"}, s : Stages \cup {0}]
    BY DEF IInv, Types, Parents
  <1>5. wk \in [Workers -> Works]
    <2>1. ASSUME NEW w \in Workers PROVE wk[w] \in Works
      <3>1. wk[w] \in WorkRec /\ wk[w].n <= Most /\ wk[w].sent <= now /\ now \in Nat /\ now <= MaxTime /\ wk[w].until <= Deadline
        BY DEF IInv, Types, Bounds, Within
      <3> QED
        BY <3>1 DEF WorkRec, WorkPc, Codes, Works, Times
    <2>2. wk = [w \in Workers |-> wk[w]]
      BY DEF IInv, Types
    <2> QED
      BY <2>1, <2>2, Zenon
  <1>6. beat \in [Workers -> Beats]
    <2>1. ASSUME NEW w \in Workers PROVE beat[w] \in Beats
      <3>1. beat[w] \in BeatRec /\ beat[w].n <= Most /\ beat[w].sent <= now /\ now \in Nat /\ now <= MaxTime /\ beat[w].until <= Deadline
        BY DEF IInv, Types, Bounds, Within
      <3> QED
        BY <3>1 DEF BeatRec, Beats, Times
    <2>2. beat = [w \in Workers |-> beat[w]]
      BY DEF IInv, Types
    <2> QED
      BY <2>1, <2>2, Zenon
  <1> QED
    BY <1>1, <1>2, <1>3, <1>4, <1>5, <1>6 DEF TypeOK

\* Every row, credential and lease stays within what it is declared to be: no
\* stage has more attempts than its limit (clip/store/media_stages.go), no lease
\* ends after the stage's deadline, and no worker believes in one that does, for
\* any stages, limits, workers and durations.
THEOREM LeasesTyped == Spec => []TypeOK
  <1>1. Init => Bounds
    BY BoundsInit
  <1>2. IInv /\ Bounds /\ [Next]_vars => Bounds'
    BY BoundsKept
  <1>3. IInv /\ Bounds => TypeOK
    BY WithinBounds
  <1> QED
    BY <1>1, <1>2, <1>3, Invariance, PTL DEF Spec
=============================================================================
