-------------------------- MODULE ActionRunsProofs --------------------------
(***************************************************************************)
(* Theorems about the record of App Action runs, for any number of runs    *)
(* and of requests.                                                        *)
(***************************************************************************)
EXTENDS ActionRuns, TLAPS

Heard == Active \cup Ended \cup {"unknown", "error", "refused"}

\* What the server's state and the record of a run have to do with each other.
Undelivered(r) ==
  /\ rec[r] = None => phase[r] = "absent" /\ disp[r].at = "none"
  /\ phase[r] # "absent" => disp[r].at \in {"wait", "answered", "done"}
  /\ disp[r].at \in {"wait", "answered"} => phase[r] # "absent"
  /\ r \in doomed => rec[r] # None
  /\ rec[r] # None /\ rec[r].dispatch = "not_sent" =>
       /\ phase[r] = "absent"
       /\ disp[r].at \notin {"call", "wait", "answered"}
       /\ rec[r].status \in {"queued", "cancelled", "blocked"}

\* A server that says a run has ended is right, and goes on being right.
EndedIsOver(r) == phase[r] \in Ended \cup {"refused"} => work[r] = "over"

\* What an answer to dispatch_run that is not merged yet says of the server.
DispatchAnswer(r) ==
  disp[r].at = "answered" =>
    /\ disp[r].got \in Heard
    /\ disp[r].got = "refused" => phase[r] = "refused"
    /\ disp[r].got \in Ended => work[r] = "over"
    /\ phase[r] \in {"pending", "refused"} => disp[r].got \in {"error", "refused"}

\* Which records are terminal before the server has accepted the run.
TerminalEarly(r) ==
  HasStatus(r, TerminalStatus) =>
    /\ phase[r] = "absent" => rec[r].status = "blocked" \/ rec[r] = [status |-> "cancelled", dispatch |-> "not_sent"]
    /\ phase[r] = "pending" => rec[r].status = "blocked"
    /\ phase[r] = "refused" => rec[r].status = "blocked" \/ rec[r].dispatch = "accepted"

RightTerminal(r) == HasStatus(r, TerminalStatus) => Finished(r) \/ r \in overtaken

RunInv(r) == Undelivered(r) /\ EndedIsOver(r) /\ DispatchAnswer(r) /\ TerminalEarly(r) /\ RightTerminal(r)

\* What an answer to another request that is not merged yet says of the server.
TaskInv(t) ==
  /\ task[t].at # "idle" => task[t].run \in Run /\ rec[task[t].run] # None
  /\ task[t].at = "answered" =>
       /\ task[t].got \in Heard \ {"refused"}
       /\ task[t].got # "error" => phase[task[t].run] # "absent"
       /\ task[t].got \in Ended => work[task[t].run] = "over"
       /\ phase[task[t].run] = "pending" => task[t].got \in {"error", "accepted"}
       /\ phase[task[t].run] = "refused" => task[t].got \in {"error", "accepted", "failed"}

IInv == TypeOK /\ (\A r \in Run : RunInv(r)) /\ (\A t \in Task : TaskInv(t))

-----------------------------------------------------------------------------
(* The server *)

ServerTypeOK == phase \in [Run -> Server!Phase] /\ work \in [Run -> {"none", "running", "over"}]

\* How the state of one run may change by itself.
Advances(r) ==
  /\ phase'[r] = "absent" <=> phase[r] = "absent"
  /\ work[r] = "over" => work'[r] = "over"
  /\ phase'[r] \in Ended \cup {"refused"} => work'[r] = "over"
  /\ phase'[r] = "pending" => phase[r] = "pending"
  /\ phase'[r] = "refused" => phase[r] \in {"pending", "refused"}
  /\ phase[r] = "refused" => phase'[r] = "refused"

\* A step of the server that is not a request starts nothing, ends nothing that
\* works, and does not take back that a run is over.
LEMMA ServerAdvances ==
  ASSUME ServerTypeOK, \A r \in Run : EndedIsOver(r), ServerSteps
  PROVE  ServerTypeOK' /\ \A r \in Run : Advances(r)
<1> USE DEF ServerTypeOK, EndedIsOver, Advances, Server!Phase, Server!Active, Server!Ended, Active, Ended
<1>1. ASSUME NEW r \in Run, Server!Progress(r)
      PROVE  ServerTypeOK' /\ \A q \in Run : Advances(q)
  <2>1. CASE Server!Prepare(r) BY <2>1 DEF Server!Prepare
  <2>2. CASE Server!Launch(r) BY <2>2 DEF Server!Launch
  <2>3. CASE Server!Exit(r) BY <2>3 DEF Server!Exit
  <2>4. CASE Server!Report(r) BY <2>4 DEF Server!Report
  <2>5. CASE Server!End(r) BY <2>5 DEF Server!End
  <2> QED BY <1>1, <2>1, <2>2, <2>3, <2>4, <2>5 DEF Server!Progress
<1>2. ASSUME NEW some \in SUBSET Run, Server!GiveUp(some)
      PROVE  ServerTypeOK' /\ \A q \in Run : Advances(q)
  BY <1>2 DEF Server!GiveUp
<1> QED BY <1>1, <1>2 DEF ServerSteps

\* So does a stop.
LEMMA StopAdvances ==
  ASSUME ServerTypeOK, \A r \in Run : EndedIsOver(r), NEW r \in Run, Server!Stop(r)
  PROVE  ServerTypeOK' /\ \A q \in Run : Advances(q)
BY DEF Server!Stop, ServerTypeOK, EndedIsOver, Advances, Server!Phase, Server!Active, Server!Ended, Active, Ended

\* What such a step leaves of the invariant, when nothing else changes but tasks.
LEMMA AdvancePreserves ==
  ASSUME IInv, ServerTypeOK', \A r \in Run : Advances(r), UNCHANGED <<rec, disp, restart>>
  PROVE  /\ \A r \in Run : RunInv(r)'
         /\ \A t \in Task : task'[t] = task[t] => TaskInv(t)'
<1> USE DEF IInv, TypeOK, ServerTypeOK, Server!Phase, Server!Active, Server!Ended, restart
<1>1. ASSUME NEW r \in Run PROVE RunInv(r)'
  <2>0. RunInv(r) /\ Advances(r) OBVIOUS
  <2>1. Undelivered(r)' BY <2>0 DEF RunInv, Undelivered, Advances
  <2>2. EndedIsOver(r)' BY <2>0 DEF RunInv, EndedIsOver, Advances
  <2>3. DispatchAnswer(r)' BY <2>0 DEF RunInv, DispatchAnswer, Undelivered, Advances, Ended
  <2>4. TerminalEarly(r)' BY <2>0 DEF RunInv, TerminalEarly, HasStatus, Advances
  <2>5. RightTerminal(r)' BY <2>0 DEF RunInv, RightTerminal, HasStatus, Advances, Finished
  <2> QED BY <2>1, <2>2, <2>3, <2>4, <2>5 DEF RunInv
<1>2. ASSUME NEW t \in Task, task'[t] = task[t] PROVE TaskInv(t)'
  BY <1>2 DEF TaskInv, Advances, Ended
<1> QED BY <1>1, <1>2

LEMMA ServerStepsPreserve == ASSUME IInv, ServerSteps PROVE IInv'
<1> ServerTypeOK /\ \A r \in Run : EndedIsOver(r) BY DEF IInv, TypeOK, ServerTypeOK, RunInv
<1>1. ServerTypeOK' /\ \A r \in Run : Advances(r) BY ServerAdvances
<1>2. UNCHANGED <<rec, disp, task, restart>> BY DEF ServerSteps, requests
<1>3. TypeOK' BY <1>1, <1>2 DEF IInv, TypeOK, ServerTypeOK, Server!Phase, Server!Active, Server!Ended, restart
<1> QED BY <1>1, <1>2, <1>3, AdvancePreserves DEF IInv

-----------------------------------------------------------------------------
(* Records *)

LEMMA BlockedRecord ==
  ASSUME NEW x \in Record
  PROVE  /\ AsBlocked(x) \in Record
         /\ AsBlocked(x).dispatch = x.dispatch
         /\ AsBlocked(x).status \in {"blocked", x.status}
         /\ AsBlocked(x).status # "blocked" => AsBlocked(x) = x
BY DEF Record, AsBlocked, Status, Active, Ended, TerminalStatus

LEMMA UnknownRecord ==
  ASSUME NEW x \in Record
  PROVE  /\ AsUnknown(x) \in Record
         /\ AsUnknown(x) = x \/ AsUnknown(x) = [status |-> "unknown", dispatch |-> "unknown"]
BY DEF Record, AsUnknown, Status, Active, Ended, TerminalStatus

\* What an answer that is not an error does to a record.
LEMMA MergedRecord ==
  ASSUME NEW x \in Record, NEW p \in Heard \ {"error", "refused"}, NEW y \in Merged(x, p)
  PROVE  /\ y \in Record
         /\ y = x \/ y.status \in {p, "unknown"} \/ (p = "succeeded" /\ y.status = "failed")
         /\ y.status \in TerminalStatus => y = x \/ p \in Ended
         /\ y.dispatch \in {x.dispatch, "unknown", "accepted"}
         /\ y.dispatch = "accepted" \/ y = x \/ p \in {"succeeded", "unknown"}
         /\ x.status \in TerminalStatus => y = x
         /\ x.status # "unknown" /\ y.status # "unknown" => Rank(y.status) >= Rank(x.status)
<1> USE DEF Record, Heard, Status, Active, Ended, TerminalStatus
<1>1. CASE x.status \in TerminalStatus \/ Stale(x, p) BY <1>1 DEF Merged, Rank
<1>2. CASE ~(x.status \in TerminalStatus \/ Stale(x, p)) /\ p = "unknown" BY <1>2 DEF Merged
<1>3. CASE ~(x.status \in TerminalStatus \/ Stale(x, p)) /\ p # "unknown"
  <2>1. \/ y = [status |-> p, dispatch |-> "accepted"]
        \/ p = "succeeded" /\ y = [x EXCEPT !.status = "failed"] BY <1>3 DEF Merged
  <2>2. x.status # "unknown" => Rank(p) >= Rank(x.status) BY <1>3 DEF Stale, Rank
  <2> QED BY <1>3, <2>1, <2>2 DEF Rank
<1> QED BY <1>1, <1>2, <1>3

-----------------------------------------------------------------------------
(* Dispatch *)

LEMMA CreatePreserves == ASSUME IInv, NEW r \in Run, Create(r) PROVE IInv'
<1> USE DEF Create, SetRec, DispAt, server, restart
<1>1. TypeOK' BY DEF IInv, TypeOK, Record, Status, Active, Ended, TerminalStatus
<1>2. ASSUME NEW q \in Run PROVE RunInv(q)'
  <2> RunInv(q) BY DEF IInv
  <2> rec'[q] # None => rec[q] # None \/ q = r BY DEF IInv, TypeOK
  <2>1. CASE q = r
    BY <2>1, RunsConstants DEF IInv, TypeOK, RunInv, Undelivered, EndedIsOver, DispatchAnswer, TerminalEarly, RightTerminal,
       HasStatus, Finished, Record, Status, Active, Ended, TerminalStatus
  <2>2. CASE q # r
    BY <2>2 DEF IInv, TypeOK, RunInv, Undelivered, EndedIsOver, DispatchAnswer, TerminalEarly, RightTerminal, HasStatus, Finished
  <2> QED BY <2>1, <2>2
<1>3. ASSUME NEW t \in Task PROVE TaskInv(t)'
  BY RunsConstants DEF IInv, TypeOK, TaskInv, Record, Status, Active, Ended, TerminalStatus
<1> QED BY <1>1, <1>2, <1>3 DEF IInv

\* A step of a dispatch that leaves the server, the record and the tasks alone.
LEMMA DispatchStep ==
  ASSUME IInv, NEW r \in Run, UNCHANGED <<server, rec, task, restart>>,
         disp[r].at # "none",
         NEW d, disp' = [disp EXCEPT ![r] = d],
         d \in [at : {"load", "preflight", "claim", "done"}, got : Answer],
         d.at # "done" => phase[r] = "absent"
  PROVE  IInv'
<1> USE DEF server, restart
<1>1. TypeOK' BY DEF IInv, TypeOK
<1>2. ASSUME NEW q \in Run PROVE RunInv(q)'
  BY DEF IInv, TypeOK, RunInv, Undelivered, EndedIsOver, DispatchAnswer, TerminalEarly, RightTerminal, HasStatus, Finished
<1>3. ASSUME NEW t \in Task PROVE TaskInv(t)' BY DEF IInv, TypeOK, TaskInv
<1> QED BY <1>1, <1>2, <1>3 DEF IInv

LEMMA LoadPreserves == ASSUME IInv, NEW r \in Run, Load(r) PROVE IInv'
<1> DEFINE d == [disp[r] EXCEPT !.at = IF Dispatchable(rec[r]) THEN "preflight" ELSE "done"]
<1>1. disp[r].at = "load" /\ disp' = [disp EXCEPT ![r] = d] BY DEF Load, DispAt, IInv, TypeOK
<1>2. d \in [at : {"load", "preflight", "claim", "done"}, got : Answer] BY DEF IInv, TypeOK
<1>3. phase[r] = "absent" BY <1>1 DEF IInv, RunInv, Undelivered
<1> HIDE DEF d
<1> QED BY <1>1, <1>2, <1>3, DispatchStep DEF Load

LEMMA CancelDispatchPreserves == ASSUME IInv, NEW r \in Run, CancelDispatch(r) PROVE IInv'
<1>1. disp[r].at # "none" /\ disp' = [disp EXCEPT ![r] = Over] BY DEF CancelDispatch
<1>2. Over \in [at : {"load", "preflight", "claim", "done"}, got : Answer] /\ Over.at = "done" BY DEF Over, Answer
<1> QED BY <1>1, <1>2, DispatchStep DEF CancelDispatch

DispType == [at : {"none", "load", "preflight", "claim", "call", "wait", "answered", "done"}, got : Answer]
TaskType == [at : {"idle", "status", "stop", "answered"}, run : Run \cup {None}, got : Answer]

\* A change of the record of r to x, by a dispatch that goes on or ends with it,
\* by a request that ends with it, or by one that is to stop the run.
Changes(r, x) ==
  /\ SetRec(r, x)
  /\ rec[r] # None
  /\ disp' \in [Run -> DispType]
  /\ \A q \in Run :
       \/ disp'[q] = disp[q]
       \/ q = r /\ disp'[q].at = "done"
       \/ /\ q = r /\ disp'[q].at = "call"
          /\ phase[r] = "absent" /\ x.dispatch = "sent" /\ x.status \notin TerminalStatus
  /\ task' \in [Task -> TaskType]
  /\ \A t \in Task :
       task'[t] = task[t] \/ task'[t].at = "idle" \/ (task'[t].at = "stop" /\ task'[t].run = r)
  /\ doomed' \subseteq doomed /\ overtaken \subseteq overtaken' /\ overtaken' \subseteq Run
  /\ UNCHANGED <<server, recovery>>

\* What x may be.
Admissible(r, x) ==
  /\ x \in Record
  /\ x.dispatch = "not_sent" => rec[r].dispatch = "not_sent" /\ x.status \in {"queued", "cancelled", "blocked"}
  /\ x.status \in TerminalStatus /\ x # rec[r] =>
       /\ \/ x.status = "blocked"
          \/ x = [status |-> "cancelled", dispatch |-> "not_sent"]
          \/ phase[r] \notin {"absent", "pending", "refused"}
          \/ phase[r] = "refused" /\ x.dispatch = "accepted"
       /\ work[r] = "over" \/ (phase[r] = "absent" /\ disp'[r].at # "call") \/ r \in overtaken'

LEMMA RecordStep ==
  ASSUME IInv, NEW r \in Run, NEW x, Changes(r, x), Admissible(r, x)
  PROVE  IInv'
<1> USE DEF server
<1> RunInv(r) BY DEF IInv
<1>0. /\ rec' \in [Run -> Record \cup {None}] /\ rec'[r] = x /\ rec'[r] # None
      /\ \A q \in Run \ {r} : rec'[q] = rec[q]
  BY RunsConstants DEF IInv, TypeOK, Changes, Admissible, SetRec
<1>1. TypeOK' BY <1>0 DEF IInv, TypeOK, Changes, DispType, TaskType
<1>2. ASSUME NEW q \in Run PROVE RunInv(q)'
  <2>1. CASE q # r
    <3> RunInv(q) /\ disp'[q] = disp[q] BY <2>1 DEF IInv, Changes
    <3> QED BY <2>1, <1>0 DEF Changes, RunInv, Undelivered, EndedIsOver, DispatchAnswer, TerminalEarly, RightTerminal, HasStatus, Finished
  <2>2. CASE q = r
    <3>0. /\ x \in Record
          /\ disp'[r] = disp[r] \/ disp'[r].at = "done" \/ (disp'[r].at = "call" /\ phase[r] = "absent" /\ x.dispatch = "sent" /\ x.status \notin TerminalStatus)
          /\ UNCHANGED <<phase, work>> /\ doomed' \subseteq doomed /\ overtaken \subseteq overtaken' /\ rec[r] # None
      BY DEF Changes, Admissible
    <3>1. Undelivered(r)' BY <1>0, <3>0 DEF RunInv, Undelivered, Admissible
    <3>2. EndedIsOver(r)' /\ DispatchAnswer(r)' BY <3>0 DEF RunInv, EndedIsOver, DispatchAnswer
    <3>3. TerminalEarly(r)' BY <1>0, <3>0 DEF RunInv, Undelivered, TerminalEarly, HasStatus, Admissible
    <3>4. RightTerminal(r)' BY <1>0, <3>0 DEF RunInv, RightTerminal, HasStatus, Finished, Admissible
    <3> QED BY <2>2, <3>1, <3>2, <3>3, <3>4 DEF RunInv
  <2> QED BY <2>1, <2>2
<1>3. ASSUME NEW t \in Task PROVE TaskInv(t)' BY <1>0 DEF IInv, TypeOK, TaskInv, Changes
<1> QED BY <1>1, <1>2, <1>3 DEF IInv

\* Blocking a record is admissible when the server will not start the run any more.
LEMMA BlockAdmissible ==
  ASSUME IInv, NEW r \in Run, rec[r] # None,
         \/ phase[r] = "absent" /\ disp'[r].at # "call"
         \/ phase[r] = "refused"
         \/ r \in overtaken'
  PROVE  Admissible(r, AsBlocked(rec[r]))
<1> rec[r] \in Record /\ RunInv(r) BY DEF IInv, TypeOK
<1> QED BY BlockedRecord DEF Admissible, RunInv, Undelivered, EndedIsOver

LEMMA UnknownAdmissible ==
  ASSUME IInv, NEW r \in Run, rec[r] # None
  PROVE  Admissible(r, AsUnknown(rec[r]))
<1> rec[r] \in Record /\ RunInv(r) BY DEF IInv, TypeOK
<1> QED BY UnknownRecord DEF Admissible, RunInv, Undelivered, TerminalStatus, Ended

LEMMA PreflightPreserves == ASSUME IInv, NEW r \in Run, Preflight(r) PROVE IInv'
<1> RunInv(r) /\ disp[r].at = "preflight" BY DEF IInv, Preflight, DispAt
<1>1. CASE DispAt(r, "preflight", "claim") /\ UNCHANGED rec
  <2> DEFINE d == [disp[r] EXCEPT !.at = "claim"]
  <2>1. disp' = [disp EXCEPT ![r] = d] /\ d \in [at : {"load", "preflight", "claim", "done"}, got : Answer]
    BY <1>1 DEF DispAt, IInv, TypeOK
  <2>2. phase[r] = "absent" BY DEF RunInv, Undelivered
  <2> HIDE DEF d
  <2> QED BY <1>1, <2>1, <2>2, DispatchStep DEF Preflight
<1>2. CASE DispAt(r, "preflight", "done") /\ SetRec(r, AsBlocked(rec[r]))
  <2>1. rec[r] # None /\ phase[r] = "absent" BY DEF RunInv, Undelivered
  <2>2. disp' \in [Run -> DispType] /\ disp'[r].at = "done" /\ \A q \in Run \ {r} : disp'[q] = disp[q]
    BY <1>2 DEF DispAt, IInv, TypeOK, DispType
  <2>3. Changes(r, AsBlocked(rec[r])) BY <1>2, <2>1, <2>2 DEF Preflight, Changes, IInv, TypeOK, TaskType, server, restart
  <2>4. Admissible(r, AsBlocked(rec[r])) BY <2>1, <2>2, BlockAdmissible
  <2> QED BY <2>3, <2>4, RecordStep
<1> QED BY <1>1, <1>2 DEF Preflight

LEMMA ClaimPreserves == ASSUME IInv, NEW r \in Run, Claim(r) PROVE IInv'
<1> RunInv(r) /\ disp[r].at = "claim" BY DEF IInv, Claim, DispAt
<1> phase[r] = "absent" /\ rec[r] # None BY DEF RunInv, Undelivered
<1>1. CASE DispAt(r, "claim", "done") /\ UNCHANGED rec
  <2> DEFINE d == [disp[r] EXCEPT !.at = "done"]
  <2>1. disp' = [disp EXCEPT ![r] = d] /\ d \in [at : {"load", "preflight", "claim", "done"}, got : Answer]
    BY <1>1 DEF DispAt, IInv, TypeOK
  <2> HIDE DEF d
  <2> QED BY <1>1, <2>1, DispatchStep DEF Claim
<1>2. CASE DispAt(r, "claim", "call") /\ SetRec(r, [status |-> "dispatching", dispatch |-> "sent"])
  <2> DEFINE x == [status |-> "dispatching", dispatch |-> "sent"]
  <2>2. disp' \in [Run -> DispType] /\ disp'[r].at = "call" /\ \A q \in Run \ {r} : disp'[q] = disp[q]
    BY <1>2 DEF DispAt, IInv, TypeOK, DispType
  <2>3. Changes(r, x)
    BY <1>2, <2>2 DEF Claim, Changes, IInv, TypeOK, TaskType, server, restart, TerminalStatus, Ended
  <2>4. Admissible(r, x) BY DEF Admissible, Record, Status, TerminalStatus, Ended
  <2> QED BY <2>3, <2>4, RecordStep
<1> QED BY <1>1, <1>2 DEF Claim

LEMMA CallPreserves == ASSUME IInv, NEW r \in Run, Call(r) PROVE IInv'
<1> RunInv(r) /\ disp[r].at = "call" BY DEF IInv, Call, DispAt
<1> phase[r] = "absent" /\ rec[r] # None BY DEF RunInv, Undelivered
<1>1. ASSUME NEW x \in {AsBlocked(rec[r]), AsUnknown(rec[r])}, SetRec(r, x), DispAt(r, "call", "done"), UNCHANGED server
      PROVE  IInv'
  <2>2. disp' \in [Run -> DispType] /\ disp'[r].at = "done" /\ \A q \in Run \ {r} : disp'[q] = disp[q]
    BY <1>1 DEF DispAt, IInv, TypeOK, DispType
  <2>3. Changes(r, x) BY <1>1, <2>2 DEF Call, Changes, IInv, TypeOK, TaskType, restart
  <2>4. Admissible(r, x) BY <1>1, <2>2, BlockAdmissible, UnknownAdmissible
  <2> QED BY <2>3, <2>4, RecordStep
<1>2. CASE DispAt(r, "call", "wait") /\ Server!Start(r) /\ UNCHANGED rec
  <2>1. /\ phase' = [phase EXCEPT ![r] = "pending"] /\ work' = work
        /\ disp' \in [Run -> DispType] /\ disp'[r].at = "wait" /\ \A q \in Run \ {r} : disp'[q] = disp[q]
        /\ UNCHANGED <<rec, task, recovery, doomed, overtaken>>
    BY <1>2 DEF DispAt, IInv, TypeOK, DispType, Server!Start, Call, restart
  <2>2. TypeOK' BY <2>1 DEF IInv, TypeOK, DispType, Server!Phase
  <2>3. ASSUME NEW q \in Run PROVE RunInv(q)'
    <3> RunInv(q) /\ phase \in [Run -> Server!Phase] BY DEF IInv, TypeOK
    <3>1. CASE q # r
      BY <3>1, <2>1 DEF RunInv, Undelivered, EndedIsOver, DispatchAnswer, TerminalEarly, RightTerminal, HasStatus, Finished
    <3>2. CASE q = r
      <4>1. Undelivered(r)' /\ EndedIsOver(r)' /\ DispatchAnswer(r)'
        BY <2>1 DEF RunInv, Undelivered, EndedIsOver, DispatchAnswer, Ended
      <4>2. TerminalEarly(r)' BY <2>1 DEF RunInv, Undelivered, TerminalEarly, HasStatus
      <4>3. RightTerminal(r)' BY <2>1 DEF RunInv, RightTerminal, HasStatus, Finished
      <4> QED BY <3>2, <4>1, <4>2, <4>3 DEF RunInv
    <3> QED BY <3>1, <3>2
  <2>4. ASSUME NEW t \in Task PROVE TaskInv(t)'
    <3> TaskInv(t) /\ phase \in [Run -> Server!Phase] BY DEF IInv, TypeOK
    <3>1. CASE task[t].at = "answered" /\ task[t].run = r BY <3>1, <2>1 DEF TaskInv, Ended
    <3>2. CASE ~(task[t].at = "answered" /\ task[t].run = r) BY <3>2, <2>1 DEF TaskInv
    <3> QED BY <3>1, <3>2
  <2> QED BY <2>2, <2>3, <2>4 DEF IInv
<1> QED BY <1>1, <1>2 DEF Call

\* A snapshot of a run the server has heard of.
LEMMA SnapshotHeard ==
  ASSUME NEW r \in Run, phase[r] \in Server!Phase \ {"absent"}
  PROVE  /\ Snapshot(r) \in Heard \ {"error", "refused"}
         /\ Snapshot(r) \in Ended => phase[r] \in Ended \cup {"refused"}
         /\ phase[r] = "pending" => Snapshot(r) = "accepted"
         /\ phase[r] = "refused" => Snapshot(r) = "failed"
BY DEF Snapshot, Server!Phase, Server!Active, Server!Ended, Heard, Active, Ended

LEMMA AnsweredPreserves == ASSUME IInv, NEW r \in Run, Answered(r) PROVE IInv'
<1> RunInv(r) /\ phase[r] \in Server!Phase \ {"absent"} BY DEF IInv, TypeOK, RunInv, Undelivered, Answered
<1>1. PICK got \in {"error"} \cup IF phase[r] = "refused" THEN {"refused"}
                                  ELSE IF phase[r] = "pending" THEN {} ELSE {Snapshot(r)} :
        disp' = [disp EXCEPT ![r] = [at |-> "answered", got |-> got]]
  BY DEF Answered
<1>2. /\ got \in Heard
      /\ got = "refused" => phase[r] = "refused"
      /\ got \in Ended => work[r] = "over"
      /\ phase[r] \in {"pending", "refused"} => got \in {"error", "refused"}
  <2>1. CASE got = "error" BY <2>1 DEF Heard, Ended
  <2>2. CASE got = "refused" /\ phase[r] = "refused" BY <2>2 DEF Heard, Ended
  <2>3. CASE got = Snapshot(r) /\ phase[r] \notin {"pending", "refused"}
    BY <2>3, SnapshotHeard DEF RunInv, EndedIsOver
  <2> QED BY <2>1, <2>2, <2>3
<1>3. UNCHANGED <<phase, work, rec, task, recovery, doomed, overtaken>> BY DEF Answered, server, restart
<1>4. TypeOK' BY <1>1, <1>2, <1>3 DEF IInv, TypeOK, Heard, Answer
<1>5. ASSUME NEW q \in Run PROVE RunInv(q)'
  <2> RunInv(q) /\ disp \in [Run -> DispType] BY DEF IInv, TypeOK, DispType
  <2>1. CASE q # r
    BY <2>1, <1>1, <1>3 DEF RunInv, Undelivered, EndedIsOver, DispatchAnswer, TerminalEarly, RightTerminal, HasStatus, Finished
  <2>2. CASE q = r
    BY <2>2, <1>1, <1>2, <1>3
    DEF RunInv, Undelivered, EndedIsOver, DispatchAnswer, TerminalEarly, RightTerminal, HasStatus, Finished, Answered
  <2> QED BY <2>1, <2>2
<1>6. ASSUME NEW t \in Task PROVE TaskInv(t)' BY <1>3 DEF IInv, TaskInv
<1> QED BY <1>4, <1>5, <1>6 DEF IInv

\* An answer that is merged is admissible, whether the dispatch or another request got it.
LEMMA MergedAdmissible ==
  ASSUME IInv, NEW r \in Run, rec[r] # None,
         NEW p \in Heard \ {"error", "refused"}, NEW x \in Merged(rec[r], p),
         phase[r] # "absent", p \in Ended => work[r] = "over",
         phase[r] = "pending" => p = "accepted", phase[r] = "refused" => p \in {"accepted", "failed"}
  PROVE  Admissible(r, x)
<1> rec[r] \in Record /\ RunInv(r) BY DEF IInv, TypeOK
<1>1. /\ x \in Record
      /\ x = rec[r] \/ x.status \in {p, "unknown"} \/ (p = "succeeded" /\ x.status = "failed")
      /\ x.status \in TerminalStatus => x = rec[r] \/ p \in Ended
      /\ x.dispatch \in {rec[r].dispatch, "unknown", "accepted"}
      /\ x.dispatch = "accepted" \/ x = rec[r] \/ p \in {"succeeded", "unknown"}
  BY MergedRecord
<1>2. rec[r].dispatch # "not_sent" BY DEF RunInv, Undelivered
<1> QED BY <1>1, <1>2 DEF Admissible, Ended, TerminalStatus

LEMMA DispatchedPreserves == ASSUME IInv, NEW r \in Run, Dispatched(r) PROVE IInv'
<1> RunInv(r) /\ disp[r].at = "answered" BY DEF IInv, Dispatched
<1>1. phase[r] # "absent" /\ rec[r] # None BY DEF RunInv, Undelivered
<1>2. PICK x \in AfterAnswer(rec[r], disp[r].got) : SetRec(r, x) BY DEF Dispatched
<1>3. disp' \in [Run -> DispType] /\ disp'[r].at = "done" /\ \A q \in Run \ {r} : disp'[q] = disp[q]
  BY DEF Dispatched, IInv, TypeOK, DispType, Answer
<1>4. Changes(r, x) BY <1>1, <1>2, <1>3 DEF Dispatched, Changes, IInv, TypeOK, TaskType, restart
<1>5. Admissible(r, x)
  <2>1. CASE disp[r].got = "refused"
    BY <2>1, <1>1, <1>2, <1>3, BlockAdmissible DEF AfterAnswer, RunInv, DispatchAnswer
  <2>2. CASE disp[r].got = "error"
    BY <2>2, <1>1, <1>2, UnknownAdmissible DEF AfterAnswer
  <2>3. CASE disp[r].got \notin {"refused", "error"}
    <3>1. x \in Merged(rec[r], disp[r].got) BY <2>3, <1>2 DEF AfterAnswer
    <3>2. disp[r].got \in Heard \ {"error", "refused"} /\ (disp[r].got \in Ended => work[r] = "over")
          /\ phase[r] \notin {"pending", "refused"}
      BY <2>3 DEF RunInv, DispatchAnswer
    <3> QED BY <3>1, <3>2, <1>1, MergedAdmissible
  <2> QED BY <2>1, <2>2, <2>3
<1> QED BY <1>4, <1>5, RecordStep

-----------------------------------------------------------------------------
(* Other requests *)

\* A request that goes on, or ends, and touches nothing else.
LEMMA TaskStep ==
  ASSUME IInv, UNCHANGED <<server, rec, disp, restart>>,
         task' \in [Task -> TaskType],
         \A t \in Task : task'[t] = task[t] \/ TaskInv(t)'
  PROVE  IInv'
<1> USE DEF server, restart
<1>1. TypeOK' BY DEF IInv, TypeOK, TaskType
<1>2. ASSUME NEW q \in Run PROVE RunInv(q)'
  BY DEF IInv, RunInv, Undelivered, EndedIsOver, DispatchAnswer, TerminalEarly, RightTerminal, HasStatus, Finished
<1>3. ASSUME NEW t \in Task PROVE TaskInv(t)' BY DEF IInv, TaskInv
<1> QED BY <1>1, <1>2, <1>3 DEF IInv

LEMMA AskPreserves == ASSUME IInv, NEW t \in Task, NEW r \in Run, Ask(t, r) PROVE IInv'
<1>1. task' \in [Task -> TaskType] BY DEF Ask, IInv, TypeOK, TaskType, Answer
<1>2. ASSUME NEW s \in Task PROVE task'[s] = task[s] \/ TaskInv(s)'
  BY DEF Ask, IInv, TypeOK, TaskInv
<1> QED BY <1>1, <1>2, TaskStep DEF Ask

LEMMA ReceivePreserves == ASSUME IInv, NEW t \in Task, Receive(t) PROVE IInv'
<1> DEFINE r == task[t].run
<1>0. TaskInv(t) /\ task[t].at = "status" BY DEF IInv, Receive
<1>1. r \in Run /\ rec[r] # None BY <1>0 DEF TaskInv
<1>2. PICK got \in {"error"} \cup IF phase[r] = "absent" THEN {} ELSE {Snapshot(r)} :
        task' = [task EXCEPT ![t].at = "answered", ![t].got = got]
  BY DEF Receive
<1>3. /\ got \in Heard \ {"refused"}
      /\ got # "error" => phase[r] # "absent"
      /\ got \in Ended => work[r] = "over"
      /\ phase[r] = "pending" => got \in {"error", "accepted"}
      /\ phase[r] = "refused" => got \in {"error", "failed"}
  <2>1. CASE got = "error" BY <2>1 DEF Heard, Ended
  <2>2. CASE got = Snapshot(r) /\ phase[r] # "absent"
    <3>1. phase[r] \in Server!Phase \ {"absent"} /\ RunInv(r) BY <1>1, <2>2 DEF IInv, TypeOK
    <3> QED BY <3>1, <2>2, <1>1, SnapshotHeard DEF RunInv, EndedIsOver
  <2> QED BY <2>1, <2>2
<1>4. task' \in [Task -> TaskType]
  <2>1. got \in Answer BY <1>3 DEF Heard, Answer
  <2>2. task \in [Task -> TaskType] BY DEF IInv, TypeOK, TaskType
  <2>3. [task[t] EXCEPT !.at = "answered", !.got = got] \in TaskType BY <2>1, <2>2 DEF TaskType
  <2>4. task' = [task EXCEPT ![t] = [task[t] EXCEPT !.at = "answered", !.got = got]] BY <1>2, <2>2
  <2> QED BY <2>2, <2>3, <2>4
<1>5. ASSUME NEW s \in Task PROVE task'[s] = task[s] \/ TaskInv(s)'
  <2>1. CASE s = t
    <3>1. task'[t].at = "answered" /\ task'[t].run = r /\ task'[t].got = got BY <1>2 DEF IInv, TypeOK
    <3> QED BY <2>1, <3>1, <1>1, <1>3 DEF Receive, server, TaskInv
  <2>2. CASE s # t BY <2>2, <1>2 DEF IInv, TypeOK
  <2> QED BY <2>1, <2>2
<1> QED BY <1>4, <1>5, TaskStep DEF Receive

LEMMA CancelTaskPreserves == ASSUME IInv, NEW t \in Task, CancelTask(t) PROVE IInv'
<1>1. task' \in [Task -> TaskType] BY DEF CancelTask, NoTask, IInv, TypeOK, TaskType, Answer
<1>2. ASSUME NEW s \in Task PROVE task'[s] = task[s] \/ TaskInv(s)'
  BY DEF CancelTask, NoTask, IInv, TypeOK, TaskInv
<1> QED BY <1>1, <1>2, TaskStep DEF CancelTask

LEMMA StopPreserves == ASSUME IInv, NEW t \in Task, NEW r \in Run, Stop(t, r) PROVE IInv'
<1> rec[r] # None /\ rec[r] \in Record /\ RunInv(r) BY DEF IInv, TypeOK, Stop
<1>1. UNCHANGED <<phase, work, disp, recovery, doomed, overtaken>> BY DEF Stop, server, restart
<1>2. CASE rec[r].dispatch = "not_sent"
  <2> DEFINE x == [rec[r] EXCEPT !.status = "cancelled"]
  <2>1. SetRec(r, x) /\ UNCHANGED task BY <1>2 DEF Stop
  <2>2. x = [status |-> "cancelled", dispatch |-> "not_sent"] BY <1>2 DEF Record
  <2>3. Changes(r, x) BY <1>1, <2>1 DEF Changes, IInv, TypeOK, TaskType, DispType, server
  <2>4. Admissible(r, x)
    BY <1>1, <1>2, <2>2 DEF Admissible, Record, Status, TerminalStatus, Ended, RunInv, Undelivered
  <2> HIDE DEF x
  <2> QED BY <2>3, <2>4, RecordStep
<1>3. CASE rec[r].dispatch # "not_sent"
  <2> DEFINE x == [rec[r] EXCEPT !.status = "stopping"]
  <2>1. SetRec(r, x) /\ task' = [task EXCEPT ![t] = [at |-> "stop", run |-> r, got |-> None]] BY <1>3 DEF Stop
  <2>2. x \in Record /\ x.status = "stopping" /\ x.dispatch # "not_sent" BY <1>3 DEF Record, Status, Active
  <2>3. Changes(r, x) BY <1>1, <2>1 DEF Changes, IInv, TypeOK, TaskType, DispType, Answer, server
  <2>4. Admissible(r, x) BY <2>2 DEF Admissible, TerminalStatus, Ended
  <2> HIDE DEF x
  <2> QED BY <2>3, <2>4, RecordStep
<1> QED BY <1>2, <1>3

LEMMA SendStopPreserves == ASSUME IInv, NEW t \in Task, SendStop(t) PROVE IInv'
<1> DEFINE r == task[t].run
<1>0. TaskInv(t) /\ task[t].at = "stop" /\ task \in [Task -> TaskType] BY DEF IInv, TypeOK, TaskType, SendStop
<1>1. r \in Run /\ rec[r] # None BY <1>0 DEF TaskInv
<1>2. UNCHANGED <<rec, disp, restart>> BY DEF SendStop
<1>3. ASSUME task' = [task EXCEPT ![t].at = "status"]
      PROVE  task' \in [Task -> TaskType] /\ \A s \in Task : task'[s] = task[s] \/ TaskInv(s)'
  <2>1. task' \in [Task -> TaskType] BY <1>0, <1>3 DEF TaskType
  <2>2. ASSUME NEW s \in Task PROVE task'[s] = task[s] \/ TaskInv(s)'
    <3>1. CASE s = t
      <4>1. task'[t].at = "status" /\ task'[t].run = r BY <1>0, <1>3
      <4> QED BY <3>1, <4>1, <1>1, <1>2 DEF TaskInv
    <3>2. CASE s # t BY <3>2, <1>0, <1>3
    <3> QED BY <3>1, <3>2
  <2> QED BY <2>1, <2>2
<1>4. CASE Server!Stop(r) /\ task' = [task EXCEPT ![t].at = "status"]
  <2>1. ServerTypeOK /\ \A q \in Run : EndedIsOver(q) BY DEF IInv, TypeOK, ServerTypeOK, RunInv
  <2>2. ServerTypeOK' /\ \A q \in Run : Advances(q) BY <1>1, <1>4, <2>1, StopAdvances
  <2>3. TypeOK' BY <1>2, <1>3, <1>4, <2>2 DEF IInv, TypeOK, ServerTypeOK, TaskType, restart
  <2>4. /\ \A q \in Run : RunInv(q)'
        /\ \A s \in Task : task'[s] = task[s] => TaskInv(s)'
    BY <1>2, <2>2, AdvancePreserves
  <2> QED BY <1>3, <1>4, <2>3, <2>4 DEF IInv
<1>5. CASE UNCHANGED server /\ task' = [task EXCEPT ![t].at = "status"] BY <1>2, <1>3, <1>5, TaskStep
<1>6. CASE UNCHANGED server /\ task' = [task EXCEPT ![t].at = "answered", ![t].got = "error"]
  <2>1. [task[t] EXCEPT !.at = "answered", !.got = "error"] \in TaskType BY <1>0 DEF TaskType, Answer
  <2>2. task' = [task EXCEPT ![t] = [task[t] EXCEPT !.at = "answered", !.got = "error"]] BY <1>0, <1>6
  <2>3. task' \in [Task -> TaskType] BY <1>0, <2>1, <2>2
  <2>4. ASSUME NEW s \in Task PROVE task'[s] = task[s] \/ TaskInv(s)'
    <3>1. CASE s = t
      <4>1. task'[t].at = "answered" /\ task'[t].run = r /\ task'[t].got = "error" BY <1>0, <2>2 DEF TaskType
      <4> QED BY <3>1, <4>1, <1>1, <1>2 DEF TaskInv, Heard, Ended
    <3>2. CASE s # t BY <3>2, <1>0, <2>2
    <3> QED BY <3>1, <3>2
  <2> QED BY <1>2, <1>6, <2>3, <2>4, TaskStep
<1> QED BY <1>4, <1>5, <1>6 DEF SendStop

LEMMA ReconciledPreserves == ASSUME IInv, NEW t \in Task, Reconciled(t) PROVE IInv'
<1> DEFINE r == task[t].run
<1>0. TaskInv(t) /\ task[t].at = "answered" BY DEF IInv, Reconciled
<1>1. r \in Run /\ rec[r] # None BY <1>0 DEF TaskInv
<1>2. PICK x \in AfterAnswer(rec[r], task[t].got) : SetRec(r, x) BY DEF Reconciled
<1>3. task' \in [Task -> TaskType] /\ \A s \in Task : task'[s] = task[s] \/ task'[s].at = "idle"
  BY DEF Reconciled, NoTask, IInv, TypeOK, TaskType, Answer
<1>4. Changes(r, x) BY <1>1, <1>2, <1>3 DEF Reconciled, Changes, IInv, TypeOK, DispType, restart
<1>5. Admissible(r, x)
  <2>1. CASE task[t].got = "error" BY <2>1, <1>1, <1>2, UnknownAdmissible DEF AfterAnswer
  <2>2. CASE task[t].got # "error"
    <3>1. /\ task[t].got \in Heard \ {"error", "refused"} /\ phase[r] # "absent"
          /\ task[t].got \in Ended => work[r] = "over"
          /\ phase[r] = "pending" => task[t].got = "accepted"
          /\ phase[r] = "refused" => task[t].got \in {"accepted", "failed"}
      BY <2>2, <1>0 DEF TaskInv
    <3>2. x \in Merged(rec[r], task[t].got) BY <2>2, <3>1, <1>2 DEF AfterAnswer
    <3> QED BY <3>1, <3>2, <1>1, MergedAdmissible
  <2> QED BY <2>1, <2>2
<1> QED BY <1>1, <1>4, <1>5, RecordStep

-----------------------------------------------------------------------------
(* Crashes and recovery *)

LEMMA CrashPreserves == ASSUME IInv, Crash PROVE IInv'
<1>1. TypeOK' BY DEF IInv, TypeOK, Crash, server, Over, NoTask, Answer
<1>2. ASSUME NEW q \in Run PROVE RunInv(q)'
  <2> RunInv(q) BY DEF IInv
  <2>1. /\ disp'[q] = disp[q] \/ (disp'[q].at = "done" /\ disp[q].at # "none")
        /\ UNCHANGED <<phase, work, rec, overtaken>> /\ doomed' = {}
    BY DEF Crash, Over, server
  <2> QED BY <2>1 DEF RunInv, Undelivered, EndedIsOver, DispatchAnswer, TerminalEarly, RightTerminal, HasStatus, Finished
<1>3. ASSUME NEW t \in Task PROVE TaskInv(t)' BY DEF Crash, NoTask, TaskInv
<1> QED BY <1>1, <1>2, <1>3 DEF IInv

LEMMA ScanPreserves == ASSUME IInv, Scan PROVE IInv'
<1>1. TypeOK' BY DEF IInv, TypeOK, Scan, server, requests
<1>2. ASSUME NEW q \in Run PROVE RunInv(q)'
  <2> RunInv(q) BY DEF IInv
  <2> QED BY DEF Scan, server, requests, RunInv, Undelivered, EndedIsOver, DispatchAnswer, TerminalEarly, RightTerminal, HasStatus, Finished
<1>3. ASSUME NEW t \in Task PROVE TaskInv(t)' BY DEF IInv, Scan, server, requests, TaskInv
<1> QED BY <1>1, <1>2, <1>3 DEF IInv

LEMMA BlockPreserves == ASSUME IInv, NEW r \in Run, Block(r) PROVE IInv'
<1> RunInv(r) BY DEF IInv
<1>1. rec[r] # None BY DEF Block, RunInv, Undelivered
<1>2. Changes(r, AsBlocked(rec[r]))
  BY <1>1 DEF Block, Changes, IInv, TypeOK, TaskType, DispType, server, requests
<1>3. (phase[r] = "absent" /\ disp'[r].at # "call") \/ r \in overtaken'
  BY <1>1 DEF Block, requests, RunInv, Undelivered
<1> QED BY <1>1, <1>2, <1>3, BlockAdmissible, RecordStep

-----------------------------------------------------------------------------
(* The invariant *)

LEMMA InitInv == ASSUME Init PROVE IInv
<1> USE DEF Init, Server!Init, server, NoTask
<1>1. TypeOK BY DEF TypeOK, Server!Phase, Answer
<1>2. ASSUME NEW q \in Run PROVE RunInv(q)
  BY DEF RunInv, Undelivered, EndedIsOver, DispatchAnswer, TerminalEarly, RightTerminal, HasStatus, Ended
<1>3. ASSUME NEW t \in Task PROVE TaskInv(t) BY DEF TaskInv
<1> QED BY <1>1, <1>2, <1>3 DEF IInv

LEMMA NextPreserves == ASSUME IInv, [Next]_vars PROVE IInv'
<1>1. ASSUME NEW r \in Run, Dispatch(r) \/ CancelDispatch(r) \/ Block(r) PROVE IInv'
  BY <1>1, CreatePreserves, LoadPreserves, PreflightPreserves, ClaimPreserves, CallPreserves, AnsweredPreserves,
     DispatchedPreserves, CancelDispatchPreserves, BlockPreserves DEF Dispatch
<1>2. ASSUME NEW t \in Task, NEW r \in Run, Ask(t, r) \/ Stop(t, r) PROVE IInv'
  BY <1>2, AskPreserves, StopPreserves
<1>3. ASSUME NEW t \in Task, Receive(t) \/ SendStop(t) \/ Reconciled(t) \/ CancelTask(t) PROVE IInv'
  BY <1>3, ReceivePreserves, SendStopPreserves, ReconciledPreserves, CancelTaskPreserves
<1>4. CASE UNCHANGED vars
  <2>1. UNCHANGED <<phase, work, rec, disp, task, recovery, doomed, overtaken>>
    BY <1>4 DEF vars, server, requests, restart
  <2> QED BY <2>1 DEF IInv, TypeOK, RunInv, Undelivered, EndedIsOver, DispatchAnswer, TerminalEarly, RightTerminal,
      HasStatus, Finished, TaskInv
<1> QED BY <1>1, <1>2, <1>3, <1>4, ServerStepsPreserve, CrashPreserves, ScanPreserves DEF Next

\* The inductive invariant: what the record, the requests under way and the server
\* have to do with each other.  TerminalIsOver alone is not inductive, since an
\* answer that is merged was given earlier.
THEOREM RunInvariant == Spec => []IInv
BY InitInv, NextPreserves, PTL DEF Spec

\* Every variable keeps its type.
THEOREM TypeCorrect == Spec => []TypeOK
<1>1. IInv => TypeOK BY DEF IInv
<1> QED BY <1>1, RunInvariant, PTL

\* A record that says a run is over is right, for any number of runs and requests.
THEOREM TerminalIsOverHolds == Spec => []TerminalIsOver
<1>1. IInv => TerminalIsOver BY DEF IInv, RunInv, RightTerminal, TerminalIsOver
<1> QED BY <1>1, RunInvariant, PTL

-----------------------------------------------------------------------------
(* What a step does to a record *)

\* The actions of RecordStays and NeverBack.
Stays(r) ==
  HasStatus(r, TerminalStatus) =>
    \/ rec'[r].status = rec[r].status
    \/ /\ rec[r] = [status |-> "cancelled", dispatch |-> "not_sent"] \/ r \in overtaken'
       /\ rec'[r].status = "blocked"
NotBack(r) ==
  rec[r] # None /\ rec[r].status # "unknown" /\ rec'[r].status # "unknown"
    => Rank(rec'[r].status) >= Rank(rec[r].status)
Keeps(r) == Stays(r) /\ NotBack(r)

LEMMA RankType ==
  ASSUME NEW x \in Record
  PROVE  /\ Rank(x.status) \in Int /\ Rank(x.status) <= 5
         /\ x.status \notin TerminalStatus => Rank(x.status) <= 4
         /\ Rank("blocked") = 5 /\ Rank("stopping") = 4 /\ Rank("dispatching") = 0 /\ Rank("queued") = 0
BY DEF Rank, Record, Status, Active, Ended, TerminalStatus

\* An unchanged record, or one that is not known.
LEMMA KeepsSame ==
  ASSUME IInv, NEW r \in Run, rec'[r] = rec[r] \/ rec[r] = None
  PROVE  Keeps(r)
BY RankType DEF IInv, TypeOK, Keeps, Stays, NotBack, HasStatus

LEMMA KeepsUnknown ==
  ASSUME IInv, NEW r \in Run, rec[r] # None, rec'[r] = AsUnknown(rec[r])
  PROVE  Keeps(r)
<1> rec[r] \in Record BY DEF IInv, TypeOK
<1>1. CASE rec'[r] = rec[r] BY <1>1, KeepsSame
<1>2. CASE rec'[r] # rec[r] BY <1>2 DEF AsUnknown, Keeps, Stays, NotBack, HasStatus
<1> QED BY <1>1, <1>2

LEMMA KeepsBlocked ==
  ASSUME IInv, NEW r \in Run, rec[r] # None, rec'[r] = AsBlocked(rec[r]),
         phase[r] \in {"absent", "refused"} \/ r \in overtaken'
  PROVE  Keeps(r)
<1> rec[r] \in Record /\ RunInv(r) BY DEF IInv, TypeOK
<1>1. CASE rec'[r] = rec[r] BY <1>1, KeepsSame
<1>2. CASE rec'[r] # rec[r]
  <2>1. rec'[r].status = "blocked" /\ rec[r].dispatch # "accepted" BY <1>2, BlockedRecord DEF AsBlocked
  <2>2. Stays(r) BY <2>1 DEF Stays, RunInv, TerminalEarly, HasStatus
  <2>3. NotBack(r) BY <2>1, RankType DEF NotBack
  <2> QED BY <2>2, <2>3 DEF Keeps
<1> QED BY <1>1, <1>2

LEMMA KeepsMerged ==
  ASSUME IInv, NEW r \in Run, rec[r] # None,
         NEW p \in Heard \ {"error", "refused"}, rec'[r] \in Merged(rec[r], p)
  PROVE  Keeps(r)
<1> rec[r] \in Record BY DEF IInv, TypeOK
<1> QED BY MergedRecord DEF Keeps, Stays, NotBack, HasStatus

LEMMA StepKeeps == ASSUME IInv, [Next]_vars, NEW q \in Run PROVE Keeps(q)
<1> RunInv(q) /\ rec \in [Run -> Record \cup {None}] BY DEF IInv, TypeOK
<1>1. ASSUME NEW r \in Run, Dispatch(r) PROVE Keeps(q)
  <2> RunInv(r) BY DEF IInv
  <2>1. CASE q # r /\ \E x : rec' = [rec EXCEPT ![r] = x] BY <2>1, KeepsSame
  <2>2. CASE UNCHANGED rec BY <2>2, KeepsSame
  <2>3. CASE Create(r) BY <2>1, <2>3, KeepsSame DEF Create, SetRec
  <2>4. CASE Preflight(r)
    <3>1. rec[r] # None /\ phase[r] = "absent" BY <2>4 DEF Preflight, DispAt, RunInv, Undelivered
    <3>2. q = r /\ SetRec(r, AsBlocked(rec[r])) => rec'[q] = AsBlocked(rec[q]) BY DEF SetRec
    <3> QED BY <2>1, <2>2, <2>4, <3>1, <3>2, KeepsBlocked DEF Preflight, SetRec
  <2>5. CASE Claim(r)
    <3>1. CASE SetRec(r, [status |-> "dispatching", dispatch |-> "sent"]) /\ Dispatchable(rec[r]) /\ q = r
      <4>1. rec[r] # None BY <2>5 DEF Claim, DispAt, RunInv, Undelivered
      <4>2. rec[r].status = "queued" BY <3>1, <4>1 DEF Dispatchable, RunInv, Undelivered, TerminalStatus, Ended
      <4>3. rec'[r].status = "dispatching" BY <3>1 DEF SetRec
      <4>4. rec[r] \in Record BY <4>1
      <4> QED BY <3>1, <4>2, <4>3, <4>4, RankType DEF Keeps, Stays, NotBack, HasStatus, TerminalStatus, Ended
    <3> QED BY <2>1, <2>2, <2>5, <3>1 DEF Claim, SetRec
  <2>6. CASE Call(r)
    <3>1. rec[r] # None /\ phase[r] = "absent" BY <2>6 DEF Call, DispAt, RunInv, Undelivered
    <3>2. ASSUME NEW x \in {AsBlocked(rec[r]), AsUnknown(rec[r])}, SetRec(r, x), q = r PROVE Keeps(q)
      <4>1. rec'[q] = AsBlocked(rec[q]) \/ rec'[q] = AsUnknown(rec[q]) BY <3>2 DEF SetRec
      <4> QED BY <3>1, <3>2, <4>1, KeepsBlocked, KeepsUnknown
    <3> QED BY <2>1, <2>2, <2>6, <3>2 DEF Call, SetRec
  <2>7. CASE Dispatched(r)
    <3>1. PICK x \in AfterAnswer(rec[r], disp[r].got) : SetRec(r, x) BY <2>7 DEF Dispatched
    <3>2. disp[r].at = "answered" /\ rec[r] # None BY <2>7 DEF Dispatched, RunInv, Undelivered
    <3>3. CASE q = r
      <4>0. rec'[r] = x BY <3>1 DEF SetRec
      <4>1. CASE disp[r].got = "refused"
        BY <3>1, <3>2, <3>3, <4>0, <4>1, KeepsBlocked DEF AfterAnswer, RunInv, DispatchAnswer
      <4>2. CASE disp[r].got = "error" BY <3>1, <3>2, <3>3, <4>0, <4>2, KeepsUnknown DEF AfterAnswer
      <4>3. CASE disp[r].got \notin {"refused", "error"}
        <5>1. disp[r].got \in Heard \ {"error", "refused"} BY <3>2, <4>3 DEF RunInv, DispatchAnswer
        <5> QED BY <3>1, <3>2, <3>3, <4>0, <4>3, <5>1, KeepsMerged DEF AfterAnswer
      <4> QED BY <4>1, <4>2, <4>3
    <3> QED BY <2>1, <3>1, <3>3 DEF SetRec
  <2>8. CASE Load(r) \/ Answered(r) BY <2>2, <2>8 DEF Load, Answered
  <2> QED BY <1>1, <2>3, <2>4, <2>5, <2>6, <2>7, <2>8 DEF Dispatch
<1>2. ASSUME NEW t \in Task, NEW r \in Run, Stop(t, r) PROVE Keeps(q)
  <2>1. rec[r] \in Record /\ rec[r].status \notin TerminalStatus BY <1>2 DEF Stop
  <2>2. CASE q = r
    <3>1. rec'[r].status \in {"cancelled", "stopping"} BY <1>2, <2>1 DEF Stop, SetRec, Record
    <3>2. Rank("cancelled") = 5 /\ Rank("stopping") = 4 BY DEF Rank, TerminalStatus, Ended
    <3> QED BY <2>1, <2>2, <3>1, <3>2, RankType DEF Keeps, Stays, NotBack, HasStatus
  <2>3. CASE q # r BY <1>2, <2>3, KeepsSame DEF Stop, SetRec
  <2> QED BY <2>2, <2>3
<1>3. ASSUME NEW t \in Task, Reconciled(t) PROVE Keeps(q)
  <2> DEFINE r == task[t].run
  <2>1. PICK x \in AfterAnswer(rec[r], task[t].got) : SetRec(r, x) BY <1>3 DEF Reconciled
  <2>2. task[t].at = "answered" /\ TaskInv(t) BY <1>3 DEF Reconciled, IInv
  <2>3. r \in Run /\ rec[r] # None BY <2>2 DEF TaskInv
  <2>4. CASE q = r
    <3>0. rec'[r] = x BY <2>1, <2>3 DEF SetRec
    <3>1. CASE task[t].got = "error" BY <2>1, <2>3, <2>4, <3>0, <3>1, KeepsUnknown DEF AfterAnswer
    <3>2. CASE task[t].got # "error"
      <4>1. task[t].got \in Heard \ {"error", "refused"} BY <2>2, <3>2 DEF TaskInv
      <4> QED BY <2>1, <2>3, <2>4, <3>0, <3>2, <4>1, KeepsMerged DEF AfterAnswer
    <3> QED BY <3>1, <3>2
  <2>5. CASE q # r BY <2>1, <2>5, KeepsSame DEF SetRec
  <2> QED BY <2>4, <2>5
<1>4. ASSUME NEW r \in Run, Block(r) PROVE Keeps(q)
  <2> RunInv(r) BY DEF IInv
  <2>1. rec[r] # None BY <1>4 DEF Block, RunInv, Undelivered
  <2>2. phase[r] = "absent" \/ r \in overtaken' BY <1>4, <2>1 DEF Block, RunInv, Undelivered
  <2>3. CASE q = r
    <3>1. rec'[r] = AsBlocked(rec[r]) BY <1>4 DEF Block, SetRec
    <3> QED BY <2>1, <2>2, <2>3, <3>1, KeepsBlocked
  <2>4. CASE q # r BY <1>4, <2>4, KeepsSame DEF Block, SetRec
  <2> QED BY <2>3, <2>4
<1>5. CASE UNCHANGED rec BY <1>5, KeepsSame
<1>6. ServerSteps \/ Crash \/ Scan \/ UNCHANGED vars => UNCHANGED rec
  BY DEF ServerSteps, Crash, Scan, vars
<1>7. ASSUME NEW t \in Task, Receive(t) \/ SendStop(t) \/ CancelTask(t) PROVE UNCHANGED rec
  BY <1>7 DEF Receive, SendStop, CancelTask
<1>8. ASSUME NEW r \in Run, CancelDispatch(r) PROVE UNCHANGED rec BY <1>8 DEF CancelDispatch
<1>9. ASSUME NEW t \in Task, NEW r \in Run, Ask(t, r) PROVE UNCHANGED rec BY <1>9 DEF Ask
<1> QED BY <1>1, <1>2, <1>3, <1>4, <1>5, <1>6, <1>7, <1>8, <1>9 DEF Next

\* What a record ended with stays, whatever answer is late.
THEOREM RecordStaysHolds == Spec => RecordStays
<1>1. IInv /\ [Next]_vars =>
        [\A r \in Run : HasStatus(r, TerminalStatus) =>
           \/ rec'[r].status = rec[r].status
           \/ /\ rec[r] = [status |-> "cancelled", dispatch |-> "not_sent"] \/ r \in overtaken'
              /\ rec'[r].status = "blocked"]_vars
  BY StepKeeps DEF Keeps, Stays
<1> QED BY <1>1, RunInvariant, PTL DEF Spec, RecordStays

\* A record never goes back, except through unknown.
THEOREM NeverBackHolds == Spec => NeverBack
<1>1. IInv /\ [Next]_vars =>
        [\A r \in Run : rec[r] # None /\ rec[r].status # "unknown" /\ rec'[r].status # "unknown"
           => Rank(rec'[r].status) >= Rank(rec[r].status)]_vars
  BY StepKeeps DEF Keeps, NotBack
<1> QED BY <1>1, RunInvariant, PTL DEF Spec, NeverBack

-----------------------------------------------------------------------------
(* Outcomes are not lost *)

Ends(r) == rec'[r] # None /\ rec'[r].status \in TerminalStatus

LEMMA OutcomeMerged ==
  ASSUME IInv, NEW r \in Run, rec[r] # None, NEW p \in Ended, NEW x \in AfterAnswer(rec[r], p), SetRec(r, x)
  PROVE  Ends(r)
<1> rec[r] \in Record BY DEF IInv, TypeOK
<1>1. x \in Merged(rec[r], p) BY DEF AfterAnswer, Ended
<1>2. x \in Record /\ x.status \in TerminalStatus
  <2>1. CASE rec[r].status \in TerminalStatus BY <1>1, <2>1 DEF Merged
  <2>2. CASE rec[r].status \notin TerminalStatus
    <3>1. ~Stale(rec[r], p) BY DEF Stale, Rank, TerminalStatus, Ended, Record, Status, Active
    <3>2. x = [status |-> p, dispatch |-> "accepted"] \/ x = [rec[r] EXCEPT !.status = "failed"]
      BY <1>1, <2>2, <3>1 DEF Merged, Ended
    <3> QED BY <3>2 DEF Record, Status, TerminalStatus, Ended
  <2> QED BY <2>1, <2>2
<1>3. rec'[r] = x BY DEF IInv, TypeOK, SetRec
<1> QED BY <1>2, <1>3, RunsConstants DEF Ends

\* The core of Learns, without fairness: an answer that says how a run ended is
\* never taken for a late one, whichever request got it and whatever others did
\* to the record meanwhile; it leaves the record with an outcome.  What an answer
\* says of a run that was lost has no such rule: see LossShown.
THEOREM OutcomesCount ==
  Spec => [][/\ \A t \in Task : Reconciled(t) /\ task[t].got \in Ended => Ends(task[t].run)
             /\ \A r \in Run : Dispatched(r) /\ disp[r].got \in Ended => Ends(r)]_vars
<1>1. IInv /\ [Next]_vars =>
        [/\ \A t \in Task : Reconciled(t) /\ task[t].got \in Ended => Ends(task[t].run)
         /\ \A r \in Run : Dispatched(r) /\ disp[r].got \in Ended => Ends(r)]_vars
  <2> SUFFICES ASSUME IInv
               PROVE  /\ \A t \in Task : Reconciled(t) /\ task[t].got \in Ended => Ends(task[t].run)
                      /\ \A r \in Run : Dispatched(r) /\ disp[r].got \in Ended => Ends(r)
    OBVIOUS
  <2>1. ASSUME NEW t \in Task, Reconciled(t), task[t].got \in Ended PROVE Ends(task[t].run)
    <3>1. task[t].run \in Run /\ rec[task[t].run] # None BY <2>1 DEF IInv, TaskInv, Reconciled
    <3>2. PICK x \in AfterAnswer(rec[task[t].run], task[t].got) : SetRec(task[t].run, x) BY <2>1 DEF Reconciled
    <3> QED BY <2>1, <3>1, <3>2, OutcomeMerged
  <2>2. ASSUME NEW r \in Run, Dispatched(r), disp[r].got \in Ended PROVE Ends(r)
    <3>1. rec[r] # None BY <2>2 DEF IInv, RunInv, Undelivered, Dispatched
    <3>2. PICK x \in AfterAnswer(rec[r], disp[r].got) : SetRec(r, x) BY <2>2 DEF Dispatched
    <3> QED BY <2>2, <3>1, <3>2, OutcomeMerged
  <2> QED BY <2>1, <2>2
<1> QED BY <1>1, RunInvariant, PTL DEF Spec
=============================================================================
