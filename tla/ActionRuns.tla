----------------------------- MODULE ActionRuns -----------------------------
(***************************************************************************)
(* The record of App Action runs in the database: how a run is dispatched  *)
(* once, and how the answers of the server, which come late, out of order  *)
(* or not at all, are merged into it.                                      *)
(*                                                                         *)
(* The server does what RemoteRun says.  Every request of the API process  *)
(* is a coroutine that may be cancelled between two transactions; a crash  *)
(* takes all of them, and the recovery that follows runs beside the first  *)
(* new requests.                                                           *)
(***************************************************************************)
EXTENDS Integers

CONSTANTS
  Run,
  Task,  \* the reconcile and stop requests that may be under way at once
  None

VARIABLES
  phase, work,  \* RemoteRun
  rec,          \* per run, its row of app_action_runs, or None
  disp,         \* per run, the request that dispatches it
  task,         \* per task, the request that reconciles or stops a run
  recovery,     \* TRUE while the recovery has not read the table
  doomed,       \* the runs the recovery found without a dispatch, and will block
  overtaken     \* history: of those, the ones that had been dispatched by then

server == <<phase, work>>
requests == <<disp, task>>
restart == <<recovery, doomed, overtaken>>
vars == <<server, rec, requests, restart>>

Server == INSTANCE RemoteRun

Active == {"accepted", "starting", "running", "stopping"}
Ended == {"succeeded", "failed", "cancelled"}
TerminalStatus == Ended \cup {"blocked"}
Status == {"queued", "dispatching", "unknown"} \cup Active \cup TerminalStatus
Record == [status : Status, dispatch : {"not_sent", "sent", "accepted", "unknown"}]
Answer == Active \cup Ended \cup {"unknown", "error", "refused", None}

ASSUME RunsConstants == None \notin Record

HasStatus(r, some) == rec[r] # None /\ rec[r].status \in some
SetRec(r, x) == rec' = [rec EXCEPT ![r] = x]

-----------------------------------------------------------------------------
(* What an answer does to a record *)

\* _mark_unknown
AsUnknown(x) == IF x.status \in TerminalStatus THEN x ELSE [status |-> "unknown", dispatch |-> "unknown"]

\* _mark_blocked
AsBlocked(x) ==
  IF x.dispatch = "accepted" \/ x.status \in {"accepted", "starting", "running"}
  THEN x ELSE [x EXCEPT !.status = "blocked"]

\* _STATE_RANK
Rank(status) ==
  CASE status \in {"queued", "dispatching"} -> 0
    [] status = "accepted" -> 1
    [] status = "starting" -> 2
    [] status = "running" -> 3
    [] status = "stopping" -> 4
    [] status \in TerminalStatus -> 5
    [] OTHER -> -1

\* Mutant: an answer is late only if the run is stopping.
StaleWhenStopping(x, p) == x.status = "stopping" /\ p \in {"accepted", "starting", "running"}

\* _snapshot_is_stale; the rank makes a case of its own for stopping superfluous.
Stale(x, p) == x.status # "unknown" /\ Rank(p) < Rank(x.status)

\* _apply_response and apply_remote_snapshot: a result that does not have the
\* form the action declares turns success into failure.
Merged(x, p) ==
  IF x.status \in TerminalStatus \/ Stale(x, p) THEN {x}
  ELSE IF p = "unknown" THEN {[status |-> "unknown", dispatch |-> "unknown"]}
  ELSE {[status |-> p, dispatch |-> "accepted"]}
       \cup IF p = "succeeded" THEN {[x EXCEPT !.status = "failed"]} ELSE {}

\* Mutant: a start whose delivery is not known is taken for one that was refused.
AfterAnswerBlocks(x, got) ==
  CASE got \in {"refused", "error"} -> {AsBlocked(x)}
    [] OTHER -> Merged(x, got)

AfterAnswer(x, got) ==
  CASE got = "refused" -> {AsBlocked(x)}
    [] got = "error" -> {AsUnknown(x)}
    [] OTHER -> Merged(x, got)

-----------------------------------------------------------------------------
(* Dispatch *)

DispAt(r, from, to) == disp[r].at = from /\ disp' = [disp EXCEPT ![r].at = to]

\* create_run, for an action that may be run or one that is blocked from the start.
\* Its caller dispatches a run that it created, and returns one that was there
\* already as it is: there is one dispatch_run per run.
Create(r) ==
  /\ rec[r] = None
  /\ \E status \in {"queued", "blocked"} : SetRec(r, [status |-> status, dispatch |-> "not_sent"])
  /\ DispAt(r, "none", "load")
  /\ UNCHANGED <<server, task, restart>>

Dispatchable(x) == x.status \notin TerminalStatus \cup {"unknown"} /\ x.dispatch = "not_sent"

\* dispatch_run reads the record ...
Load(r) ==
  /\ DispAt(r, "load", IF Dispatchable(rec[r]) THEN "preflight" ELSE "done")
  /\ UNCHANGED <<server, rec, task, restart>>

\* ... asks whether it may run ...
Preflight(r) ==
  /\ \/ DispAt(r, "preflight", "claim") /\ UNCHANGED rec
     \/ DispAt(r, "preflight", "done") /\ SetRec(r, AsBlocked(rec[r]))
  /\ UNCHANGED <<server, task, restart>>

\* Mutant: the record is not read again after the preflight.
ClaimUnchecked(r) ==
  /\ DispAt(r, "claim", "call")
  /\ SetRec(r, [status |-> "dispatching", dispatch |-> "sent"])
  /\ UNCHANGED <<server, task, restart>>

\* ... and commits the fence before anything is sent.
Claim(r) ==
  /\ \/ /\ DispAt(r, "claim", "call")
        /\ Dispatchable(rec[r])
        /\ SetRec(r, [status |-> "dispatching", dispatch |-> "sent"])
     \/ /\ DispAt(r, "claim", "done")
        /\ ~Dispatchable(rec[r])
        /\ UNCHANGED rec
  /\ UNCHANGED <<server, task, restart>>

\* The target is offline or its inputs cannot be staged, or the request is sent.
Call(r) ==
  /\ \/ /\ DispAt(r, "call", "done")
        /\ \E x \in {AsBlocked(rec[r]), AsUnknown(rec[r])} : SetRec(r, x)
        /\ UNCHANGED server
     \/ /\ DispAt(r, "call", "wait")
        /\ Server!Start(r)
        /\ UNCHANGED rec
  /\ UNCHANGED <<task, restart>>

\* Mutant: a run without a row is reported with the state of its reservation.
SnapshotOfReservation(r) == phase[r]

\* What status and start say of a run.
Snapshot(r) ==
  CASE phase[r] = "pending" -> "accepted"
    [] phase[r] = "refused" -> "failed"
    [] OTHER -> phase[r]

\* The answer of start, an exception that says nothing was started, or another one.
Answered(r) ==
  /\ disp[r].at = "wait"
  /\ \E got \in {"error"} \cup IF phase[r] = "refused" THEN {"refused"}
                               ELSE IF phase[r] = "pending" THEN {} ELSE {Snapshot(r)} :
       disp' = [disp EXCEPT ![r] = [at |-> "answered", got |-> got]]
  /\ UNCHANGED <<server, rec, task, restart>>

Dispatched(r) ==
  /\ disp[r].at = "answered"
  /\ \E x \in AfterAnswer(rec[r], disp[r].got) : SetRec(r, x)
  /\ disp' = [disp EXCEPT ![r] = [at |-> "done", got |-> None]]
  /\ UNCHANGED <<server, task, restart>>

-----------------------------------------------------------------------------
(* reconcile_run and stop_run *)

NoTask == [at |-> "idle", run |-> None, got |-> None]

\* Mutant: a record that is unknown is not asked for again.
AskKnown(t, r) ==
  /\ task[t] = NoTask
  /\ rec[r] # None
  /\ rec[r].status \notin TerminalStatus \cup {"unknown"}
  /\ task' = [task EXCEPT ![t] = [at |-> "status", run |-> r, got |-> None]]
  /\ UNCHANGED <<server, rec, disp, restart>>

Ask(t, r) ==
  /\ task[t] = NoTask
  /\ rec[r] # None
  /\ rec[r].status \notin TerminalStatus
  /\ task' = [task EXCEPT ![t] = [at |-> "status", run |-> r, got |-> None]]
  /\ UNCHANGED <<server, rec, disp, restart>>

\* A run the server has not heard of is an error.
Receive(t) ==
  /\ task[t].at = "status"
  /\ LET r == task[t].run IN
     \E got \in {"error"} \cup IF phase[r] = "absent" THEN {} ELSE {Snapshot(r)} :
       task' = [task EXCEPT ![t].at = "answered", ![t].got = got]
  /\ UNCHANGED <<server, rec, disp, restart>>

\* A run that was not sent is cancelled here; otherwise the server is asked to stop it.
Stop(t, r) ==
  /\ task[t] = NoTask
  /\ rec[r] # None
  /\ rec[r].status \notin TerminalStatus
  /\ IF rec[r].dispatch = "not_sent"
     THEN SetRec(r, [rec[r] EXCEPT !.status = "cancelled"]) /\ UNCHANGED task
     ELSE /\ SetRec(r, [rec[r] EXCEPT !.status = "stopping"])
          /\ task' = [task EXCEPT ![t] = [at |-> "stop", run |-> r, got |-> None]]
  /\ UNCHANGED <<server, disp, restart>>

\* The stop reaches the server, which answers with a snapshot; only a run with a
\* row can be stopped.
SendStop(t) ==
  /\ task[t].at = "stop"
  /\ LET r == task[t].run IN
     \/ /\ Server!Stop(r)
        /\ task' = [task EXCEPT ![t].at = "status"]
     \/ /\ phase[r] \in Ended \cup {"unknown"}
        /\ task' = [task EXCEPT ![t].at = "status"]
        /\ UNCHANGED server
     \/ /\ phase[r] \in {"absent", "pending", "refused"}
        /\ task' = [task EXCEPT ![t].at = "answered", ![t].got = "error"]
        /\ UNCHANGED server
  /\ UNCHANGED <<rec, disp, restart>>

Reconciled(t) ==
  /\ task[t].at = "answered"
  /\ LET r == task[t].run IN \E x \in AfterAnswer(rec[r], task[t].got) : SetRec(r, x)
  /\ task' = [task EXCEPT ![t] = NoTask]
  /\ UNCHANGED <<server, disp, restart>>

-----------------------------------------------------------------------------
(* Cancelled requests, crashes, and the recovery *)

CancelTask(t) ==
  /\ task[t] # NoTask
  /\ task' = [task EXCEPT ![t] = NoTask]
  /\ UNCHANGED <<server, rec, disp, restart>>

Over == [at |-> "done", got |-> None]
CancelDispatch(r) ==
  /\ disp[r].at \notin {"none", "done"}
  /\ disp' = [disp EXCEPT ![r] = Over]
  /\ UNCHANGED <<server, rec, task, restart>>

Crash ==
  /\ recovery' = TRUE
  /\ doomed' = {}
  /\ disp' = [r \in Run |-> IF disp[r].at = "none" THEN disp[r] ELSE Over]
  /\ task' = [t \in Task |-> NoTask]
  /\ UNCHANGED <<server, rec, overtaken>>

\* recover_pending_runs: a run without a dispatch will be blocked; the others are
\* reconciled, as by any other task.
Scan ==
  /\ recovery
  /\ recovery' = FALSE
  /\ doomed' = {r \in Run : rec[r] # None /\ rec[r].status \notin TerminalStatus /\ rec[r].dispatch = "not_sent"}
  /\ UNCHANGED <<server, rec, requests, overtaken>>

Block(r) ==
  /\ r \in doomed
  /\ doomed' = doomed \ {r}
  /\ SetRec(r, AsBlocked(rec[r]))
  /\ overtaken' = IF rec[r].dispatch # "not_sent" THEN overtaken \cup {r} ELSE overtaken
  /\ UNCHANGED <<server, requests, recovery>>

ServerSteps ==
  /\ \/ \E r \in Run : Server!Progress(r)
     \/ \E some \in (SUBSET Run) \ {{}} : Server!GiveUp(some)
  /\ UNCHANGED <<rec, requests, restart>>

-----------------------------------------------------------------------------
Init ==
  /\ Server!Init
  /\ rec = [r \in Run |-> None]
  /\ disp = [r \in Run |-> [at |-> "none", got |-> None]]
  /\ task = [t \in Task |-> NoTask]
  /\ recovery = TRUE
  /\ doomed = {} /\ overtaken = {}

Dispatch(r) ==
  Create(r) \/ Load(r) \/ Preflight(r) \/ Claim(r) \/ Call(r) \/ Answered(r) \/ Dispatched(r)
Next ==
  \/ ServerSteps
  \/ \E r \in Run : Dispatch(r) \/ CancelDispatch(r) \/ Block(r)
  \/ \E t \in Task : \/ \E r \in Run : Ask(t, r) \/ Stop(t, r)
                     \/ Receive(t) \/ SendStop(t) \/ Reconciled(t) \/ CancelTask(t)
  \/ Crash \/ Scan
Spec == Init /\ [][Next]_vars

\* Users look at their runs again and again (get_run and list_runs reconcile
\* what they show), and not every answer is lost.
FairSpec ==
  /\ Spec
  /\ \A r \in Run : SF_vars(\E t \in Task : Ask(t, r))
  /\ \A t \in Task :
       /\ WF_vars(Receive(t) \/ SendStop(t) \/ Reconciled(t))
       /\ SF_vars(Receive(t) /\ task'[t].got # "error")
       /\ SF_vars(Reconciled(t) /\ task[t].got # "error")

-----------------------------------------------------------------------------
TypeOK ==
  /\ phase \in [Run -> Server!Phase]
  /\ work \in [Run -> {"none", "running", "over"}]
  /\ rec \in [Run -> Record \cup {None}]
  /\ disp \in [Run -> [at : {"none", "load", "preflight", "claim", "call", "wait", "answered", "done"},
                       got : Answer]]
  /\ task \in [Task -> [at : {"idle", "status", "stop", "answered"}, run : Run \cup {None}, got : Answer]]
  /\ recovery \in BOOLEAN
  /\ doomed \subseteq Run /\ overtaken \subseteq Run

\* A record that says a run is over is right, whatever was late: its command does
\* not work, and will not be launched.  The exception is a run that was created
\* while the recovery looked for runs that were never dispatched.
Finished(r) ==
  \/ work[r] = "over"
  \/ phase[r] = "absent" /\ disp[r].at \notin {"call"}
TerminalIsOver == \A r \in Run : HasStatus(r, TerminalStatus) => Finished(r) \/ r \in overtaken

\* "Terminal outcomes are immutable", except that a run that was cancelled before
\* it was sent may be relabelled blocked, by a denied preflight or the recovery,
\* and so may a failed run that was dispatched while the recovery went on.
RecordStays ==
  [][\A r \in Run : HasStatus(r, TerminalStatus) =>
       \/ rec'[r].status = rec[r].status
       \/ /\ rec[r] = [status |-> "cancelled", dispatch |-> "not_sent"] \/ r \in overtaken'
          /\ rec'[r].status = "blocked"]_vars

\* A record goes back only through unknown.
NeverBack ==
  [][\A r \in Run : rec[r] # None /\ rec[r].status # "unknown" /\ rec'[r].status # "unknown"
       => Rank(rec'[r].status) >= Rank(rec[r].status)]_vars

\* The outcome of a run reaches its record.
Learns == \A r \in Run : HasStatus(r, Status) /\ phase[r] \in Ended
            ~> HasStatus(r, TerminalStatus) \/ phase[r] \notin Ended

\* _snapshot_is_stale says that it rejects "late transport receipts that would
\* revive an older state": that a run was lost is not an older state.
LossShown == \A r \in Run : HasStatus(r, Status) /\ phase[r] = "unknown"
               ~> HasStatus(r, TerminalStatus \cup {"unknown"}) \/ phase[r] # "unknown"
=============================================================================
