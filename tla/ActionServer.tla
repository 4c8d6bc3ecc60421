---------------------------- MODULE ActionServer ----------------------------
(***************************************************************************)
(* How the server runs an App Action: the journal, the requests of the     *)
(* API process that read and write it, one supervisor process per run that *)
(* was launched, and the command it supervises.                            *)
(*                                                                         *)
(* A request of the API process is not interrupted by another one except   *)
(* while it puts the runtime together, the only place where it awaits.     *)
(* Supervisors are other processes: they come between any two statements   *)
(* of a request.  Either kind of process may be killed at any point, and   *)
(* the command outlives its supervisor.  Any caller may send any request   *)
(* any number of times.                                                    *)
(***************************************************************************)
EXTENDS Integers

CONSTANTS Run, None

VARIABLES
  reserved,   \* per run, its row of server_action_reservations
  row,        \* per run, its row of server_action_runs, or None
  files,      \* the runs whose runtime directory is in place
  preparing,  \* per run, the requests that put its runtime together
  api,        \* the request that has the API process, between two statements
  sup,        \* per run, its supervisor process
  child       \* per run, its command

vars == <<reserved, row, files, preparing, api, sup, child>>

Active == {"accepted", "starting", "running", "stopping"}
Ended == {"succeeded", "failed", "cancelled"}
Terminal == Ended \cup {"unknown"}
Pid == {"nobody", "launched", "registered"}
Row == [status : Active \cup Terminal, stop : BOOLEAN, claimed : BOOLEAN, pid : Pid]

ASSUME ServerConstants == None \notin Row

Idle == [at |-> "idle", run |-> None, pid |-> "nobody"]
At(place, r) == api' = [at |-> place, run |-> r, pid |-> "nobody"]
Reading(place, r) == api' = [at |-> place, run |-> r, pid |-> row[r].pid]

SetStatus(r, status) == row' = [row EXCEPT ![r].status = status]
MarkUnknownIfActive(r) == row' = IF row[r].status \in Active THEN [row EXCEPT ![r].status = "unknown"] ELSE row

HasStatus(r, some) == row[r] # None /\ row[r].status \in some

\* Mutant: a run that was lost is cleaned as well.
CleanTerminal(r) == files' \in {files, IF HasStatus(r, Terminal) THEN files \ {r} ELSE files}

\* cleanup_run_artifacts: what the command changed is kept.
Clean(r) == files' \in {files, IF HasStatus(r, Ended) THEN files \ {r} ELSE files}

-----------------------------------------------------------------------------
(* Requests *)

\* Mutant: a reservation that has not become a row is taken over.
TakeOver(r) ==
  /\ api = Idle
  /\ \/ /\ row[r] = None /\ preparing[r] < 2
        /\ reserved' = [reserved EXCEPT ![r] = "preparing"]
        /\ preparing' = [preparing EXCEPT ![r] = @ + 1]
        /\ UNCHANGED api
     \/ /\ row[r] # None
        /\ At("reply", r)
        /\ UNCHANGED <<reserved, preparing>>
  /\ UNCHANGED <<row, files, sup, child>>

\* start, up to the runtime: the first request reserves the run, any other one
\* is answered with the row, or with the reservation when there is no row.
Start(r) ==
  /\ api = Idle
  /\ \/ /\ reserved[r] = "none"
        /\ reserved' = [reserved EXCEPT ![r] = "preparing"]
        /\ preparing' = [preparing EXCEPT ![r] = @ + 1]
        /\ UNCHANGED api
     \/ /\ reserved[r] # "none"
        /\ At("reply", r)
        /\ UNCHANGED <<reserved, preparing>>
  /\ UNCHANGED <<row, files, sup, child>>

\* The runtime cannot be put together.  Exceptions start does not name leave
\* the reservation as it is.
PrepareFails(r) ==
  /\ api = Idle
  /\ preparing[r] > 0
  /\ preparing' = [preparing EXCEPT ![r] = @ - 1]
  /\ reserved' \in {reserved, [reserved EXCEPT ![r] = "failed"]}
  /\ UNCHANGED <<row, files, api, sup, child>>

\* journal.prepare
Prepare(r) ==
  /\ api = Idle
  /\ preparing[r] > 0
  /\ preparing' = [preparing EXCEPT ![r] = @ - 1]
  /\ files' = files \cup {r}
  /\ IF row[r] = None
     THEN /\ row' = [row EXCEPT ![r] = [status |-> "accepted", stop |-> FALSE, claimed |-> FALSE, pid |-> "nobody"]]
          /\ At("claim", r)
     ELSE UNCHANGED row /\ At("reply", r)
  /\ UNCHANGED <<reserved, sup, child>>

\* finish_reservation and claim_spawn
ClaimSpawn(r) ==
  /\ api.at = "claim" /\ api.run = r
  /\ reserved' = [reserved EXCEPT ![r] = "ready"]
  /\ IF ~row[r].claimed /\ row[r].status = "accepted"
     THEN row' = [row EXCEPT ![r].claimed = TRUE] /\ At("spawn", r)
     ELSE UNCHANGED row /\ At("reply", r)
  /\ UNCHANGED <<files, preparing, sup, child>>

\* spawn_supervisor_process
SpawnSupervisor(r) ==
  /\ api.at = "spawn" /\ api.run = r
  /\ \/ sup' = [sup EXCEPT ![r].at = "open"] /\ At("record", r) /\ UNCHANGED row
     \/ SetStatus(r, "failed") /\ At("reply", r) /\ UNCHANGED sup
  /\ UNCHANGED <<reserved, files, preparing, child>>

\* The pid is the one the supervisor registers, which may have done so already.
RecordPid(r) ==
  /\ api.at = "record" /\ api.run = r
  /\ row' = [row EXCEPT ![r].pid = IF @ = "nobody" THEN "launched" ELSE @]
  /\ At("reply", r)
  /\ UNCHANGED <<reserved, files, preparing, sup, child>>

\* status: the row of a run that is active is read, with the identity of its supervisor.
Status(r) ==
  /\ api = Idle
  /\ reserved[r] # "none"
  /\ IF HasStatus(r, Active) THEN Reading("judge", r) ELSE At("reply", r)
  /\ UNCHANGED <<reserved, row, files, preparing, sup, child>>

\* Mutant: a process that was once registered is taken to be alive.
AliveOnceRegistered(r) == {api.pid = "registered"}

\* What process_identity_matches may say of the identity that was read.  That of a
\* living process does not match either when it cannot be read.
Alive(r) == IF api.pid = "registered" /\ sup[r].at # "gone" THEN BOOLEAN ELSE {FALSE}

\* Mutant: the run is marked although it ended meanwhile.
JudgeUnguarded(r) ==
  /\ api.at = "judge" /\ api.run = r
  /\ FALSE \in Alive(r)
  /\ SetStatus(r, "unknown")
  /\ At("reply", r)
  /\ UNCHANGED <<reserved, files, preparing, sup, child>>

\* Nobody was seen to supervise the run, and its row is more than five seconds old.
Judge(r) ==
  /\ api.at = "judge" /\ api.run = r
  /\ FALSE \in Alive(r)
  /\ MarkUnknownIfActive(r)
  /\ At("reply", r)
  /\ UNCHANGED <<reserved, files, preparing, sup, child>>

\* The supervisor is alive, or the row is not five seconds old.
Spare(r) ==
  /\ api.at = "judge" /\ api.run = r
  /\ At("reply", r)
  /\ UNCHANGED <<reserved, row, files, preparing, sup, child>>

\* The answer of start and status is a snapshot of the row; a run that ended is cleaned.
Reply(r) ==
  /\ api.at = "reply" /\ api.run = r
  /\ Clean(r)
  /\ api' = Idle
  /\ UNCHANGED <<reserved, row, preparing, sup, child>>

\* request_stop reads the status ...
Stop(r) ==
  /\ api = Idle
  /\ HasStatus(r, Active)
  /\ At("stop", r)
  /\ UNCHANGED <<reserved, row, files, preparing, sup, child>>

\* ... and writes whatever has become of it.
WriteStop(r) ==
  /\ api.at = "stop" /\ api.run = r
  /\ row' = [row EXCEPT ![r].stop = TRUE, ![r].status = "stopping"]
  /\ api' = Idle
  /\ UNCHANGED <<reserved, files, preparing, sup, child>>

ApiCrash ==
  /\ api # Idle \/ \E r \in Run : preparing[r] > 0
  /\ api' = Idle
  /\ preparing' = [r \in Run |-> 0]
  /\ UNCHANGED <<reserved, row, files, sup, child>>

-----------------------------------------------------------------------------
(* run_server_action_supervisor *)

Step(r, from, to) == sup[r].at = from /\ sup' = [sup EXCEPT ![r].at = to]
Conclude(r, from, verdict) == sup[r].at = from /\ sup' = [sup EXCEPT ![r] = [at |-> "write", verdict |-> verdict]]

\* The supervisor leaves a run that was decided without it.
Open(r) ==
  /\ Step(r, "open", IF HasStatus(r, Terminal) THEN "close" ELSE "register")
  /\ UNCHANGED <<reserved, row, files, preparing, api, child>>

Register(r) ==
  /\ Step(r, "register", "check")
  /\ row' = [row EXCEPT ![r].status = "starting", ![r].pid = "registered"]
  /\ UNCHANGED <<reserved, files, preparing, api, child>>

Check(r) ==
  /\ \/ Conclude(r, "check", "cancelled") /\ row[r].stop
     \/ Step(r, "check", "launch") /\ ~row[r].stop
  /\ UNCHANGED <<reserved, row, files, preparing, api, child>>

\* The runtime must be there as it was published.
Launch(r) ==
  /\ \/ r \in files /\ Step(r, "launch", "report") /\ child' = [child EXCEPT ![r] = "running"]
     \/ \E verdict \in {"unknown", "failed"} : Conclude(r, "launch", verdict) /\ UNCHANGED child
  /\ UNCHANGED <<reserved, row, files, preparing, api>>

Report(r) ==
  /\ Step(r, "report", "watch")
  /\ SetStatus(r, "running")
  /\ UNCHANGED <<reserved, files, preparing, api, child>>

Watch(r) ==
  /\ Step(r, "watch", IF row[r].stop THEN "kill" ELSE "poll")
  /\ UNCHANGED <<reserved, row, files, preparing, api, child>>

\* stop_owned_job: a command may ignore the signal of the POSIX backend.
Kill(r) ==
  /\ Conclude(r, "kill", "cancelled")
  /\ child' \in {[child EXCEPT ![r] = "exited"],
                 IF child[r] = "running" THEN [child EXCEPT ![r] = "ignoring"] ELSE child}
  /\ UNCHANGED <<reserved, row, files, preparing, api>>

\* Mutant: the verdict is missing when the runtime cannot be hashed.
PollForgets(r) ==
  /\ \/ child[r] = "running" /\ Step(r, "poll", "watch")
     \/ /\ child[r] = "exited"
        /\ \E verdict \in {"succeeded", "failed", "none"} : Conclude(r, "poll", verdict)
  /\ UNCHANGED <<reserved, row, files, preparing, api, child>>

Poll(r) ==
  /\ \/ child[r] = "running" /\ Step(r, "poll", "watch")
     \/ /\ child[r] = "exited"
        /\ \E verdict \in {"succeeded", "failed", "unknown"} : Conclude(r, "poll", verdict)
  /\ UNCHANGED <<reserved, row, files, preparing, api, child>>

Write(r) ==
  /\ Step(r, "write", "close")
  /\ SetStatus(r, sup[r].verdict)
  /\ UNCHANGED <<reserved, files, preparing, api, child>>

\* Mutant: an exception fails the run, whatever its command does.
ErrorFails(r) ==
  /\ sup[r].at \notin {"none", "open", "close", "gone"}
  /\ sup' = [sup EXCEPT ![r].at = "close"]
  /\ row' = IF row[r].status \in Active THEN [row EXCEPT ![r].status = "failed"] ELSE row
  /\ UNCHANGED <<reserved, files, preparing, api, child>>

\* An exception anywhere.
Error(r) ==
  /\ sup[r].at \notin {"none", "open", "close", "gone"}
  /\ sup' = [sup EXCEPT ![r].at = "close"]
  /\ MarkUnknownIfActive(r)
  /\ UNCHANGED <<reserved, files, preparing, api, child>>

Close(r) ==
  /\ Step(r, "close", "gone")
  /\ Clean(r)
  /\ UNCHANGED <<reserved, row, preparing, api, child>>

SupervisorCrash(r) ==
  /\ sup[r].at \notin {"none", "gone"}
  /\ sup' = [sup EXCEPT ![r].at = "gone"]
  /\ UNCHANGED <<reserved, row, files, preparing, api, child>>

\* The command ends by itself, or with its supervisor.
ChildExit(r) ==
  /\ child[r] \in {"running", "ignoring"}
  /\ child' = [child EXCEPT ![r] = "exited"]
  /\ UNCHANGED <<reserved, row, files, preparing, api, sup>>

-----------------------------------------------------------------------------
Init ==
  /\ reserved = [r \in Run |-> "none"]
  /\ row = [r \in Run |-> None]
  /\ files = {}
  /\ preparing = [r \in Run |-> 0]
  /\ api = Idle
  /\ sup = [r \in Run |-> [at |-> "none", verdict |-> "unknown"]]
  /\ child = [r \in Run |-> "none"]

Request(r) == Start(r) \/ PrepareFails(r) \/ Prepare(r) \/ Status(r) \/ Stop(r)
Continue(r) == ClaimSpawn(r) \/ SpawnSupervisor(r) \/ RecordPid(r) \/ Reply(r) \/ WriteStop(r)
Supervise(r) ==
  \/ Open(r) \/ Register(r) \/ Check(r) \/ Launch(r) \/ Report(r) \/ Watch(r)
  \/ Kill(r) \/ Poll(r) \/ Write(r) \/ Close(r)
Fault(r) == Error(r) \/ SupervisorCrash(r) \/ ChildExit(r)

Next ==
  \/ ApiCrash
  \/ \E r \in Run : Request(r) \/ Continue(r) \/ Judge(r) \/ Spare(r) \/ Supervise(r) \/ Fault(r)
Spec == Init /\ [][Next]_vars

\* Processes that are not killed go on; the user interface keeps asking for the
\* status, and sooner or later the row is more than five seconds old.  That the
\* identity of a living supervisor cannot be read is not counted on.
FairSpec ==
  /\ Spec
  /\ \A r \in Run :
       /\ WF_vars(Supervise(r)) /\ WF_vars(Continue(r)) /\ WF_vars(Judge(r) \/ Spare(r))
       /\ SF_vars(Status(r)) /\ SF_vars(TRUE \notin Alive(r) /\ Judge(r))

-----------------------------------------------------------------------------
Supervisor == [at : {"none", "open", "register", "check", "launch", "report", "watch", "kill", "poll",
                     "write", "close", "gone"},
               verdict : Terminal]

TypeOK ==
  /\ reserved \in [Run -> {"none", "preparing", "ready", "failed"}]
  /\ row \in [Run -> Row \cup {None}]
  /\ files \subseteq Run
  /\ preparing \in [Run -> Nat]
  /\ api \in [at : {"idle", "claim", "spawn", "record", "judge", "reply", "stop"},
              run : Run \cup {None}, pid : Pid]
  /\ sup \in [Run -> Supervisor]
  /\ child \in [Run -> {"none", "running", "ignoring", "exited"}]

\* reserve_start: "a later duplicate cannot replace a runtime directory while an
\* earlier supervisor may still be using it".
OneRuntime ==
  \A r \in Run : preparing[r] > 0 => preparing[r] = 1 /\ row[r] = None /\ sup[r].at = "none"

\* The directory of a run is not removed under its command, whatever crashed:
\* runs that were lost are not cleaned.  A command that ignores the SIGTERM of
\* stop_owned_job is excluded: the supervisor takes it for stopped, writes
\* "cancelled" and cleans the run while it still works.
FilesKept == \A r \in Run : child[r] = "running" => r \in files

\* What a run ended with is never overwritten, by a supervisor that lags behind,
\* by one that fails, or by a status request, except by a stop that was under way.
OutcomeStays ==
  [][\A r \in Run :
       HasStatus(r, Ended) => row'[r] = row[r] \/ (api.at = "stop" /\ api.run = r)]_vars

\* A run that nobody supervises, or that is to stop, is decided: its row does not
\* stay active, whatever crashed and whichever of the two came first.
Supervised(r) == sup[r].at \notin {"none", "gone"}
Stopping(r) == row[r] # None /\ row[r].stop
Settles ==
  \A r \in Run :
    (row[r] # None /\ ~Supervised(r)) \/ Stopping(r)
      ~> HasStatus(r, Terminal) \/ (Supervised(r) /\ ~Stopping(r))

\* At most one execution, and an outcome only when it is over.  A command that
\* ignores the SIGTERM of stop_owned_job counts as over, although it still runs.
MayLaunch(r) ==
  \/ reserved[r] = "none"
  \/ preparing[r] > 0
  \/ api.at \in {"claim", "spawn"} /\ api.run = r
  \/ sup[r].at \in {"open", "register", "check", "launch"}
WorkOf(r) ==
  CASE child[r] = "running" -> "running"
    [] child[r] = "none" /\ MayLaunch(r) -> "none"
    [] OTHER -> "over"
PhaseOf(r) ==
  CASE row[r] # None -> row[r].status
    [] row[r] = None /\ reserved[r] = "none" -> "absent"
    [] row[r] = None /\ reserved[r] = "failed" -> "refused"
    [] OTHER -> "pending"
Remote == INSTANCE RemoteRun WITH phase <- [r \in Run |-> PhaseOf(r)], work <- [r \in Run |-> WorkOf(r)]
ImplementsRemoteRun == Remote!Spec
=============================================================================
