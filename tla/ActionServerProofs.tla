------------------------- MODULE ActionServerProofs -------------------------
(***************************************************************************)
(* Theorems about the server of App Actions, for any number of runs.       *)
(***************************************************************************)
EXTENDS ActionServer, TLAPS

Handles(places, r) == api.at \in places /\ api.run = r
BeforeLaunch == {"open", "register", "check", "launch"}
Registered == {"check", "launch", "report", "watch", "kill", "poll", "write"}

\* From the reservation to the row.
ReservedOnce(r) ==
  /\ preparing[r] \in {0, 1}
  /\ reserved[r] = "none" => preparing[r] = 0 /\ row[r] = None
  /\ preparing[r] = 1 => reserved[r] = "preparing" /\ row[r] = None
  /\ row[r] = None => sup[r].at = "none"

\* From the row to the supervisor: it is claimed by the request that wrote the row.
SpawnedOnce(r) ==
  /\ Handles({"claim", "spawn"}, r) => row[r] # None /\ row[r].status = "accepted" /\ sup[r].at = "none"
  /\ Handles({"record", "judge", "stop"}, r) => row[r] # None
  /\ Handles({"record"}, r) => sup[r].at # "none"

\* From the supervisor to the command.
LaunchedOnce(r) ==
  /\ sup[r].at \in BeforeLaunch \cup {"none"} => child[r] = "none"
  /\ sup[r].at = "write" /\ sup[r].verdict \in Ended => child[r] # "running"
  /\ sup[r].at \in Registered => row[r] # None /\ row[r].pid = "registered"

\* A run has ended only when its supervisor is done, or there will be none.
EndedLast(r) ==
  HasStatus(r, Ended) =>
    /\ child[r] # "running"
    /\ sup[r].at = "none" \/ (sup[r].at \in {"close", "gone"} /\ row[r].pid = "registered")

Kept(r) == child[r] = "running" => r \in files

RunInv(r) == ReservedOnce(r) /\ SpawnedOnce(r) /\ LaunchedOnce(r) /\ EndedLast(r) /\ Kept(r)
IInv == TypeOK /\ \A r \in Run : RunInv(r)

\* A step for r leaves the other runs alone.
Only(r) ==
  /\ \A q \in Run \ {r} :
       /\ reserved'[q] = reserved[q] /\ row'[q] = row[q] /\ preparing'[q] = preparing[q]
       /\ sup'[q] = sup[q] /\ child'[q] = child[q] /\ (q \in files => q \in files')
  /\ \/ api' = api
     \/ (api.at = "idle" \/ api.run = r) /\ (api'.at = "idle" \/ api'.run = r)

Sound(r) == TypeOK' /\ Only(r) /\ RunInv(r)'

LEMMA OthersKeep ==
  ASSUME IInv, NEW r \in Run, Sound(r)
  PROVE  IInv'
<1> SUFFICES ASSUME NEW q \in Run, q # r PROVE RunInv(q)' BY DEF IInv, Sound
<1>1. RunInv(q) BY DEF IInv
<1>2. /\ reserved'[q] = reserved[q] /\ row'[q] = row[q] /\ preparing'[q] = preparing[q]
      /\ sup'[q] = sup[q] /\ child'[q] = child[q] /\ (q \in files => q \in files')
      /\ api' = api \/ api'.at = "idle" \/ api'.run = r
  BY DEF Sound, Only
<1> QED BY <1>1, <1>2 DEF RunInv, ReservedOnce, SpawnedOnce, LaunchedOnce, EndedLast, Kept, Handles, HasStatus

-----------------------------------------------------------------------------
(* Requests *)

LEMMA StartSound == ASSUME TypeOK, NEW r \in Run, RunInv(r), Start(r) PROVE Sound(r)
<1>1. TypeOK' BY DEF TypeOK, Start, At, Idle, Pid, RunInv, ReservedOnce
<1>2. Only(r) BY DEF TypeOK, Start, Only, At, Idle
<1>3. RunInv(r)'
  BY DEF TypeOK, Start, At, Idle, RunInv, ReservedOnce, SpawnedOnce, LaunchedOnce, EndedLast, Kept, Handles, HasStatus
<1> QED BY <1>1, <1>2, <1>3 DEF Sound

LEMMA PrepareFailsSound == ASSUME TypeOK, NEW r \in Run, RunInv(r), PrepareFails(r) PROVE Sound(r)
<1>0. preparing[r] = 1 BY DEF TypeOK, PrepareFails, RunInv, ReservedOnce
<1>1. TypeOK' BY <1>0 DEF TypeOK, PrepareFails
<1>2. Only(r) BY DEF TypeOK, PrepareFails, Only
<1>3. RunInv(r)'
  BY <1>0 DEF TypeOK, PrepareFails, RunInv, ReservedOnce, SpawnedOnce, LaunchedOnce, EndedLast, Kept, Handles, HasStatus
<1> QED BY <1>1, <1>2, <1>3 DEF Sound

LEMMA PrepareSound == ASSUME TypeOK, NEW r \in Run, RunInv(r), Prepare(r) PROVE Sound(r)
<1>0. preparing[r] = 1 /\ row[r] = None BY DEF TypeOK, Prepare, RunInv, ReservedOnce
<1> DEFINE x == [status |-> "accepted", stop |-> FALSE, claimed |-> FALSE, pid |-> "nobody"]
<1>1. x \in Row /\ row' = [row EXCEPT ![r] = x] /\ At("claim", r) /\ files' = files \cup {r}
      /\ preparing' = [preparing EXCEPT ![r] = 0] /\ UNCHANGED <<reserved, sup, child>>
  BY <1>0 DEF Prepare, Row, Active, Terminal, Pid, TypeOK
<1>2. x.status = "accepted" /\ x.pid = "nobody" /\ x # None BY <1>1, ServerConstants
<1> HIDE DEF x
<1>3. TypeOK' BY <1>1 DEF TypeOK, At, Pid
<1>4. Only(r) BY <1>1 DEF TypeOK, Only, At, Prepare, Idle
<1>5. RunInv(r)'
  BY <1>0, <1>1, <1>2 DEF TypeOK, At, RunInv, ReservedOnce, SpawnedOnce, LaunchedOnce, EndedLast, Kept, Handles, HasStatus, Ended,
     BeforeLaunch, Registered
<1> QED BY <1>3, <1>4, <1>5 DEF Sound

\* A change of the row of r to x.
RowChange(r, x) == x \in Row /\ row' = [row EXCEPT ![r] = x]

LEMMA RowChanged ==
  ASSUME TypeOK, NEW r \in Run, NEW x, RowChange(r, x)
  PROVE  row' \in [Run -> Row \cup {None}] /\ row'[r] = x /\ row'[r] # None
         /\ \A q \in Run \ {r} : row'[q] = row[q]
BY ServerConstants DEF TypeOK, RowChange

LEMMA ClaimSpawnSound == ASSUME TypeOK, NEW r \in Run, RunInv(r), ClaimSpawn(r) PROVE Sound(r)
<1>0. row[r] # None /\ row[r] \in Row /\ row[r].status = "accepted" /\ sup[r].at = "none"
  BY DEF TypeOK, ClaimSpawn, RunInv, SpawnedOnce, Handles
<1>1. CASE ~row[r].claimed
  <2> DEFINE x == [row[r] EXCEPT !.claimed = TRUE]
  <2>1. RowChange(r, x) /\ At("spawn", r) BY <1>0, <1>1 DEF ClaimSpawn, RowChange, Row, TypeOK
  <2>2. x.status = "accepted" /\ x.pid = row[r].pid BY <1>0 DEF Row
  <2> HIDE DEF x
  <2>3. row' \in [Run -> Row \cup {None}] /\ row'[r] = x /\ row'[r] # None /\ \A q \in Run \ {r} : row'[q] = row[q]
    BY <2>1, RowChanged
  <2>4. TypeOK' BY <2>1, <2>3 DEF TypeOK, At, Pid, ClaimSpawn
  <2>5. Only(r) BY <2>1, <2>3 DEF TypeOK, Only, At, ClaimSpawn
  <2>6. RunInv(r)'
    BY <1>0, <2>1, <2>2, <2>3 DEF TypeOK, ClaimSpawn, At, RunInv, ReservedOnce, SpawnedOnce, LaunchedOnce, EndedLast, Kept, Handles,
       HasStatus, Ended, BeforeLaunch, Registered
  <2> QED BY <2>4, <2>5, <2>6 DEF Sound
<1>2. CASE row[r].claimed
  <2>1. TypeOK' BY <1>0, <1>2 DEF TypeOK, At, Pid, ClaimSpawn
  <2>2. Only(r) BY <1>0, <1>2 DEF TypeOK, Only, At, ClaimSpawn
  <2>3. RunInv(r)'
    BY <1>0, <1>2 DEF TypeOK, ClaimSpawn, At, RunInv, ReservedOnce, SpawnedOnce, LaunchedOnce, EndedLast, Kept, Handles, HasStatus
  <2> QED BY <2>1, <2>2, <2>3 DEF Sound
<1> QED BY <1>1, <1>2

LEMMA SpawnSupervisorSound == ASSUME TypeOK, NEW r \in Run, RunInv(r), SpawnSupervisor(r) PROVE Sound(r)
<1>0. row[r] # None /\ row[r] \in Row /\ row[r].status = "accepted" /\ sup[r].at = "none"
  BY DEF TypeOK, SpawnSupervisor, RunInv, SpawnedOnce, Handles
<1>1. CASE sup' = [sup EXCEPT ![r].at = "open"] /\ At("record", r) /\ UNCHANGED row
  <2>0. sup' \in [Run -> Supervisor] /\ sup'[r].at = "open" /\ \A q \in Run \ {r} : sup'[q] = sup[q]
    BY <1>1 DEF TypeOK, Supervisor
  <2>1. TypeOK' BY <1>1, <2>0 DEF TypeOK, At, Pid, SpawnSupervisor
  <2>2. Only(r) BY <1>1, <2>0 DEF TypeOK, Only, At, SpawnSupervisor
  <2>3. RunInv(r)'
    BY <1>0, <1>1, <2>0 DEF TypeOK, SpawnSupervisor, At, RunInv, ReservedOnce, SpawnedOnce, LaunchedOnce, EndedLast, Kept, Handles,
       HasStatus, BeforeLaunch, Registered, Ended
  <2> QED BY <2>1, <2>2, <2>3 DEF Sound
<1>2. CASE SetStatus(r, "failed") /\ At("reply", r) /\ UNCHANGED sup
  <2> DEFINE x == [row[r] EXCEPT !.status = "failed"]
  <2>1. RowChange(r, x) BY <1>0, <1>2 DEF SetStatus, RowChange, Row, TypeOK, Terminal, Ended
  <2> HIDE DEF x
  <2>3. row' \in [Run -> Row \cup {None}] /\ row'[r] # None /\ \A q \in Run \ {r} : row'[q] = row[q]
    BY <2>1, RowChanged
  <2>4. TypeOK' BY <1>2, <2>3 DEF TypeOK, At, Pid, SpawnSupervisor
  <2>5. Only(r) BY <1>2, <2>3 DEF TypeOK, Only, At, SpawnSupervisor
  <2>6. RunInv(r)'
    BY <1>0, <1>2, <2>3 DEF TypeOK, SpawnSupervisor, At, RunInv, ReservedOnce, SpawnedOnce, LaunchedOnce, EndedLast, Kept, Handles,
       HasStatus, Ended, BeforeLaunch, Registered
  <2> QED BY <2>4, <2>5, <2>6 DEF Sound
<1> QED BY <1>1, <1>2 DEF SpawnSupervisor

\* A change of the status of r, and of nothing else of its row.
StatusIs(r, status) ==
  /\ row' \in [Run -> Row \cup {None}]
  /\ row'[r] # None /\ row'[r].status = status
  /\ row'[r].stop = row[r].stop /\ row'[r].claimed = row[r].claimed /\ row'[r].pid = row[r].pid
  /\ \A q \in Run \ {r} : row'[q] = row[q]

LEMMA StatusSet ==
  ASSUME TypeOK, NEW r \in Run, row[r] # None, NEW status \in Active \cup Terminal, SetStatus(r, status)
  PROVE  StatusIs(r, status)
<1> DEFINE x == [row[r] EXCEPT !.status = status]
<1>0. row[r] \in Row BY DEF TypeOK
<1>1. RowChange(r, x) BY <1>0 DEF SetStatus, RowChange, Row, TypeOK
<1>2. x.status = status /\ x.stop = row[r].stop /\ x.claimed = row[r].claimed /\ x.pid = row[r].pid BY <1>0 DEF Row
<1> HIDE DEF x
<1> QED BY <1>1, <1>2, RowChanged DEF StatusIs

LEMMA UnknownSet ==
  ASSUME TypeOK, NEW r \in Run, row[r] # None, MarkUnknownIfActive(r)
  PROVE  /\ StatusIs(r, IF row[r].status \in Active THEN "unknown" ELSE row[r].status)
         /\ row[r].status \notin Active => row' = row
<1>1. CASE row[r].status \in Active
  <2>1. SetStatus(r, "unknown") BY <1>1 DEF MarkUnknownIfActive, SetStatus
  <2> QED BY <1>1, <2>1, StatusSet DEF Terminal
<1>2. CASE row[r].status \notin Active
  <2>1. row' = row BY <1>2 DEF MarkUnknownIfActive
  <2> QED BY <1>2, <2>1 DEF StatusIs, TypeOK
<1> QED BY <1>1, <1>2

LEMMA RecordPidSound == ASSUME TypeOK, NEW r \in Run, RunInv(r), RecordPid(r) PROVE Sound(r)
<1>0. row[r] # None /\ row[r] \in Row /\ sup[r].at # "none"
  BY DEF TypeOK, RecordPid, RunInv, SpawnedOnce, Handles
<1> DEFINE x == [row[r] EXCEPT !.pid = IF @ = "nobody" THEN "launched" ELSE @]
<1>1. RowChange(r, x) BY <1>0 DEF RecordPid, RowChange, Row, TypeOK, Pid
<1>2. x.status = row[r].status /\ (row[r].pid = "registered" => x.pid = "registered") BY <1>0 DEF Row
<1> HIDE DEF x
<1>3. row' \in [Run -> Row \cup {None}] /\ row'[r] = x /\ row'[r] # None /\ \A q \in Run \ {r} : row'[q] = row[q]
  BY <1>1, RowChanged
<1>4. TypeOK' BY <1>3 DEF TypeOK, At, Pid, RecordPid
<1>5. Only(r) BY <1>3 DEF TypeOK, Only, At, RecordPid
<1>6. RunInv(r)'
  BY <1>0, <1>2, <1>3 DEF TypeOK, RecordPid, At, RunInv, ReservedOnce, SpawnedOnce, LaunchedOnce, EndedLast, Kept, Handles, HasStatus
<1> QED BY <1>4, <1>5, <1>6 DEF Sound

LEMMA StatusSound == ASSUME TypeOK, NEW r \in Run, RunInv(r), Status(r) PROVE Sound(r)
<1>1. TypeOK' BY DEF TypeOK, Status, At, Reading, Pid, HasStatus, Row
<1>2. Only(r) BY DEF TypeOK, Status, Only, At, Reading, Idle
<1>3. RunInv(r)'
  BY DEF TypeOK, Status, At, Reading, RunInv, ReservedOnce, SpawnedOnce, LaunchedOnce, EndedLast, Kept, Handles, HasStatus
<1> QED BY <1>1, <1>2, <1>3 DEF Sound

LEMMA JudgeSound == ASSUME TypeOK, NEW r \in Run, RunInv(r), Judge(r) PROVE Sound(r)
<1>0. row[r] # None /\ StatusIs(r, IF row[r].status \in Active THEN "unknown" ELSE row[r].status)
  <2>1. row[r] # None BY DEF Judge, RunInv, SpawnedOnce, Handles
  <2> QED BY <2>1, UnknownSet DEF Judge
<1>1. TypeOK' BY <1>0 DEF TypeOK, Judge, At, Pid, StatusIs
<1>2. Only(r) BY <1>0 DEF TypeOK, Judge, Only, At, StatusIs
<1>3. RunInv(r)'
  BY <1>0 DEF TypeOK, Judge, At, StatusIs, RunInv, ReservedOnce, SpawnedOnce, LaunchedOnce, EndedLast, Kept, Handles, HasStatus, Ended
<1> QED BY <1>1, <1>2, <1>3 DEF Sound

LEMMA SpareSound == ASSUME TypeOK, NEW r \in Run, RunInv(r), Spare(r) PROVE Sound(r)
<1>1. TypeOK' BY DEF TypeOK, Spare, At, Pid
<1>2. Only(r) BY DEF Spare, Only, At
<1>3. RunInv(r)' BY DEF Spare, At, RunInv, ReservedOnce, SpawnedOnce, LaunchedOnce, EndedLast, Kept, Handles, HasStatus
<1> QED BY <1>1, <1>2, <1>3 DEF Sound

LEMMA ReplySound == ASSUME TypeOK, NEW r \in Run, RunInv(r), Reply(r) PROVE Sound(r)
<1>0. files' = files \/ (HasStatus(r, Ended) /\ files' = files \ {r}) BY DEF Reply, Clean
<1>1. TypeOK' BY <1>0 DEF TypeOK, Reply, Idle, Pid
<1>2. Only(r) BY <1>0 DEF Reply, Only, Idle
<1>3. RunInv(r)'
  BY <1>0 DEF Reply, Idle, RunInv, ReservedOnce, SpawnedOnce, LaunchedOnce, EndedLast, Kept, Handles, HasStatus
<1> QED BY <1>1, <1>2, <1>3 DEF Sound

LEMMA StopSound == ASSUME TypeOK, NEW r \in Run, RunInv(r), Stop(r) PROVE Sound(r)
<1>1. TypeOK' BY DEF TypeOK, Stop, At, Pid
<1>2. Only(r) BY DEF Stop, Only, At, Idle
<1>3. RunInv(r)' BY DEF Stop, At, RunInv, ReservedOnce, SpawnedOnce, LaunchedOnce, EndedLast, Kept, Handles, HasStatus
<1> QED BY <1>1, <1>2, <1>3 DEF Sound

LEMMA WriteStopSound == ASSUME TypeOK, NEW r \in Run, RunInv(r), WriteStop(r) PROVE Sound(r)
<1>0. row[r] # None /\ row[r] \in Row BY DEF TypeOK, WriteStop, RunInv, SpawnedOnce, Handles
<1> DEFINE x == [row[r] EXCEPT !.stop = TRUE, !.status = "stopping"]
<1>1. x \in Row /\ x.status = "stopping" /\ x.pid = row[r].pid BY <1>0 DEF Row, Active
<1>2. RowChange(r, x) BY <1>0, <1>1 DEF WriteStop, RowChange, TypeOK
<1> HIDE DEF x
<1>3. row' \in [Run -> Row \cup {None}] /\ row'[r] = x /\ row'[r] # None /\ \A q \in Run \ {r} : row'[q] = row[q]
  BY <1>2, RowChanged
<1>4. TypeOK' BY <1>3 DEF TypeOK, Idle, Pid, WriteStop
<1>5. Only(r) BY <1>3 DEF Only, WriteStop, Idle
<1>6. RunInv(r)'
  BY <1>0, <1>1, <1>3 DEF WriteStop, Idle, RunInv, ReservedOnce, SpawnedOnce, LaunchedOnce, EndedLast, Kept, Handles, HasStatus, Ended
<1> QED BY <1>4, <1>5, <1>6 DEF Sound

LEMMA ApiCrashPreserves == ASSUME IInv, ApiCrash PROVE IInv'
<1>1. TypeOK' BY DEF IInv, TypeOK, ApiCrash, Idle, Pid
<1>2. ASSUME NEW q \in Run PROVE RunInv(q)'
  <2> RunInv(q) BY DEF IInv
  <2> QED BY DEF ApiCrash, Idle, RunInv, ReservedOnce, SpawnedOnce, LaunchedOnce, EndedLast, Kept, Handles, HasStatus
<1> QED BY <1>1, <1>2 DEF IInv

-----------------------------------------------------------------------------
(* The supervisor *)

\* A supervisor goes from one statement to another, and may have a verdict.
Moves(r, to) ==
  /\ sup' \in [Run -> Supervisor]
  /\ sup'[r].at = to
  /\ \A q \in Run \ {r} : sup'[q] = sup[q]

LEMMA StepMoves ==
  ASSUME TypeOK, NEW r \in Run, NEW from, NEW to, Step(r, from, to),
         to \in {"register", "check", "launch", "report", "watch", "kill", "poll", "close", "gone"}
  PROVE  Moves(r, to) /\ sup[r].at = from
BY DEF TypeOK, Supervisor, Step, Moves

LEMMA ConcludeMoves ==
  ASSUME TypeOK, NEW r \in Run, NEW from, NEW verdict \in Terminal, Conclude(r, from, verdict)
  PROVE  Moves(r, "write") /\ sup[r].at = from /\ sup'[r].verdict = verdict
BY DEF TypeOK, Supervisor, Conclude, Moves

\* A row is there from the moment there is a supervisor.
LEMMA SupervisedRow ==
  ASSUME TypeOK, NEW r \in Run, RunInv(r), sup[r].at # "none"
  PROVE  row[r] # None /\ row[r] \in Row /\ preparing[r] = 0 /\ reserved[r] # "none"
         /\ ~Handles({"claim", "spawn"}, r)
BY DEF TypeOK, RunInv, ReservedOnce, SpawnedOnce

LEMMA OpenSound == ASSUME TypeOK, NEW r \in Run, RunInv(r), Open(r) PROVE Sound(r)
<1> DEFINE to == IF HasStatus(r, Terminal) THEN "close" ELSE "register"
<1>0. Moves(r, to) /\ sup[r].at = "open" BY StepMoves DEF Open
<1>1. TypeOK' BY <1>0 DEF TypeOK, Open, Moves
<1>2. Only(r) BY <1>0 DEF Open, Moves, Only
<1>3. RunInv(r)'
  BY <1>0, SupervisedRow DEF Open, Moves, RunInv, ReservedOnce, SpawnedOnce, LaunchedOnce, EndedLast, Kept, Handles, HasStatus,
     BeforeLaunch, Registered
<1> QED BY <1>1, <1>2, <1>3 DEF Sound

LEMMA RegisterSound == ASSUME TypeOK, NEW r \in Run, RunInv(r), Register(r) PROVE Sound(r)
<1>0. Moves(r, "check") /\ sup[r].at = "register" BY StepMoves DEF Register
<1>1. row[r] # None /\ row[r] \in Row BY <1>0, SupervisedRow
<1> DEFINE x == [row[r] EXCEPT !.status = "starting", !.pid = "registered"]
<1>2. x \in Row /\ x.status = "starting" /\ x.pid = "registered" BY <1>1 DEF Row, Active, Pid
<1>3. RowChange(r, x) BY <1>1, <1>2 DEF Register, RowChange, TypeOK
<1> HIDE DEF x
<1>4. row' \in [Run -> Row \cup {None}] /\ row'[r] = x /\ row'[r] # None /\ \A q \in Run \ {r} : row'[q] = row[q]
  BY <1>3, RowChanged
<1>5. TypeOK' BY <1>0, <1>4 DEF TypeOK, Register, Moves
<1>6. Only(r) BY <1>0, <1>4 DEF Register, Moves, Only
<1>7. RunInv(r)'
  BY <1>0, <1>2, <1>4, SupervisedRow DEF Register, Moves, RunInv, ReservedOnce, SpawnedOnce, LaunchedOnce, EndedLast, Kept,
     Handles, HasStatus, BeforeLaunch, Registered, Ended
<1> QED BY <1>5, <1>6, <1>7 DEF Sound

LEMMA CheckSound == ASSUME TypeOK, NEW r \in Run, RunInv(r), Check(r) PROVE Sound(r)
<1>0. \/ Moves(r, "write") /\ sup[r].at = "check" /\ sup'[r].verdict = "cancelled"
      \/ Moves(r, "launch") /\ sup[r].at = "check"
  BY StepMoves, ConcludeMoves DEF Check, Terminal, Ended
<1>1. TypeOK' BY <1>0 DEF TypeOK, Check, Moves
<1>2. Only(r) BY <1>0 DEF Check, Moves, Only
<1>3. RunInv(r)'
  BY <1>0, SupervisedRow DEF Check, Moves, RunInv, ReservedOnce, SpawnedOnce, LaunchedOnce, EndedLast, Kept, Handles, HasStatus,
     BeforeLaunch, Registered
<1> QED BY <1>1, <1>2, <1>3 DEF Sound

LEMMA LaunchSound == ASSUME TypeOK, NEW r \in Run, RunInv(r), Launch(r) PROVE Sound(r)
<1>0. /\ sup[r].at = "launch"
      /\ \/ r \in files /\ Moves(r, "report") /\ child' = [child EXCEPT ![r] = "running"]
         \/ Moves(r, "write") /\ UNCHANGED child
  BY StepMoves, ConcludeMoves DEF Launch, Terminal, Ended
<1>1. TypeOK' BY <1>0 DEF TypeOK, Launch, Moves
<1>2. Only(r) BY <1>0 DEF Launch, Moves, Only, TypeOK
<1>3. RunInv(r)'
  BY <1>0, SupervisedRow DEF Launch, Moves, RunInv, ReservedOnce, SpawnedOnce, LaunchedOnce, EndedLast, Kept, Handles, HasStatus,
     BeforeLaunch, Registered, TypeOK
<1> QED BY <1>1, <1>2, <1>3 DEF Sound

LEMMA ReportSound == ASSUME TypeOK, NEW r \in Run, RunInv(r), Report(r) PROVE Sound(r)
<1>0. Moves(r, "watch") /\ sup[r].at = "report" BY StepMoves DEF Report
<1>1. StatusIs(r, "running") BY <1>0, SupervisedRow, StatusSet DEF Report, Active
<1>2. TypeOK' BY <1>0, <1>1 DEF TypeOK, Report, Moves, StatusIs
<1>3. Only(r) BY <1>0, <1>1 DEF Report, Moves, Only, StatusIs
<1>4. RunInv(r)'
  BY <1>0, <1>1, SupervisedRow DEF Report, Moves, StatusIs, RunInv, ReservedOnce, SpawnedOnce, LaunchedOnce, EndedLast, Kept,
     Handles, HasStatus, BeforeLaunch, Registered, Ended
<1> QED BY <1>2, <1>3, <1>4 DEF Sound

LEMMA WatchSound == ASSUME TypeOK, NEW r \in Run, RunInv(r), Watch(r) PROVE Sound(r)
<1> DEFINE to == IF row[r].stop THEN "kill" ELSE "poll"
<1>0. Moves(r, to) /\ sup[r].at = "watch" BY StepMoves DEF Watch
<1>1. TypeOK' BY <1>0 DEF TypeOK, Watch, Moves
<1>2. Only(r) BY <1>0 DEF Watch, Moves, Only
<1>3. RunInv(r)'
  BY <1>0, SupervisedRow DEF Watch, Moves, RunInv, ReservedOnce, SpawnedOnce, LaunchedOnce, EndedLast, Kept, Handles, HasStatus,
     BeforeLaunch, Registered
<1> QED BY <1>1, <1>2, <1>3 DEF Sound

LEMMA KillSound == ASSUME TypeOK, NEW r \in Run, RunInv(r), Kill(r) PROVE Sound(r)
<1>0. Moves(r, "write") /\ sup[r].at = "kill" /\ sup'[r].verdict = "cancelled"
  BY ConcludeMoves DEF Kill, Terminal, Ended
<1>c. child' \in [Run -> {"none", "running", "ignoring", "exited"}] /\ child'[r] # "running"
      /\ \A q \in Run \ {r} : child'[q] = child[q]
  BY DEF Kill, TypeOK
<1>1. TypeOK' BY <1>0, <1>c DEF TypeOK, Kill, Moves
<1>2. Only(r) BY <1>0, <1>c DEF Kill, Moves, Only
<1>3. RunInv(r)'
  BY <1>0, <1>c, SupervisedRow DEF Kill, Moves, RunInv, ReservedOnce, SpawnedOnce, LaunchedOnce, EndedLast, Kept, Handles,
     HasStatus, BeforeLaunch, Registered
<1> QED BY <1>1, <1>2, <1>3 DEF Sound

LEMMA PollSound == ASSUME TypeOK, NEW r \in Run, RunInv(r), Poll(r) PROVE Sound(r)
<1>0. /\ sup[r].at = "poll"
      /\ Moves(r, "watch") \/ (Moves(r, "write") /\ child[r] = "exited")
  BY StepMoves, ConcludeMoves DEF Poll, Terminal, Ended
<1>1. TypeOK' BY <1>0 DEF TypeOK, Poll, Moves
<1>2. Only(r) BY <1>0 DEF Poll, Moves, Only
<1>3. RunInv(r)'
  BY <1>0, SupervisedRow DEF Poll, Moves, RunInv, ReservedOnce, SpawnedOnce, LaunchedOnce, EndedLast, Kept, Handles, HasStatus,
     BeforeLaunch, Registered
<1> QED BY <1>1, <1>2, <1>3 DEF Sound

LEMMA WriteSound == ASSUME TypeOK, NEW r \in Run, RunInv(r), Write(r) PROVE Sound(r)
<1>0. Moves(r, "close") /\ sup[r].at = "write" BY StepMoves DEF Write
<1>1. StatusIs(r, sup[r].verdict) /\ sup[r].verdict \in Terminal
  <2>1. sup[r].verdict \in Terminal BY DEF TypeOK, Supervisor
  <2> QED BY <1>0, <2>1, SupervisedRow, StatusSet DEF Write
<1>2. TypeOK' BY <1>0, <1>1 DEF TypeOK, Write, Moves, StatusIs
<1>3. Only(r) BY <1>0, <1>1 DEF Write, Moves, Only, StatusIs
<1>4. RunInv(r)'
  BY <1>0, <1>1, SupervisedRow DEF Write, Moves, StatusIs, RunInv, ReservedOnce, SpawnedOnce, LaunchedOnce, EndedLast, Kept,
     Handles, HasStatus, BeforeLaunch, Registered
<1> QED BY <1>2, <1>3, <1>4 DEF Sound

LEMMA ErrorSound == ASSUME TypeOK, NEW r \in Run, RunInv(r), Error(r) PROVE Sound(r)
<1>0. Moves(r, "close") /\ sup[r].at \notin {"none", "open", "close", "gone"}
  BY DEF Error, Moves, TypeOK, Supervisor
<1>1. StatusIs(r, IF row[r].status \in Active THEN "unknown" ELSE row[r].status)
  BY <1>0, SupervisedRow, UnknownSet DEF Error
<1>2. TypeOK' BY <1>0, <1>1 DEF TypeOK, Error, Moves, StatusIs
<1>3. Only(r) BY <1>0, <1>1 DEF Error, Moves, Only, StatusIs
<1>4. RunInv(r)'
  BY <1>0, <1>1, SupervisedRow DEF Error, Moves, StatusIs, RunInv, ReservedOnce, SpawnedOnce, LaunchedOnce, EndedLast, Kept,
     Handles, HasStatus, BeforeLaunch, Registered, Ended
<1> QED BY <1>2, <1>3, <1>4 DEF Sound

LEMMA CloseSound == ASSUME TypeOK, NEW r \in Run, RunInv(r), Close(r) PROVE Sound(r)
<1>0. Moves(r, "gone") /\ sup[r].at = "close" BY StepMoves DEF Close
<1>1. files' = files \/ (HasStatus(r, Ended) /\ files' = files \ {r}) BY DEF Close, Clean
<1>2. TypeOK' BY <1>0, <1>1 DEF TypeOK, Close, Moves
<1>3. Only(r) BY <1>0, <1>1 DEF Close, Moves, Only
<1>4. RunInv(r)'
  BY <1>0, <1>1, SupervisedRow DEF Close, Moves, RunInv, ReservedOnce, SpawnedOnce, LaunchedOnce, EndedLast, Kept, Handles,
     HasStatus, BeforeLaunch, Registered
<1> QED BY <1>2, <1>3, <1>4 DEF Sound

LEMMA SupervisorCrashSound == ASSUME TypeOK, NEW r \in Run, RunInv(r), SupervisorCrash(r) PROVE Sound(r)
<1>0. Moves(r, "gone") /\ sup[r].at \notin {"none", "gone"} BY DEF SupervisorCrash, Moves, TypeOK, Supervisor
<1>1. TypeOK' BY <1>0 DEF TypeOK, SupervisorCrash, Moves
<1>2. Only(r) BY <1>0 DEF SupervisorCrash, Moves, Only
<1>3. RunInv(r)'
  BY <1>0, SupervisedRow DEF SupervisorCrash, Moves, RunInv, ReservedOnce, SpawnedOnce, LaunchedOnce, EndedLast, Kept, Handles,
     HasStatus, BeforeLaunch, Registered
<1> QED BY <1>1, <1>2, <1>3 DEF Sound

LEMMA ChildExitSound == ASSUME TypeOK, NEW r \in Run, RunInv(r), ChildExit(r) PROVE Sound(r)
<1>1. TypeOK' BY DEF TypeOK, ChildExit
<1>2. Only(r) BY DEF TypeOK, ChildExit, Only
<1>3. RunInv(r)'
  BY DEF TypeOK, ChildExit, RunInv, ReservedOnce, SpawnedOnce, LaunchedOnce, EndedLast, Kept, Handles, HasStatus
<1> QED BY <1>1, <1>2, <1>3 DEF Sound

-----------------------------------------------------------------------------
(* The invariant *)

StepOf(r) == Request(r) \/ Continue(r) \/ Judge(r) \/ Spare(r) \/ Supervise(r) \/ Fault(r)

LEMMA StepSound == ASSUME TypeOK, NEW r \in Run, RunInv(r), StepOf(r) PROVE Sound(r)
<1>1. CASE Request(r)
  BY <1>1, StartSound, PrepareFailsSound, PrepareSound, StatusSound, StopSound DEF Request
<1>2. CASE Continue(r)
  BY <1>2, ClaimSpawnSound, SpawnSupervisorSound, RecordPidSound, ReplySound, WriteStopSound DEF Continue
<1>3. CASE Supervise(r)
  BY <1>3, OpenSound, RegisterSound, CheckSound, LaunchSound, ReportSound, WatchSound, KillSound, PollSound, WriteSound,
     CloseSound DEF Supervise
<1>4. CASE Fault(r) BY <1>4, ErrorSound, SupervisorCrashSound, ChildExitSound DEF Fault
<1> QED BY <1>1, <1>2, <1>3, <1>4, JudgeSound, SpareSound DEF StepOf

LEMMA InitInv == ASSUME Init PROVE IInv
<1>1. TypeOK BY DEF Init, TypeOK, Idle, Pid, Supervisor, Terminal
<1>2. ASSUME NEW r \in Run PROVE RunInv(r)
  BY <1>1 DEF Init, Idle, RunInv, ReservedOnce, SpawnedOnce, LaunchedOnce, EndedLast, Kept, Handles, HasStatus, BeforeLaunch, Registered
<1> QED BY <1>1, <1>2 DEF IInv

LEMMA NextPreserves == ASSUME IInv, [Next]_vars PROVE IInv'
<1>1. ASSUME NEW r \in Run, StepOf(r) PROVE IInv'
  <2>1. Sound(r) BY <1>1, StepSound DEF IInv
  <2> QED BY <2>1, OthersKeep
<1>2. CASE UNCHANGED vars
  BY <1>2 DEF vars, IInv, TypeOK, RunInv, ReservedOnce, SpawnedOnce, LaunchedOnce, EndedLast, Kept, Handles, HasStatus
<1> QED BY <1>1, <1>2, ApiCrashPreserves DEF Next, StepOf

\* The inductive invariant: a run has one reservation, then one row, one
\* supervisor and one command, each of which begins with the one before it.
THEOREM ServerInvariant == Spec => []IInv
BY InitInv, NextPreserves, PTL DEF Spec

\* Every variable keeps its type.
THEOREM TypeCorrect == Spec => []TypeOK
<1>1. IInv => TypeOK BY DEF IInv
<1> QED BY <1>1, ServerInvariant, PTL

\* At most one request puts a runtime together, before there is a supervisor.
THEOREM OneRuntimeHolds == Spec => []OneRuntime
<1>1. IInv => OneRuntime BY DEF IInv, OneRuntime, RunInv, ReservedOnce
<1> QED BY <1>1, ServerInvariant, PTL

\* No command works without the directory it was launched in.
THEOREM FilesKeptHolds == Spec => []FilesKept
<1>1. IInv => FilesKept BY DEF IInv, FilesKept, RunInv, Kept
<1> QED BY <1>1, ServerInvariant, PTL

-----------------------------------------------------------------------------
(* Outcomes *)

EndedStays(r) == HasStatus(r, Ended) => row'[r] = row[r] \/ (api.at = "stop" /\ api.run = r)

LEMMA StepKeepsEnded == ASSUME IInv, NEW q \in Run, StepOf(q), NEW r \in Run PROVE EndedStays(r)
<1> TypeOK /\ RunInv(q) /\ RunInv(r) BY DEF IInv
<1>1. CASE q # r
  <2>1. Sound(q) BY StepSound
  <2> QED BY <1>1, <2>1 DEF Sound, Only, EndedStays
<1>2. CASE q = r /\ UNCHANGED row BY <1>2 DEF EndedStays
<1>3. CASE Request(r)
  BY <1>2, <1>3 DEF Request, Start, PrepareFails, Prepare, Status, Stop, EndedStays, HasStatus
<1>4. CASE Continue(r)
  <2>1. CASE ClaimSpawn(r) \/ SpawnSupervisor(r)
    BY <2>1 DEF ClaimSpawn, SpawnSupervisor, RunInv, SpawnedOnce, Handles, EndedStays, HasStatus, Ended
  <2>2. CASE RecordPid(r)
    <3>1. HasStatus(r, Ended) => row[r].pid = "registered" BY <2>2 DEF RecordPid, RunInv, SpawnedOnce, EndedLast, Handles
    <3>2. row[r] # None => row[r] \in Row BY DEF TypeOK
    <3> QED BY <2>2, <3>1, <3>2 DEF RecordPid, EndedStays, HasStatus, Row, TypeOK
  <2>3. CASE WriteStop(r) BY <2>3 DEF WriteStop, EndedStays
  <2>4. CASE Reply(r) BY <2>4 DEF Reply, EndedStays
  <2> QED BY <1>4, <2>1, <2>2, <2>3, <2>4 DEF Continue
<1>5. CASE Judge(r) \/ Spare(r)
  BY <1>5 DEF Judge, Spare, MarkUnknownIfActive, EndedStays, HasStatus, Active, Ended
<1>6. CASE Supervise(r)
  <2>1. CASE Register(r) \/ Report(r) \/ Write(r)
    BY <2>1 DEF Register, Report, Write, Step, RunInv, EndedLast, EndedStays
  <2>2. CASE Open(r) \/ Check(r) \/ Launch(r) \/ Watch(r) \/ Kill(r) \/ Poll(r) \/ Close(r)
    BY <2>2 DEF Open, Check, Launch, Watch, Kill, Poll, Close, EndedStays
  <2> QED BY <1>6, <2>1, <2>2 DEF Supervise
<1>7. CASE Fault(r)
  BY <1>7 DEF Fault, Error, SupervisorCrash, ChildExit, MarkUnknownIfActive, EndedStays, HasStatus, Active, Ended
<1> QED BY <1>1, <1>3, <1>4, <1>5, <1>6, <1>7 DEF StepOf

\* What a run ended with is overwritten by nothing but a stop that was under way.
THEOREM OutcomeStaysHolds == Spec => OutcomeStays
<1>1. IInv /\ [Next]_vars =>
        [\A r \in Run :
           HasStatus(r, Ended) => row'[r] = row[r] \/ (api.at = "stop" /\ api.run = r)]_vars
  <2> SUFFICES ASSUME IInv, Next, NEW r \in Run PROVE EndedStays(r) BY DEF EndedStays
  <2>1. CASE ApiCrash BY <2>1 DEF ApiCrash, EndedStays
  <2>2. ASSUME NEW q \in Run, StepOf(q) PROVE EndedStays(r) BY <2>2, StepKeepsEnded
  <2> QED BY <2>1, <2>2 DEF Next, StepOf
<1> QED BY <1>1, ServerInvariant, PTL DEF Spec, OutcomeStays

-----------------------------------------------------------------------------
(* The refinement *)

Same(r) == PhaseOf(r)' = PhaseOf(r) /\ WorkOf(r)' = WorkOf(r)

\* The steps of RemoteRun for one run.
RunStep(r) ==
  LET p == PhaseOf(r)  q == PhaseOf(r)'  w == WorkOf(r)  v == WorkOf(r)' IN
  \/ p = "absent" /\ q = "pending" /\ v = w
  \/ p = "pending" /\ q = "accepted" /\ v = w
  \/ p = "pending" /\ q = "refused" /\ v = "over"
  \/ p \in Active \cup {"unknown"} /\ q = p /\ w = "none" /\ v = "running"
  \/ q = p /\ w = "running" /\ v = "over"
  \/ q = p /\ w = "none" /\ v = "over"
  \/ p \in Active \cup {"unknown"} /\ q \in {"starting", "running", "unknown"} /\ (v = w \/ (w = "none" /\ v = "over"))
  \/ p \in Active \cup {"unknown"} /\ w # "running" /\ q \in Ended /\ v = "over"
  \/ p \in Active \cup Terminal /\ q = "stopping" /\ v = w

LEMMA RemoteStep ==
  ASSUME NEW r \in Run, \A q \in Run \ {r} : Same(q), RunStep(r) \/ Same(r)
  PROVE  [Remote!Next]_(Remote!vars)
<1> DEFINE P == [q \in Run |-> PhaseOf(q)]
           W == [q \in Run |-> WorkOf(q)]
<1> USE DEF Same
<1>0. ASSUME Same(r) PROVE UNCHANGED <<P, W>> BY <1>0
<1>p. P' = [P EXCEPT ![r] = PhaseOf(r)'] /\ P[r] = PhaseOf(r) OBVIOUS
<1>w. W' = [W EXCEPT ![r] = WorkOf(r)'] /\ W[r] = WorkOf(r) OBVIOUS
<1>e. /\ PhaseOf(r)' = PhaseOf(r) => P' = P
      /\ WorkOf(r)' = WorkOf(r) => W' = W
  OBVIOUS
<1>1. ASSUME PhaseOf(r) = "absent", PhaseOf(r)' = "pending", WorkOf(r)' = WorkOf(r) PROVE Remote!Start(r)
  BY <1>1, <1>p, <1>e DEF Remote!Start
<1>2. ASSUME PhaseOf(r) = "pending", PhaseOf(r)' = "accepted", WorkOf(r)' = WorkOf(r) PROVE Remote!Prepare(r)
  BY <1>2, <1>p, <1>e DEF Remote!Prepare
<1>3. ASSUME PhaseOf(r) = "pending", PhaseOf(r)' = "refused", WorkOf(r)' = "over" PROVE Remote!Prepare(r)
  BY <1>3, <1>p, <1>w DEF Remote!Prepare
<1>4. ASSUME PhaseOf(r) \in Active \cup {"unknown"}, PhaseOf(r)' = PhaseOf(r), WorkOf(r) = "none", WorkOf(r)' = "running"
      PROVE  Remote!Launch(r)
  BY <1>4, <1>p, <1>w, <1>e DEF Remote!Launch, Remote!Active, Active
<1>5. ASSUME PhaseOf(r)' = PhaseOf(r), WorkOf(r) = "running", WorkOf(r)' = "over" PROVE Remote!Exit(r)
  BY <1>5, <1>w, <1>e DEF Remote!Exit
<1>6. ASSUME PhaseOf(r)' = PhaseOf(r), WorkOf(r) = "none", WorkOf(r)' = "over" PROVE Remote!GiveUp({r})
  BY <1>6, <1>w, <1>e DEF Remote!GiveUp
<1>7. ASSUME PhaseOf(r) \in Active \cup {"unknown"}, PhaseOf(r)' \in {"starting", "running", "unknown"},
             WorkOf(r)' = WorkOf(r) \/ (WorkOf(r) = "none" /\ WorkOf(r)' = "over")
      PROVE  Remote!Report(r)
  BY <1>7, <1>p, <1>w, <1>e DEF Remote!Report, Remote!Active, Active
<1>8. ASSUME PhaseOf(r) \in Active \cup {"unknown"}, WorkOf(r) # "running", PhaseOf(r)' \in Ended, WorkOf(r)' = "over"
      PROVE  Remote!End(r)
  BY <1>8, <1>p, <1>w DEF Remote!End, Remote!Active, Remote!Ended, Active, Ended
<1>9. ASSUME PhaseOf(r) \in Active \cup Terminal, PhaseOf(r)' = "stopping", WorkOf(r)' = WorkOf(r) PROVE Remote!Stop(r)
  BY <1>9, <1>p, <1>e DEF Remote!Stop, Remote!Active, Remote!Ended, Active, Ended, Terminal
<1> HIDE DEF P, W
<1> QED BY <1>0, <1>1, <1>2, <1>3, <1>4, <1>5, <1>6, <1>7, <1>8, <1>9 DEF RunStep, Remote!Next, Remote!Progress, Remote!vars, P, W

LEMMA OthersSame ==
  ASSUME NEW r \in Run, Only(r), NEW q \in Run \ {r}
  PROVE  Same(q)
<1>1. /\ reserved'[q] = reserved[q] /\ row'[q] = row[q] /\ preparing'[q] = preparing[q]
      /\ sup'[q] = sup[q] /\ child'[q] = child[q]
      /\ \/ api' = api
         \/ (api.at = "idle" \/ api.run = r) /\ (api'.at = "idle" \/ api'.run = r)
  BY DEF Only
<1>2. MayLaunch(q)' <=> MayLaunch(q) BY <1>1 DEF MayLaunch
<1>3. WorkOf(q)' = WorkOf(q) BY <1>1, <1>2 DEF WorkOf
<1>4. PhaseOf(q)' = PhaseOf(q) BY <1>1 DEF PhaseOf
<1> QED BY <1>3, <1>4 DEF Same

\* What the status of a run with a row is, and how far its command has come.
LEMMA PhaseIs == ASSUME NEW r \in Run, row[r] # None PROVE PhaseOf(r) = row[r].status
BY DEF PhaseOf

LEMMA PhaseWillBe == ASSUME NEW r \in Run, row'[r] # None PROVE PhaseOf(r)' = row'[r].status
BY DEF PhaseOf

LEMMA WorkIs ==
  ASSUME NEW r \in Run
  PROVE  /\ child[r] = "running" => WorkOf(r) = "running"
         /\ child[r] = "none" /\ MayLaunch(r) => WorkOf(r) = "none"
         /\ child[r] # "running" /\ ~(child[r] = "none" /\ MayLaunch(r)) => WorkOf(r) = "over"
         /\ WorkOf(r) \in {"none", "running", "over"}
BY DEF WorkOf

LEMMA WorkWillBe ==
  ASSUME NEW r \in Run
  PROVE  /\ child'[r] = "running" => WorkOf(r)' = "running"
         /\ child'[r] = "none" /\ MayLaunch(r)' => WorkOf(r)' = "none"
         /\ child'[r] # "running" /\ ~(child'[r] = "none" /\ MayLaunch(r)') => WorkOf(r)' = "over"
BY DEF WorkOf

\* Steps after which the row, the command and its chances are as they were.
LEMMA SameWhen ==
  ASSUME NEW r \in Run, row'[r] = row[r], reserved'[r] = reserved[r] \/ row[r] # None,
         child'[r] = child[r], MayLaunch(r)' <=> MayLaunch(r)
  PROVE  Same(r)
<1>1. PhaseOf(r)' = PhaseOf(r) BY DEF PhaseOf
<1>2. WorkOf(r)' = WorkOf(r) BY DEF WorkOf
<1> QED BY <1>1, <1>2 DEF Same

\* Steps after which nobody is left who could launch the command.
LEMMA GivesUp ==
  ASSUME NEW r \in Run, PhaseOf(r)' = PhaseOf(r), child[r] = "none", child'[r] = "none", ~MayLaunch(r)'
  PROVE  RunStep(r) \/ Same(r)
<1>1. WorkOf(r)' = "over" BY WorkWillBe
<1>2. WorkOf(r) \in {"none", "over"} BY DEF WorkOf
<1> QED BY <1>1, <1>2 DEF RunStep, Same

LEMMA RequestStep ==
  ASSUME IInv, NEW r \in Run, Request(r) \/ Continue(r) \/ Judge(r) \/ Spare(r)
  PROVE  RunStep(r) \/ Same(r)
<1> TypeOK /\ RunInv(r) BY DEF IInv
<1> row[r] # None => row[r] \in Row BY DEF TypeOK
<1>1. CASE Start(r)
  <2>1. CASE reserved[r] = "none"
    <3>1. /\ row[r] = None /\ row' = row /\ child' = child /\ sup[r].at = "none" /\ preparing[r] = 0
          /\ reserved'[r] = "preparing" /\ preparing'[r] = 1
      BY <1>1, <2>1 DEF Start, RunInv, ReservedOnce, TypeOK
    <3>2. PhaseOf(r) = "absent" /\ PhaseOf(r)' = "pending" BY <2>1, <3>1 DEF PhaseOf
    <3>3. MayLaunch(r) /\ MayLaunch(r)' BY <2>1, <3>1 DEF MayLaunch
    <3>4. WorkOf(r)' = WorkOf(r) BY <3>1, <3>3 DEF WorkOf
    <3> QED BY <3>2, <3>4 DEF RunStep
  <2>2. CASE reserved[r] # "none"
    <3>1. MayLaunch(r)' <=> MayLaunch(r) BY <1>1, <2>2 DEF Start, MayLaunch, At, Idle
    <3> QED BY <1>1, <2>2, <3>1, SameWhen DEF Start
  <2> QED BY <2>1, <2>2
<1>2. CASE PrepareFails(r)
  <2>1. preparing[r] = 1 /\ reserved[r] = "preparing" /\ row[r] = None /\ sup[r].at = "none" /\ child[r] = "none"
        /\ reserved'[r] \in {"preparing", "failed"} /\ preparing'[r] = 0 /\ api = Idle
        /\ UNCHANGED <<row, api, sup, child>>
    BY <1>2 DEF PrepareFails, TypeOK, RunInv, ReservedOnce, LaunchedOnce
  <2>2. ~MayLaunch(r)' /\ MayLaunch(r) BY <2>1 DEF MayLaunch, Idle
  <2>3. WorkOf(r) = "none" /\ WorkOf(r)' = "over" BY <2>1, <2>2, WorkIs, WorkWillBe
  <2>4. PhaseOf(r) = "pending" /\ PhaseOf(r)' \in {"pending", "refused"} BY <2>1 DEF PhaseOf
  <2> QED BY <2>3, <2>4 DEF RunStep
<1>3. CASE Prepare(r)
  <2> DEFINE x == [status |-> "accepted", stop |-> FALSE, claimed |-> FALSE, pid |-> "nobody"]
  <2>0. preparing[r] = 1 /\ reserved[r] = "preparing" /\ row[r] = None
    BY <1>3 DEF Prepare, TypeOK, RunInv, ReservedOnce
  <2>1. row' = [row EXCEPT ![r] = x] /\ api'.at = "claim" /\ api'.run = r /\ child' = child
    BY <1>3, <2>0 DEF Prepare, At
  <2>2. row'[r] # None /\ row'[r].status = "accepted"
    <3>1. x \in Row /\ x.status = "accepted" BY DEF Row, Active, Terminal, Pid
    <3> HIDE DEF x
    <3> QED BY <2>1, <3>1, ServerConstants DEF TypeOK
  <2> HIDE DEF x
  <2>3. MayLaunch(r) /\ MayLaunch(r)' BY <2>0, <2>1 DEF MayLaunch
  <2>4. WorkOf(r)' = WorkOf(r) BY <2>1, <2>3 DEF WorkOf
  <2>5. PhaseOf(r) = "pending" /\ PhaseOf(r)' = "accepted" BY <2>0, <2>2 DEF PhaseOf
  <2> QED BY <2>4, <2>5 DEF RunStep
<1>4. CASE ClaimSpawn(r)
  <2>1. row[r] # None /\ sup[r].at = "none" /\ child[r] = "none" /\ row[r].status = "accepted"
    BY <1>4 DEF ClaimSpawn, RunInv, SpawnedOnce, LaunchedOnce, Handles
  <2>2. child' = child /\ row'[r] # None /\ row'[r].status = row[r].status
    <3> DEFINE x == [row[r] EXCEPT !.claimed = TRUE]
    <3>1. x \in Row /\ x.status = row[r].status BY <2>1 DEF Row
    <3>2. child' = child /\ (row' = row \/ row' = [row EXCEPT ![r] = x]) BY <1>4, <2>1 DEF ClaimSpawn, TypeOK
    <3> HIDE DEF x
    <3> QED BY <2>1, <3>1, <3>2, ServerConstants DEF TypeOK
  <2>3. PhaseOf(r)' = PhaseOf(r) BY <2>1, <2>2, PhaseIs, PhaseWillBe
  <2>4. CASE api'.at = "spawn"
    <3>1. MayLaunch(r) /\ MayLaunch(r)' BY <1>4, <2>4 DEF ClaimSpawn, At, MayLaunch
    <3>2. WorkOf(r)' = WorkOf(r) BY <2>2, <3>1 DEF WorkOf
    <3> QED BY <2>3, <3>2 DEF Same
  <2>5. CASE api'.at = "reply"
    <3>1. reserved'[r] = "ready" /\ preparing'[r] = 0 /\ sup'[r].at = "none"
      BY <1>4, <2>1 DEF ClaimSpawn, TypeOK, RunInv, ReservedOnce
    <3>2. ~MayLaunch(r)' BY <2>5, <3>1 DEF MayLaunch
    <3> QED BY <2>1, <2>2, <2>3, <3>2, GivesUp
  <2> QED BY <1>4, <2>4, <2>5 DEF ClaimSpawn, At
<1>5. CASE SpawnSupervisor(r)
  <2>1. row[r] # None /\ sup[r].at = "none" /\ child[r] = "none" /\ row[r].status = "accepted" /\ child' = child
        /\ preparing[r] = 0 /\ reserved[r] # "none" /\ MayLaunch(r)
    BY <1>5 DEF SpawnSupervisor, RunInv, ReservedOnce, SpawnedOnce, LaunchedOnce, Handles, MayLaunch
  <2>2. CASE sup' = [sup EXCEPT ![r].at = "open"] /\ UNCHANGED row
    <3>1. MayLaunch(r)' BY <2>2 DEF MayLaunch, TypeOK, Supervisor
    <3> QED BY <1>5, <2>1, <2>2, <3>1, SameWhen
  <2>3. CASE SetStatus(r, "failed") /\ At("reply", r) /\ UNCHANGED sup
    <3>1. row'[r] # None /\ row'[r].status = "failed"
      BY <2>1, <2>3, StatusSet DEF Terminal, Ended, StatusIs
    <3>2. ~MayLaunch(r)' BY <1>5, <2>1, <2>3 DEF SpawnSupervisor, At, MayLaunch
    <3>3. WorkOf(r) = "none" /\ WorkOf(r)' = "over" BY <2>1, <3>2, WorkIs, WorkWillBe
    <3>4. PhaseOf(r) = "accepted" /\ PhaseOf(r)' = "failed" BY <2>1, <3>1, PhaseIs, PhaseWillBe
    <3> QED BY <3>3, <3>4 DEF RunStep, Active, Ended
  <2> QED BY <1>5, <2>2, <2>3 DEF SpawnSupervisor
<1>6. CASE RecordPid(r)
  <2>1. row[r] # None BY <1>6 DEF RecordPid, RunInv, SpawnedOnce, Handles
  <2>2. row'[r] # None /\ row'[r].status = row[r].status
    <3>1. [row[r] EXCEPT !.pid = IF @ = "nobody" THEN "launched" ELSE @] \in Row BY <2>1 DEF Row, Pid
    <3> QED BY <1>6, <2>1, <3>1, ServerConstants DEF RecordPid, TypeOK, Row
  <2>3. PhaseOf(r)' = PhaseOf(r) BY <2>1, <2>2, PhaseIs, PhaseWillBe
  <2>4. MayLaunch(r)' <=> MayLaunch(r) BY <1>6 DEF RecordPid, At, MayLaunch
  <2>5. WorkOf(r)' = WorkOf(r) BY <1>6, <2>4 DEF RecordPid, WorkOf
  <2> QED BY <2>3, <2>5 DEF Same
<1>7. CASE Status(r) \/ Stop(r) \/ Spare(r) \/ Reply(r)
  <2>1. MayLaunch(r)' <=> MayLaunch(r) BY <1>7 DEF Status, Stop, Spare, Reply, At, Reading, Idle, MayLaunch
  <2> QED BY <1>7, <2>1, SameWhen DEF Status, Stop, Spare, Reply
<1>8. CASE Judge(r)
  <2>1. row[r] # None BY <1>8 DEF Judge, RunInv, SpawnedOnce, Handles
  <2>2. MayLaunch(r)' <=> MayLaunch(r) BY <1>8 DEF Judge, At, MayLaunch
  <2>3. WorkOf(r)' = WorkOf(r) BY <1>8, <2>2 DEF Judge, WorkOf
  <2>4. CASE row[r].status \in Active
    <3>1. row'[r] # None /\ row'[r].status = "unknown" BY <1>8, <2>1, <2>4, UnknownSet DEF Judge, StatusIs
    <3> QED BY <2>1, <2>3, <2>4, <3>1, PhaseIs, PhaseWillBe DEF RunStep
  <2>5. CASE row[r].status \notin Active
    <3>1. row' = row BY <1>8, <2>1, <2>5, UnknownSet DEF Judge
    <3> QED BY <1>8, <2>2, <3>1, SameWhen DEF Judge
  <2> QED BY <2>4, <2>5
<1>9. CASE WriteStop(r)
  <2>1. row[r] # None BY <1>9 DEF WriteStop, RunInv, SpawnedOnce, Handles
  <2>2. row'[r] # None /\ row'[r].status = "stopping"
    <3>1. [row[r] EXCEPT !.stop = TRUE, !.status = "stopping"] \in Row BY <2>1 DEF Row, Active
    <3> QED BY <1>9, <2>1, <3>1, ServerConstants DEF WriteStop, TypeOK, Row
  <2>3. MayLaunch(r)' <=> MayLaunch(r) BY <1>9 DEF WriteStop, Idle, MayLaunch
  <2>4. WorkOf(r)' = WorkOf(r) BY <1>9, <2>3 DEF WriteStop, WorkOf
  <2>5. PhaseOf(r) \in Active \cup Terminal /\ PhaseOf(r)' = "stopping" BY <2>1, <2>2, PhaseIs, PhaseWillBe DEF Row
  <2> QED BY <2>4, <2>5 DEF RunStep
<1> QED BY <1>1, <1>2, <1>3, <1>4, <1>5, <1>6, <1>7, <1>8, <1>9 DEF Request, Continue

\* Once there is a supervisor, nobody else launches the command.
LEMMA Launches ==
  ASSUME TypeOK, NEW r \in Run, RunInv(r), sup[r].at # "none", UNCHANGED <<reserved, preparing, api>>
  PROVE  /\ MayLaunch(r) <=> sup[r].at \in BeforeLaunch
         /\ MayLaunch(r)' <=> sup'[r].at \in BeforeLaunch
BY DEF MayLaunch, BeforeLaunch, RunInv, ReservedOnce, SpawnedOnce, Handles, TypeOK

\* The supervisor moves on and the command is as it was.
LEMMA WorkMoves ==
  ASSUME TypeOK, NEW r \in Run, RunInv(r), sup[r].at # "none", UNCHANGED <<reserved, preparing, api, child>>
  PROVE  /\ (sup'[r].at \in BeforeLaunch <=> sup[r].at \in BeforeLaunch) => WorkOf(r)' = WorkOf(r)
         /\ sup'[r].at \notin BeforeLaunch => WorkOf(r)' = WorkOf(r) \/ (WorkOf(r) = "none" /\ WorkOf(r)' = "over")
<1>1. (sup'[r].at \in BeforeLaunch <=> sup[r].at \in BeforeLaunch) => WorkOf(r)' = WorkOf(r)
  BY Launches DEF WorkOf
<1>2. ASSUME sup'[r].at \notin BeforeLaunch, sup[r].at \in BeforeLaunch PROVE WorkOf(r) = "none" /\ WorkOf(r)' = "over"
  <2>1. child[r] = "none" /\ child'[r] = "none" BY <1>2 DEF RunInv, LaunchedOnce
  <2> QED BY <1>2, <2>1, Launches, WorkIs, WorkWillBe
<1> QED BY <1>1, <1>2

LEMMA SupervisorStep ==
  ASSUME IInv, NEW r \in Run, Supervise(r) \/ Fault(r)
  PROVE  RunStep(r) \/ Same(r)
<1> TypeOK /\ RunInv(r) BY DEF IInv
<1>r. row[r] # None => row[r] \in Row BY DEF TypeOK
\* Steps that leave the row and the command alone.
<1>q. ASSUME sup[r].at # "none", UNCHANGED <<reserved, preparing, api, child, row>>,
             sup'[r].at \notin BeforeLaunch \/ (sup'[r].at \in BeforeLaunch /\ sup[r].at \in BeforeLaunch)
      PROVE  RunStep(r) \/ Same(r)
  <2>1. PhaseOf(r)' = PhaseOf(r) BY <1>q DEF PhaseOf
  <2>2. WorkOf(r)' = WorkOf(r) \/ (WorkOf(r) = "none" /\ WorkOf(r)' = "over") BY <1>q, WorkMoves
  <2> QED BY <2>1, <2>2 DEF RunStep, Same
<1>o. ASSUME sup[r].at \in Registered \cup {"register"}
      PROVE  row[r] # None /\ row[r].status \in Active \cup {"unknown"}
  <2>1. row[r] # None BY <1>o, SupervisedRow DEF Registered
  <2>2. ~HasStatus(r, Ended) BY <1>o DEF RunInv, EndedLast, Registered
  <2> QED BY <1>r, <2>1, <2>2 DEF HasStatus, Row, Terminal
<1>1. CASE Open(r)
  <2>1. sup[r].at = "open" /\ sup'[r].at \in {"close", "register"} BY <1>1, StepMoves DEF Open, Moves
  <2> QED BY <1>1, <2>1, <1>q DEF Open, BeforeLaunch
<1>2. CASE Register(r)
  <2>1. sup[r].at = "register" /\ sup'[r].at = "check" BY <1>2, StepMoves DEF Register, Moves
  <2>2. row[r] # None /\ row[r].status \in Active \cup {"unknown"} BY <2>1, <1>o
  <2>3. row'[r] # None /\ row'[r].status = "starting"
    <3> DEFINE x == [row[r] EXCEPT !.status = "starting", !.pid = "registered"]
    <3>1. RowChange(r, x) BY <1>2, <1>r, <2>2 DEF Register, RowChange, Row, TypeOK, Active, Pid
    <3>2. x.status = "starting" BY <1>r, <2>2 DEF Row
    <3> HIDE DEF x
    <3> QED BY <3>1, <3>2, RowChanged
  <2>4. WorkOf(r)' = WorkOf(r) BY <1>2, <2>1, WorkMoves DEF Register, BeforeLaunch
  <2> QED BY <2>2, <2>3, <2>4, PhaseIs, PhaseWillBe DEF RunStep
<1>3. CASE Check(r)
  <2>1. sup[r].at = "check" /\ sup'[r].at \in {"write", "launch"}
    BY <1>3, StepMoves, ConcludeMoves DEF Check, Moves, Terminal, Ended
  <2> QED BY <1>3, <2>1, <1>q DEF Check, BeforeLaunch
<1>4. CASE Launch(r)
  <2>1. sup[r].at = "launch" /\ row[r] # None /\ row[r].status \in Active \cup {"unknown"} /\ child[r] = "none"
    BY <1>4, <1>o DEF Launch, Step, Conclude, Registered, RunInv, LaunchedOnce, BeforeLaunch
  <2>2. CASE Step(r, "launch", "report") /\ child' = [child EXCEPT ![r] = "running"]
    <3>1. WorkOf(r) = "none" /\ WorkOf(r)' = "running"
      <4>1. child'[r] = "running" BY <2>2 DEF TypeOK
      <4>2. MayLaunch(r) BY <2>1 DEF MayLaunch
      <4> QED BY <2>1, <4>1, <4>2, WorkIs, WorkWillBe
    <3>2. PhaseOf(r)' = PhaseOf(r) BY <1>4 DEF Launch, PhaseOf
    <3> QED BY <2>1, <3>1, <3>2, PhaseIs DEF RunStep
  <2>3. CASE UNCHANGED child /\ \E verdict \in {"unknown", "failed"} : Conclude(r, "launch", verdict)
    <3>1. sup'[r].at = "write" BY <2>3, ConcludeMoves DEF Moves, Terminal, Ended
    <3> QED BY <1>4, <2>1, <2>3, <3>1, <1>q DEF Launch, BeforeLaunch
  <2> QED BY <1>4, <2>2, <2>3 DEF Launch
<1>5. CASE Report(r)
  <2>1. sup[r].at = "report" /\ sup'[r].at = "watch" BY <1>5, StepMoves DEF Report, Moves
  <2>2. row[r] # None /\ row[r].status \in Active \cup {"unknown"} BY <2>1, <1>o DEF Registered
  <2>3. StatusIs(r, "running") BY <1>5, <2>2, StatusSet DEF Report, Active
  <2>4. WorkOf(r)' = WorkOf(r) BY <1>5, <2>1, WorkMoves DEF Report, BeforeLaunch
  <2> QED BY <2>2, <2>3, <2>4, PhaseIs, PhaseWillBe DEF RunStep, StatusIs
<1>6. CASE Watch(r)
  <2>1. sup[r].at = "watch" /\ sup'[r].at \in {"kill", "poll"} BY <1>6, StepMoves DEF Watch, Moves
  <2> QED BY <1>6, <2>1, <1>q DEF Watch, BeforeLaunch
<1>7. CASE Kill(r)
  <2>1. sup[r].at = "kill" /\ sup'[r].at = "write" BY <1>7, ConcludeMoves DEF Kill, Moves, Terminal, Ended
  <2>2. PhaseOf(r)' = PhaseOf(r) BY <1>7 DEF Kill, PhaseOf
  <2>3. child'[r] # "running" /\ (child[r] # "running" => child'[r] = child[r] \/ child'[r] = "exited")
    BY <1>7 DEF Kill, TypeOK
  <2>4. ~MayLaunch(r) /\ ~MayLaunch(r)' BY <1>7, <2>1, Launches DEF Kill, BeforeLaunch
  <2>5. WorkOf(r)' = "over" /\ WorkOf(r) \in {"running", "over"} BY <2>3, <2>4, WorkIs, WorkWillBe
  <2> QED BY <2>2, <2>5 DEF RunStep, Same
<1>8. CASE Poll(r)
  <2>1. sup[r].at = "poll" /\ sup'[r].at \in {"watch", "write"}
    BY <1>8, StepMoves, ConcludeMoves DEF Poll, Moves, Terminal, Ended
  <2> QED BY <1>8, <2>1, <1>q DEF Poll, BeforeLaunch
<1>9. CASE Write(r)
  <2>1. sup[r].at = "write" /\ sup'[r].at = "close" BY <1>9, StepMoves DEF Write, Moves
  <2>2. row[r] # None /\ row[r].status \in Active \cup {"unknown"} BY <2>1, <1>o DEF Registered
  <2>3. StatusIs(r, sup[r].verdict) /\ sup[r].verdict \in Terminal
    <3>1. sup[r].verdict \in Terminal BY DEF TypeOK, Supervisor
    <3> QED BY <1>9, <2>2, <3>1, StatusSet DEF Write
  <2>4. WorkOf(r)' = WorkOf(r) BY <1>9, <2>1, WorkMoves DEF Write, BeforeLaunch
  <2>5. PhaseOf(r) \in Active \cup {"unknown"} /\ PhaseOf(r)' = sup[r].verdict BY <2>2, <2>3, PhaseIs, PhaseWillBe DEF StatusIs
  <2>6. CASE sup[r].verdict \in Ended
    <3>1. child[r] # "running" BY <2>1, <2>6 DEF RunInv, LaunchedOnce
    <3>2. ~MayLaunch(r) BY <1>9, <2>1, Launches DEF Write, BeforeLaunch
    <3>3. WorkOf(r) = "over" BY <3>1, <3>2, WorkIs
    <3> QED BY <2>4, <2>5, <2>6, <3>3 DEF RunStep
  <2>7. CASE sup[r].verdict = "unknown" BY <2>4, <2>5, <2>7 DEF RunStep
  <2> QED BY <2>3, <2>6, <2>7 DEF Terminal
<1>10. CASE Close(r)
  <2>1. sup[r].at = "close" /\ sup'[r].at = "gone" BY <1>10, StepMoves DEF Close, Moves
  <2> QED BY <1>10, <2>1, <1>q DEF Close, BeforeLaunch
<1>11. CASE Error(r)
  <2>1. sup[r].at \in Registered \cup {"register"} /\ sup'[r].at = "close"
    BY <1>11 DEF Error, TypeOK, Supervisor, Registered
  <2>2. row[r] # None /\ row[r].status \in Active \cup {"unknown"} BY <2>1, <1>o
  <2>3. WorkOf(r)' = WorkOf(r) \/ (WorkOf(r) = "none" /\ WorkOf(r)' = "over")
    BY <1>11, <2>1, WorkMoves DEF Error, BeforeLaunch, Registered
  <2>4. row'[r] # None /\ row'[r].status = "unknown"
    BY <1>11, <2>2, UnknownSet DEF Error, StatusIs, Active
  <2> QED BY <2>2, <2>3, <2>4, PhaseIs, PhaseWillBe DEF RunStep
<1>12. CASE SupervisorCrash(r)
  <2>1. sup[r].at # "none" /\ sup'[r].at = "gone" BY <1>12 DEF SupervisorCrash, TypeOK, Supervisor
  <2> QED BY <1>12, <2>1, <1>q DEF SupervisorCrash, BeforeLaunch
<1>13. CASE ChildExit(r)
  <2>1. PhaseOf(r)' = PhaseOf(r) BY <1>13 DEF ChildExit, PhaseOf
  <2>2. child[r] \in {"running", "ignoring"} /\ child'[r] = "exited" BY <1>13 DEF ChildExit, TypeOK
  <2>3. WorkOf(r) \in {"running", "over"} /\ WorkOf(r)' = "over" BY <2>2, WorkIs, WorkWillBe
  <2> QED BY <2>1, <2>3 DEF RunStep, Same
<1> QED BY <1>1, <1>2, <1>3, <1>4, <1>5, <1>6, <1>7, <1>8, <1>9, <1>10, <1>11, <1>12, <1>13 DEF Supervise, Fault

\* A crash of the API process takes their chances from the runs it was about to launch.
LEMMA CrashStep == ASSUME IInv, ApiCrash PROVE [Remote!Next]_(Remote!vars)
<1> DEFINE P == [r \in Run |-> PhaseOf(r)]
           W == [r \in Run |-> WorkOf(r)]
           some == {r \in Run : WorkOf(r) = "none" /\ ~MayLaunch(r)'}
<1>1. P' = P BY DEF ApiCrash, PhaseOf
<1>2. ASSUME NEW r \in Run PROVE WorkOf(r)' = IF r \in some THEN "over" ELSE WorkOf(r)
  <2>1. child' = child BY DEF ApiCrash
  <2>2. MayLaunch(r)' => MayLaunch(r) BY DEF ApiCrash, MayLaunch, Idle
  <2>3. CASE r \in some
    <3>1. child[r] = "none" BY <2>3, WorkIs DEF WorkOf
    <3> QED BY <2>1, <2>3, <3>1, WorkWillBe
  <2>4. CASE r \notin some
    <3>1. child[r] = "none" /\ MayLaunch(r) => MayLaunch(r)' BY <2>4, WorkIs
    <3> QED BY <2>1, <2>2, <2>4, <3>1 DEF WorkOf
  <2> QED BY <2>3, <2>4
<1>3. W' = [r \in Run |-> IF r \in some THEN "over" ELSE W[r]] BY <1>2
<1>4. \A r \in some : W[r] = "none" OBVIOUS
<1>5. some \in SUBSET Run OBVIOUS
<1>6. Remote!GiveUp(some) BY <1>1, <1>3, <1>4 DEF Remote!GiveUp
<1> QED BY <1>5, <1>6 DEF Remote!Next

LEMMA RemoteInit == ASSUME Init PROVE Remote!Init
<1>1. ASSUME NEW r \in Run PROVE PhaseOf(r) = "absent" /\ WorkOf(r) = "none"
  BY <1>1 DEF Init, PhaseOf, WorkOf, MayLaunch
<1> QED BY <1>1 DEF Remote!Init

\* The server keeps the promise of RemoteRun: a run works at most once, and when
\* it is said to have ended, it does not work and never will.
THEOREM ImplementsRemoteRunHolds == Spec => ImplementsRemoteRun
<1>1. Init => Remote!Init BY RemoteInit
<1>2. IInv /\ [Next]_vars => [Remote!Next]_(Remote!vars)
  <2>1. ASSUME IInv, NEW r \in Run, StepOf(r) PROVE [Remote!Next]_(Remote!vars)
    <3>1. Sound(r) BY <2>1, StepSound DEF IInv
    <3>2. \A q \in Run \ {r} : Same(q) BY <3>1, OthersSame DEF Sound
    <3>3. RunStep(r) \/ Same(r) BY <2>1, RequestStep, SupervisorStep DEF StepOf
    <3> QED BY <3>2, <3>3, RemoteStep
  <2>2. ASSUME IInv, ApiCrash PROVE [Remote!Next]_(Remote!vars) BY <2>2, CrashStep
  <2>3. ASSUME UNCHANGED vars PROVE UNCHANGED Remote!vars
    <3>1. ASSUME NEW r \in Run PROVE PhaseOf(r)' = PhaseOf(r) /\ WorkOf(r)' = WorkOf(r)
      BY <2>3 DEF vars, PhaseOf, WorkOf, MayLaunch
    <3> QED BY <3>1 DEF Remote!vars
  <2> QED BY <2>1, <2>2, <2>3 DEF Next, StepOf
<1> QED BY <1>1, <1>2, ServerInvariant, PTL DEF Spec, ImplementsRemoteRun, Remote!Spec

-----------------------------------------------------------------------------
(* Progress of a stop *)

\* How many statements a supervisor has before it, once its run is to stop.
Left == [none |-> 11, open |-> 10, register |-> 9, check |-> 8, launch |-> 7, report |-> 6, poll |-> 5,
         watch |-> 4, kill |-> 3, write |-> 2, close |-> 1, gone |-> 0]

Nearer(r) == Left[sup'[r].at] < Left[sup[r].at]
NoFarther(r) == sup'[r].at = sup[r].at \/ Nearer(r)

\* A row that is there stays, and so does a stop that was asked for.
StopKept(r) == Stopping(r) => Stopping(r)'

LEMMA StatusKeepsStop ==
  ASSUME NEW r \in Run, NEW status, StatusIs(r, status)
  PROVE  StopKept(r)
BY DEF StatusIs, StopKept, Stopping

LEMMA SupervisePresses ==
  ASSUME TypeOK, NEW r \in Run, RunInv(r), Supervise(r), Stopping(r)
  PROVE  Stopping(r)' /\ Nearer(r)
<1> row[r] # None /\ row[r].stop BY DEF Stopping
<1>1. CASE Open(r)
  <2>1. Moves(r, IF HasStatus(r, Terminal) THEN "close" ELSE "register") /\ sup[r].at = "open"
    BY <1>1, StepMoves DEF Open
  <2> QED BY <1>1, <2>1 DEF Open, Moves, Nearer, Left, Stopping
<1>2. CASE Register(r)
  <2>1. Moves(r, "check") /\ sup[r].at = "register" BY <1>2, StepMoves DEF Register
  <2>2. row[r] \in Row BY DEF TypeOK
  <2>3. row'[r] = [row[r] EXCEPT !.status = "starting", !.pid = "registered"] BY <1>2 DEF Register, TypeOK
  <2>4. row'[r] \in Row /\ row'[r].stop BY <2>2, <2>3 DEF Row, Active, Pid
  <2> QED BY <2>1, <2>4, ServerConstants DEF Moves, Nearer, Left, Stopping
<1>3. CASE Check(r)
  <2>1. Moves(r, "write") /\ sup[r].at = "check" BY <1>3, ConcludeMoves DEF Check, Terminal, Ended
  <2> QED BY <1>3, <2>1 DEF Check, Moves, Nearer, Left, Stopping
<1>4. CASE Launch(r)
  <2>1. (Moves(r, "report") \/ Moves(r, "write")) /\ sup[r].at = "launch"
    BY <1>4, StepMoves, ConcludeMoves DEF Launch, Terminal, Ended
  <2> QED BY <1>4, <2>1 DEF Launch, Moves, Nearer, Left, Stopping
<1>5. CASE Report(r)
  <2>1. Moves(r, "watch") /\ sup[r].at = "report" BY <1>5, StepMoves DEF Report
  <2>2. StatusIs(r, "running") BY <1>5, StatusSet DEF Report, Active
  <2> QED BY <2>1, <2>2, StatusKeepsStop DEF StopKept, Moves, Nearer, Left
<1>6. CASE Watch(r)
  <2>1. Moves(r, "kill") /\ sup[r].at = "watch" BY <1>6, StepMoves DEF Watch
  <2> QED BY <1>6, <2>1 DEF Watch, Moves, Nearer, Left, Stopping
<1>7. CASE Kill(r)
  <2>1. Moves(r, "write") /\ sup[r].at = "kill" BY <1>7, ConcludeMoves DEF Kill, Terminal, Ended
  <2> QED BY <1>7, <2>1 DEF Kill, Moves, Nearer, Left, Stopping
<1>8. CASE Poll(r)
  <2>1. (Moves(r, "watch") \/ Moves(r, "write")) /\ sup[r].at = "poll"
    BY <1>8, StepMoves, ConcludeMoves DEF Poll, Terminal, Ended
  <2> QED BY <1>8, <2>1 DEF Poll, Moves, Nearer, Left, Stopping
<1>9. CASE Write(r)
  <2>1. Moves(r, "close") /\ sup[r].at = "write" BY <1>9, StepMoves DEF Write
  <2>2. sup[r].verdict \in Active \cup Terminal BY DEF TypeOK, Supervisor
  <2>3. StatusIs(r, sup[r].verdict) BY <1>9, <2>2, StatusSet DEF Write
  <2> QED BY <2>1, <2>3, StatusKeepsStop DEF StopKept, Moves, Nearer, Left
<1>10. CASE Close(r)
  <2>1. Moves(r, "gone") /\ sup[r].at = "close" BY <1>10, StepMoves DEF Close
  <2> QED BY <1>10, <2>1 DEF Close, Moves, Nearer, Left, Stopping
<1> QED BY <1>1, <1>2, <1>3, <1>4, <1>5, <1>6, <1>7, <1>8, <1>9, <1>10 DEF Supervise

LEMMA StepNoFarther ==
  ASSUME TypeOK, NEW r \in Run, RunInv(r), StepOf(r), Stopping(r)
  PROVE  Stopping(r)' /\ NoFarther(r)
<1> row[r] # None /\ row[r] \in Row /\ row[r].stop BY DEF Stopping, TypeOK
<1>1. CASE Request(r)
  BY <1>1 DEF Request, Start, PrepareFails, Prepare, Status, Stop, NoFarther, Stopping
<1>2. CASE ClaimSpawn(r)
  <2>1. sup' = sup BY <1>2 DEF ClaimSpawn
  <2>2. row'[r] = row[r] \/ row'[r] = [row[r] EXCEPT !.claimed = TRUE] BY <1>2 DEF ClaimSpawn, TypeOK
  <2>3. row'[r] \in Row /\ row'[r].stop BY <2>2 DEF Row
  <2> QED BY <2>1, <2>3, ServerConstants DEF NoFarther, Stopping
<1>3. CASE SpawnSupervisor(r)
  <2>1. sup[r].at = "none" BY <1>3 DEF SpawnSupervisor, RunInv, SpawnedOnce, Handles
  <2>2. CASE sup' = [sup EXCEPT ![r].at = "open"] /\ UNCHANGED row
    BY <2>1, <2>2 DEF TypeOK, Supervisor, NoFarther, Nearer, Left, Stopping
  <2>3. CASE SetStatus(r, "failed") /\ UNCHANGED sup
    <3>1. StatusIs(r, "failed") BY <2>3, StatusSet DEF Terminal, Ended
    <3> QED BY <2>3, <3>1, StatusKeepsStop DEF StopKept, NoFarther
  <2> QED BY <1>3, <2>2, <2>3 DEF SpawnSupervisor
<1>4. CASE RecordPid(r)
  <2>1. sup' = sup BY <1>4 DEF RecordPid
  <2>2. PICK p \in Pid : row'[r] = [row[r] EXCEPT !.pid = p] BY <1>4 DEF RecordPid, TypeOK, Row, Pid
  <2>3. row'[r] \in Row /\ row'[r].stop BY <2>2 DEF Row
  <2> QED BY <2>1, <2>3, ServerConstants DEF NoFarther, Stopping
<1>5. CASE WriteStop(r)
  <2>1. sup' = sup BY <1>5 DEF WriteStop
  <2>2. row'[r] = [row[r] EXCEPT !.stop = TRUE, !.status = "stopping"] BY <1>5 DEF WriteStop, TypeOK
  <2>3. row'[r] \in Row /\ row'[r].stop BY <2>2 DEF Row, Active
  <2> QED BY <2>1, <2>3, ServerConstants DEF NoFarther, Stopping
<1>6. CASE Reply(r) \/ Spare(r) BY <1>6 DEF Reply, Spare, NoFarther, Stopping
<1>7. CASE Judge(r)
  <2>1. PICK status : StatusIs(r, status) BY <1>7, UnknownSet DEF Judge
  <2> QED BY <1>7, <2>1, StatusKeepsStop DEF StopKept, Judge, NoFarther
<1>8. CASE Supervise(r) BY <1>8, SupervisePresses DEF NoFarther
<1>9. CASE Error(r)
  <2>1. PICK status : StatusIs(r, status) BY <1>9, UnknownSet DEF Error
  <2>2. sup[r] \in Supervisor /\ sup'[r].at = "close" BY <1>9 DEF Error, TypeOK, Supervisor
  <2>3. Nearer(r) BY <1>9, <2>2 DEF Error, Supervisor, Nearer, Left
  <2> QED BY <2>1, <2>3, StatusKeepsStop DEF StopKept, NoFarther
<1>10. CASE SupervisorCrash(r)
  <2>1. sup[r] \in Supervisor /\ sup'[r].at = "gone" BY <1>10 DEF SupervisorCrash, TypeOK, Supervisor
  <2>2. Nearer(r) BY <1>10, <2>1 DEF SupervisorCrash, Supervisor, Nearer, Left
  <2> QED BY <1>10, <2>2 DEF SupervisorCrash, NoFarther, Stopping
<1>11. CASE ChildExit(r) BY <1>11 DEF ChildExit, NoFarther, Stopping
<1> QED BY <1>1, <1>2, <1>3, <1>4, <1>5, <1>6, <1>7, <1>8, <1>9, <1>10, <1>11 DEF StepOf, Continue, Fault

\* The core of Settles, without fairness: a stop that was asked for stays asked
\* for, no step of any process, an error or a crash takes the supervisor of the
\* run away from its end, and each step of its own brings it nearer, even where
\* the command goes on for ever.
THEOREM StopPresses ==
  Spec => [][\A r \in Run : Stopping(r) =>
               /\ Stopping(r)' /\ NoFarther(r)
               /\ Supervise(r) => Nearer(r)]_vars
<1>1. IInv /\ [Next]_vars =>
        [\A r \in Run : Stopping(r) =>
           /\ Stopping(r)' /\ NoFarther(r)
           /\ Supervise(r) => Nearer(r)]_vars
  <2> SUFFICES ASSUME IInv, Next, NEW r \in Run, Stopping(r)
               PROVE  Stopping(r)' /\ NoFarther(r) /\ (Supervise(r) => Nearer(r))
    OBVIOUS
  <2> TypeOK /\ RunInv(r) BY DEF IInv
  <2>1. CASE Supervise(r) BY <2>1, SupervisePresses DEF NoFarther
  <2>2. CASE ApiCrash /\ ~Supervise(r) BY <2>2 DEF ApiCrash, NoFarther, Stopping
  <2>3. ASSUME NEW q \in Run, StepOf(q), ~Supervise(r)
        PROVE  Stopping(r)' /\ NoFarther(r) /\ (Supervise(r) => Nearer(r))
    <3>1. CASE q = r BY <2>3, <3>1, StepNoFarther
    <3>2. CASE q # r
      <4>1. Sound(q) BY <2>3, StepSound DEF IInv
      <4>2. row'[r] = row[r] /\ sup'[r] = sup[r] BY <3>2, <4>1 DEF Sound, Only
      <4> QED BY <2>3, <4>2 DEF NoFarther, Stopping
    <3> QED BY <3>1, <3>2
  <2> QED BY <2>1, <2>2, <2>3 DEF Next, StepOf
<1> QED BY <1>1, ServerInvariant, PTL DEF Spec
=============================================================================
