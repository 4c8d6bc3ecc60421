------------------------------ MODULE RemoteRun ------------------------------
(***************************************************************************)
(* What the server promises about the runs of App Actions: the work of a   *)
(* run is done at most once, and a run that is said to have ended does not *)
(* work any more.                                                          *)
(*                                                                         *)
(* ActionServer implements this; ActionRuns, the record of runs in the     *)
(* database, relies on nothing else.                                       *)
(***************************************************************************)
CONSTANTS Run

VARIABLES
  phase,  \* per run, what a status request would say
  work    \* per run, whether its command is still to be launched, works, or is over

vars == <<phase, work>>

Active == {"accepted", "starting", "running", "stopping"}
Ended == {"succeeded", "failed", "cancelled"}
Phase == {"absent", "pending", "refused", "unknown"} \cup Active \cup Ended

Init ==
  /\ phase = [r \in Run |-> "absent"]
  /\ work = [r \in Run |-> "none"]

\* A start was received and reserved.
Start(r) ==
  /\ phase[r] = "absent"
  /\ phase' = [phase EXCEPT ![r] = "pending"]
  /\ UNCHANGED work

\* Its runtime was put together, or could not be.
Prepare(r) ==
  /\ phase[r] = "pending"
  /\ \/ phase' = [phase EXCEPT ![r] = "accepted"] /\ UNCHANGED work
     \/ phase' = [phase EXCEPT ![r] = "refused"] /\ work' = [work EXCEPT ![r] = "over"]

Launch(r) ==
  /\ phase[r] \in Active \cup {"unknown"}
  /\ work[r] = "none"
  /\ work' = [work EXCEPT ![r] = "running"]
  /\ UNCHANGED phase

Exit(r) ==
  /\ work[r] = "running"
  /\ work' = [work EXCEPT ![r] = "over"]
  /\ UNCHANGED phase

\* Nobody is left who could launch these.
GiveUp(some) ==
  /\ \A r \in some : work[r] = "none"
  /\ work' = [r \in Run |-> IF r \in some THEN "over" ELSE work[r]]
  /\ UNCHANGED phase

\* A sign of life, or the lack of one.  A run that was thought lost may be heard of again.
Report(r) ==
  /\ phase[r] \in Active \cup {"unknown"}
  /\ \E p \in {"starting", "running", "unknown"} : phase' = [phase EXCEPT ![r] = p]
  /\ \/ UNCHANGED work
     \/ work[r] = "none" /\ work' = [work EXCEPT ![r] = "over"]

End(r) ==
  /\ phase[r] \in Active \cup {"unknown"}
  /\ work[r] # "running"
  /\ \E p \in Ended : phase' = [phase EXCEPT ![r] = p]
  /\ work' = [work EXCEPT ![r] = "over"]

\* A stop that was decided on before the run ended may still be written after it.
Stop(r) ==
  /\ phase[r] \in Active \cup Ended \cup {"unknown"}
  /\ phase' = [phase EXCEPT ![r] = "stopping"]
  /\ UNCHANGED work

Progress(r) == Prepare(r) \/ Launch(r) \/ Exit(r) \/ Report(r) \/ End(r)
Next ==
  \/ \E r \in Run : Start(r) \/ Progress(r) \/ Stop(r)
  \/ \E some \in SUBSET Run : GiveUp(some)
Spec == Init /\ [][Next]_vars
=============================================================================
