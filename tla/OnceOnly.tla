------------------------------ MODULE OnceOnly ------------------------------
(***************************************************************************)
(* What POST /ops promises for one op_id: it is decided at most once, for  *)
(* one request, and never after it was refused as retired; every answer    *)
(* that reports a decision reports that one, and to that request.          *)
(***************************************************************************)
CONSTANTS
  OpId,
  Request,
  IdOf,       \* [Request -> OpId]
  Decision,   \* the statuses a receipt may have
  Undecided

VARIABLES
  outcome,    \* per op_id, the request it was decided for and what was decided
  answered,   \* the decisions reported, with the request they were reported to
  refused     \* the op_ids refused as retired

Init ==
  /\ outcome = [o \in OpId |-> Undecided]
  /\ answered = {}
  /\ refused = {}

Decide(q, v) ==
  /\ outcome[IdOf[q]] = Undecided
  /\ IdOf[q] \notin refused
  /\ outcome' = [outcome EXCEPT ![IdOf[q]] = [status |-> v, mac |-> q]]
  /\ UNCHANGED <<answered, refused>>

Report(q) ==
  /\ outcome[IdOf[q]] # Undecided
  /\ outcome[IdOf[q]].mac = q
  /\ answered' = answered \cup {<<q, outcome[IdOf[q]].status>>}
  /\ UNCHANGED <<outcome, refused>>

\* An operation may be refused although it was decided: nobody remembers.
Refuse(q) ==
  /\ refused' = refused \cup {IdOf[q]}
  /\ UNCHANGED <<outcome, answered>>

Next == \E q \in Request : Report(q) \/ Refuse(q) \/ \E v \in Decision : Decide(q, v)

Spec == Init /\ [][Next]_<<outcome, answered, refused>>
=============================================================================
