------------------------------- MODULE SyncOps -------------------------------
(***************************************************************************)
(* POST /api/sync/v3/ops: concurrent request handlers that apply the       *)
(* operations of offline clients, each in one transaction with its         *)
(* receipt, and the retirement of receipts below a device's floor.         *)
(*                                                                         *)
(* A request handler ("worker") raises the floor of the device, then takes *)
(* the operations of the body one at a time.  Clients may send any         *)
(* operation at any time, any number of times and with any floor: the      *)
(* network duplicates and delays.  Transactions are READ COMMITTED: every  *)
(* statement sees what is committed when it runs, and a row that is        *)
(* written is locked until the transaction ends.                           *)
(*                                                                         *)
(* The lock on an operation's entity does not cover all that it writes: an *)
(* operation changes other rows too (a timer that is started stops another *)
(* one, a deleted task takes its time entries along), and the REST routes, *)
(* the agents and the workers of the application write without it.         *)
(***************************************************************************)
EXTENDS Integers, FiniteSets

CONSTANTS
  Worker,
  Device,
  OpId,
  Entity,
  Request,     \* the operations as they are sent; equal ones have equal request_mac
  IdOf,        \* [Request -> OpId]
  DeviceOf,    \* [OpId -> Device]: a client allocates op_id, device and op_seq together
  SeqOf,       \* [OpId -> Nat]
  ActionOf,    \* [Request -> Action]
  EntityOf,    \* [Request -> Entity]
  AlsoOf,      \* [Request -> SUBSET SUBSET Entity]: the sets of other rows it may change
  BaseOf,      \* [Request -> Nat \cup {NoBase}]: base.updated_at
  NoBase,
  NoRequest,
  NoReceipt,
  Present,     \* the entities whose rows are there at the start
  MaxFloor,    \* bound: the largest retirement_floor sent
  MaxOther,    \* bound, [Entity -> Nat]: how often others write a row
  MaxBoth      \* bound: the largest floor and how often others write a row, together

Applied == {"applied"}    \* "applied_partial" is one more of these
Decision == Applied \cup {"rejected"}

\* put and archive are what others do to a Docs row, pin and erase what update and
\* delete do to a conversation.
Action == {"create", "update", "delete", "restore", "put", "archive", "pin", "erase"}

\* The applier reads the row of these FOR UPDATE.  Of the others it goes by the
\* row as it was read without a lock, and locks it to write it.
ReadsLocked == {"pin", "erase"}

ASSUME OpsConstants ==
  /\ IsFiniteSet(OpId)
  /\ IdOf \in [Request -> OpId]
  /\ DeviceOf \in [OpId -> Device]
  /\ SeqOf \in [OpId -> Nat]
  /\ ActionOf \in [Request -> Action]
  /\ EntityOf \in [Request -> Entity]
  /\ AlsoOf \in [Request -> SUBSET SUBSET Entity]
  /\ \A q \in Request : EntityOf[q] \notin UNION AlsoOf[q]
  /\ BaseOf \in [Request -> Nat \cup {NoBase}]
  /\ NoRequest \notin Request
  /\ NoReceipt \notin [status : Decision, mac : Request]
  /\ MaxFloor \in Nat
  /\ MaxOther \in [Entity -> Nat]
  /\ MaxBoth \in Nat

VARIABLES
  receipts,   \* sync_op_receipts: per op_id its record, or NoReceipt
  floor,      \* sync_device_floors
  row,        \* per entity, its updated_at as the number of committed writes, and its status
  pc,         \* per worker, where it is
  req,        \* per worker, the operation it handles
  sentFloor,  \* per worker, the retirement_floor of the body
  record,     \* per worker, the record it will store or report
  callbacks,  \* per worker, whether after_commit has a callback
  basis,      \* per worker, its row as it read it
  todo,       \* per worker, the rows it has yet to write
  writes,     \* per worker, the rows its transaction has written, and so locked
  overtaken,  \* history: per worker, TRUE when its row was written without the entity
              \* lock after the worker had read it and before it locked it
  outcome,    \* history: per op_id, the record first committed for it, or NoReceipt
  answered,   \* history: the <<request, status>> reported from a record
  cleaned,    \* history: per op_id, how often its after_commit callbacks ran
  refused,    \* history: the op_ids refused as retired
  effect,     \* history: per op_id, the rows it has changed
  other       \* history: per entity, how often others wrote its row

database == <<receipts, floor, row>>
txn == <<basis, todo, writes, overtaken>>
local == <<req, record, callbacks, txn>>
history == <<outcome, answered, cleaned, refused, effect, other>>
vars == <<database, pc, sentFloor, local, history>>

\* deleted: a tombstone; absent: never created, or purged.
Row == [version : Nat, status : {"absent", "live", "deleted"}]
NoRow == [version |-> 0, status |-> "absent"]
Receipt == [status : Decision, mac : Request]

\* The two advisory locks last until the transaction ends.
OpLocked == {"lookup", "floor", "entity", "apply", "write", "insert", "reject"}
EntityLocked == {"apply", "write", "insert"}
InOp == OpLocked \cup {"oplock", "done", "reply"}

Id(w) == IdOf[req[w]]
Own(w) == EntityOf[req[w]]
Retired(o) == SeqOf[o] < floor[DeviceOf[o]]

\* The transaction ends: its row locks are released.
EndTxn(w) ==
  /\ basis' = [basis EXCEPT ![w] = NoRow]
  /\ todo' = [todo EXCEPT ![w] = {}]
  /\ writes' = [writes EXCEPT ![w] = {}]
  /\ overtaken' = [overtaken EXCEPT ![w] = FALSE]

\* Mutant: the handler is left but its place in the body is not.
EndKeepsPlace(w, where) ==
  /\ UNCHANGED pc
  /\ req' = [req EXCEPT ![w] = NoRequest]
  /\ record' = [record EXCEPT ![w] = "rejected"]
  /\ callbacks' = [callbacks EXCEPT ![w] = FALSE]
  /\ EndTxn(w)

\* The handler of an operation ends; its transaction is rolled back if it is open.
End(w, where) ==
  /\ pc' = [pc EXCEPT ![w] = where]
  /\ req' = [req EXCEPT ![w] = NoRequest]
  /\ record' = [record EXCEPT ![w] = "rejected"]
  /\ callbacks' = [callbacks EXCEPT ![w] = FALSE]
  /\ EndTxn(w)

-----------------------------------------------------------------------------
\* Mutant: the floor is set, not raised.
SetFloor(w, d, f) ==
  /\ pc[w] = "idle"
  /\ \A e \in Entity : f + other[e] <= MaxBoth
  /\ floor' = [floor EXCEPT ![d] = f]
  /\ sentFloor' = [sentFloor EXCEPT ![w] = f]
  /\ pc' = [pc EXCEPT ![w] = "ready"]
  /\ UNCHANGED <<receipts, row, local, history>>

\* apply_ops: raise_floor in a transaction of its own.
RaiseFloor(w, d, f) ==
  /\ pc[w] = "idle"
  /\ \A e \in Entity : f + other[e] <= MaxBoth
  /\ floor' = [floor EXCEPT ![d] = IF f > @ THEN f ELSE @]
  /\ sentFloor' = [sentFloor EXCEPT ![w] = f]
  /\ pc' = [pc EXCEPT ![w] = "ready"]
  /\ UNCHANGED <<receipts, row, local, history>>

\* The next operation of the body; one below the floor of the body is refused.
Take(w, q) ==
  /\ pc[w] = "ready"
  /\ SeqOf[IdOf[q]] >= sentFloor[w]
  /\ req' = [req EXCEPT ![w] = q]
  /\ pc' = [pc EXCEPT ![w] = "oplock"]
  /\ UNCHANGED <<database, sentFloor, record, callbacks, txn, history>>

LockOp(w) ==
  /\ pc[w] = "oplock"
  /\ \A u \in Worker : pc[u] \in OpLocked => Id(u) # Id(w)
  /\ pc' = [pc EXCEPT ![w] = "lookup"]
  /\ UNCHANGED <<database, sentFloor, local, history>>

\* A stored record is reported when the request is the same, and refused when
\* it is another request under the same op_id.  Either way the lock is released.
Lookup(w) ==
  /\ pc[w] = "lookup"
  /\ IF receipts[Id(w)] = NoReceipt
     THEN pc' = [pc EXCEPT ![w] = "floor"] /\ UNCHANGED local
     ELSE IF receipts[Id(w)].mac = req[w]
     THEN /\ pc' = [pc EXCEPT ![w] = "reply"]
          /\ record' = [record EXCEPT ![w] = receipts[Id(w)].status]
          /\ UNCHANGED <<req, callbacks, txn>>
     ELSE End(w, "ready")
  /\ UNCHANGED <<database, sentFloor, history>>

\* read_floor: a retired operation is refused and nothing is stored.
RefuseRetired(w) ==
  /\ pc[w] = "floor"
  /\ Retired(Id(w))
  /\ refused' = refused \cup {Id(w)}
  /\ End(w, "ready")
  /\ UNCHANGED <<database, sentFloor, outcome, answered, cleaned, effect, other>>

\* Mutant: the floor is not looked at under the lock.
PassAnyFloor(w) ==
  /\ pc[w] = "floor"
  /\ pc' = [pc EXCEPT ![w] = "entity"]
  /\ UNCHANGED <<database, sentFloor, local, history>>

\* An operation that is not retired goes on to the lock on its entity, unless
\* its base is malformed, which is a recorded rejection.
PassFloor(w) ==
  /\ pc[w] = "floor"
  /\ ~Retired(Id(w))
  /\ \/ pc' = [pc EXCEPT ![w] = "entity"] /\ UNCHANGED record
     \/ /\ pc' = [pc EXCEPT ![w] = "reject"]
        /\ record' = [record EXCEPT ![w] = "rejected"]
  /\ UNCHANGED <<database, req, sentFloor, callbacks, txn, history>>

\* Mutant: the entity is not locked.
SkipEntityLock(w) ==
  /\ pc[w] = "entity"
  /\ pc' = [pc EXCEPT ![w] = "apply"]
  /\ UNCHANGED <<database, sentFloor, local, history>>

\* Mutant: whoever waits for the entity already holds a share of its lock.
UpgradeEntityLock(w) ==
  /\ pc[w] = "entity"
  /\ \A u \in Worker \ {w} : pc[u] \in EntityLocked \cup {"entity"} => EntityOf[req[u]] # EntityOf[req[w]]
  /\ pc' = [pc EXCEPT ![w] = "apply"]
  /\ UNCHANGED <<database, sentFloor, local, history>>

LockEntity(w) ==
  /\ pc[w] = "entity"
  /\ \A u \in Worker : pc[u] \in EntityLocked => EntityOf[req[u]] # EntityOf[req[w]]
  /\ pc' = [pc EXCEPT ![w] = "apply"]
  /\ UNCHANGED <<database, sentFloor, local, history>>

-----------------------------------------------------------------------------
(* The appliers, each inside a savepoint *)

\* _ensure_not_stale and ensure_docs_operation_is_fresh: who compares which rows.  A
\* restore and an erase have no base; that of a pin is the time of the last pin, a
\* reason to reject like any other.
Stale(q, x) ==
  /\ BaseOf[q] # NoBase /\ x.version > BaseOf[q]
  /\ \/ x.status = "live" /\ ActionOf[q] \in {"create", "update", "delete", "put", "archive"}
     \/ x.status = "deleted" /\ ActionOf[q] = "put"

\* There is nothing to do: a delete of a row that is gone, whatever its base, a
\* restore of one that is not, a create of a time entry that is there.
Idle(q, x) ==
  \/ ActionOf[q] \in {"delete", "erase"} /\ x.status # "live"
  \/ ActionOf[q] = "restore" /\ x.status = "live"
  \/ ActionOf[q] = "create" /\ x.status = "live" /\ ~Stale(q, x)

\* Row x may be written as the operation asks.
Fits(q, x) ==
  /\ ~Stale(q, x)
  /\ x.status \in CASE ActionOf[q] = "create" -> {"absent", "live"}
                    [] ActionOf[q] = "restore" -> {"deleted"}
                    [] ActionOf[q] = "put" -> {"absent", "live", "deleted"}
                    [] ActionOf[q] = "archive" -> {"live", "deleted"}
                    [] OTHER -> {"live"}

\* Of other rows a restore seeks deleted ones and the rest live ones; those that do
\* not delete may go by the key of a row and so write it though it is deleted by now.
Sought(q) == IF ActionOf[q] = "restore" THEN "deleted" ELSE "live"
AlsoFits(q, r) ==
  \/ row[r].status = Sought(q)
  \/ row[r].status = "deleted" /\ ActionOf[q] \notin {"delete", "erase"}

\* No other transaction has written r.
Free(w, r) == \A u \in Worker \ {w} : r \notin writes[u]

\* Mutant: the callbacks of a rejected operation are kept.
RejectKeepsCallbacks(w) ==
  /\ record' = [record EXCEPT ![w] = "rejected"]
  /\ pc' = [pc EXCEPT ![w] = "insert"]
  /\ UNCHANGED callbacks
  /\ EndTxn(w)

\* A rejection rolls back to the savepoint and drops the callbacks.
Reject(w) ==
  /\ record' = [record EXCEPT ![w] = "rejected"]
  /\ pc' = [pc EXCEPT ![w] = "insert"]
  /\ callbacks' = [callbacks EXCEPT ![w] = FALSE]
  /\ EndTxn(w)

\* An operation that has nothing to do is applied all the same.
Pass(w) ==
  /\ record' = [record EXCEPT ![w] = "applied"]
  /\ pc' = [pc EXCEPT ![w] = "insert"]
  /\ UNCHANGED callbacks
  /\ EndTxn(w)

\* The row is read and compared.  An operation may be rejected for other reasons
\* than its base; if it goes on it will write its own row and some others.  The delete
\* of a project leaves files to be removed after the commit.
Read(w) ==
  /\ pc[w] = "apply"
  /\ ActionOf[req[w]] \in ReadsLocked => Free(w, Own(w))
  /\ \/ Reject(w)
     \/ Idle(req[w], row[Own(w)]) /\ Pass(w)
     \/ /\ Fits(req[w], row[Own(w)])
        /\ \E also \in AlsoOf[req[w]],
              called \in IF ActionOf[req[w]] = "delete" THEN BOOLEAN ELSE {FALSE} :
             LET held == IF ActionOf[req[w]] \in ReadsLocked THEN {Own(w)} ELSE {}
                 left == ({Own(w)} \cup also) \ held
             IN /\ writes' = [writes EXCEPT ![w] = held]
                /\ todo' = [todo EXCEPT ![w] = left]
                /\ pc' = [pc EXCEPT ![w] = IF left = {} THEN "insert" ELSE "write"]
                /\ callbacks' = [callbacks EXCEPT ![w] = called]
        /\ record' = [record EXCEPT ![w] = "applied"]
        /\ basis' = [basis EXCEPT ![w] = row[Own(w)]]
        /\ UNCHANGED overtaken
  /\ UNCHANGED <<database, req, sentFloor, history>>

\* The rows it may write next: its own one first, save that one it creates may be
\* inserted after it has written others.
Ready(w) ==
  {r \in todo[w] : r = Own(w) \/ Own(w) \notin todo[w] \/ ActionOf[req[w]] = "create"}

\* A row is written when no other transaction holds it, and as it is by then.  The
\* base is not looked at again; a delete may find the row deleted, a restore writes
\* only a deleted one, and a row that was purged is not written.
Write(w, r) ==
  /\ pc[w] = "write" /\ r \in Ready(w) /\ Free(w, r)
  /\ \/ Reject(w)
     \/ r = Own(w) /\ ActionOf[req[w]] = "delete" /\ row[r].status = "deleted" /\ Pass(w)
     \/ /\ r = Own(w) => \/ row[r] = basis[w]
                       \/ row[r].status \in IF ActionOf[req[w]] = "restore" THEN {"deleted"} ELSE {"live", "deleted"}
        /\ todo' = [todo EXCEPT ![w] = @ \ {r}]
        /\ \/ /\ r = Own(w) \/ AlsoFits(req[w], r)
              /\ writes' = [writes EXCEPT ![w] = @ \cup {r}]
           \/ r # Own(w) /\ row[r].status # Sought(req[w]) /\ UNCHANGED writes
        /\ pc' = [pc EXCEPT ![w] = IF todo[w] = {r} THEN "insert" ELSE @]
        /\ UNCHANGED <<record, callbacks, basis, overtaken>>
  /\ UNCHANGED <<database, req, sentFloor, history>>

-----------------------------------------------------------------------------
(* Commit and answer *)

\* What operation q makes of a row it writes.
After(q, x) ==
  [version |-> x.version + 1,
   status |-> CASE ActionOf[q] \in {"delete", "erase", "archive"} -> "deleted"
                [] ActionOf[q] = "restore" -> "live"
                [] OTHER -> IF x.status = "absent" THEN "live" ELSE x.status]

\* The workers that have read one of these rows as their own and not yet locked it.
Overtakes(rows) ==
  [u \in Worker |-> overtaken[u] \/ (pc[u] = "write" /\ Own(u) \in todo[u] \cap rows)]

\* The effect and the receipt in one commit.  The primary key of the receipts
\* fails the transaction when the op_id already has one.
Commit(w) ==
  /\ pc[w] \in {"insert", "reject"}
  /\ receipts[Id(w)] = NoReceipt
  /\ receipts' = [receipts EXCEPT ![Id(w)] = [status |-> record[w], mac |-> req[w]]]
  /\ row' = [e \in Entity |-> IF e \in writes[w] THEN After(req[w], row[e]) ELSE row[e]]
  /\ outcome' = [outcome EXCEPT ![Id(w)] = [status |-> record[w], mac |-> req[w]]]
  /\ effect' = [effect EXCEPT ![Id(w)] = @ \cup writes[w]]
  /\ pc' = [pc EXCEPT ![w] = "done"]
  /\ basis' = [basis EXCEPT ![w] = NoRow]
  /\ writes' = [writes EXCEPT ![w] = {}]
  /\ overtaken' = [Overtakes(writes[w] \ {Own(w)}) EXCEPT ![w] = FALSE]
  /\ UNCHANGED <<floor, sentFloor, req, record, callbacks, todo, answered, cleaned, refused, other>>

RunCallbacks(w) ==
  /\ pc[w] = "done"
  /\ cleaned' = [cleaned EXCEPT ![Id(w)] = IF callbacks[w] THEN @ + 1 ELSE @]
  /\ pc' = [pc EXCEPT ![w] = "reply"]
  /\ UNCHANGED <<database, sentFloor, local, outcome, answered, refused, effect, other>>

Reply(w) ==
  /\ pc[w] = "reply"
  /\ answered' = answered \cup {<<req[w], record[w]>>}
  /\ End(w, "ready")
  /\ UNCHANGED <<database, sentFloor, outcome, cleaned, refused, effect, other>>

\* Any exception, one raised by a commit that took effect included, is
\* answered with "retry" and the body goes on with the next operation.
Fail(w) ==
  /\ pc[w] \in InOp
  /\ End(w, "ready")
  /\ UNCHANGED <<database, sentFloor, history>>

\* The response is sent, or the process dies at any point.
Leave(w) ==
  /\ pc[w] # "idle"
  /\ End(w, "idle")
  /\ sentFloor' = [sentFloor EXCEPT ![w] = 0]
  /\ UNCHANGED <<database, history>>

\* The rest of the application writes a row, deletes, restores or purges it, in a
\* transaction that takes no entity lock.
OtherWrite(e, status) ==
  /\ row[e].status # "absent"
  /\ status = "absent" => row[e].status = "deleted"
  /\ other[e] < MaxOther[e] /\ \A d \in Device : floor[d] + other[e] < MaxBoth
  /\ \A w \in Worker : e \notin writes[w]
  /\ row' = [row EXCEPT ![e] = [version |-> @.version + 1, status |-> status]]
  /\ other' = [other EXCEPT ![e] = @ + 1]
  /\ overtaken' = Overtakes({e})
  /\ UNCHANGED <<receipts, floor, pc, sentFloor, req, record, callbacks, basis, todo, writes,
                 outcome, answered, cleaned, refused, effect>>

\* Mutant: receipts are purged whatever the floor.
PurgeAny(gone) ==
  /\ gone # {}
  /\ \A o \in gone : receipts[o] # NoReceipt
  /\ receipts' = [o \in OpId |-> IF o \in gone THEN NoReceipt ELSE receipts[o]]
  /\ UNCHANGED <<floor, row, pc, sentFloor, local, history>>

\* purge_retired_receipts: delete receipts below the floor of their device.
Purge(gone) ==
  /\ gone # {}
  /\ \A o \in gone : receipts[o] # NoReceipt /\ Retired(o)
  /\ receipts' = [o \in OpId |-> IF o \in gone THEN NoReceipt ELSE receipts[o]]
  /\ UNCHANGED <<floor, row, pc, sentFloor, local, history>>

-----------------------------------------------------------------------------
Init ==
  /\ receipts = [o \in OpId |-> NoReceipt]
  /\ floor = [d \in Device |-> 0]
  /\ row = [e \in Entity |-> [version |-> 0, status |-> IF e \in Present THEN "live" ELSE "absent"]]
  /\ pc = [w \in Worker |-> "idle"]
  /\ req = [w \in Worker |-> NoRequest]
  /\ sentFloor = [w \in Worker |-> 0]
  /\ record = [w \in Worker |-> "rejected"]
  /\ callbacks = [w \in Worker |-> FALSE]
  /\ basis = [w \in Worker |-> NoRow]
  /\ todo = [w \in Worker |-> {}]
  /\ writes = [w \in Worker |-> {}]
  /\ overtaken = [w \in Worker |-> FALSE]
  /\ outcome = [o \in OpId |-> NoReceipt]
  /\ answered = {}
  /\ cleaned = [o \in OpId |-> 0]
  /\ refused = {}
  /\ effect = [o \in OpId |-> {}]
  /\ other = [e \in Entity |-> 0]

\* The statements of _commit_record and _build_response.
Step(w) ==
  \/ LockOp(w) \/ Lookup(w) \/ RefuseRetired(w) \/ PassFloor(w)
  \/ LockEntity(w) \/ Read(w) \/ (\E r \in Entity : Write(w, r))
  \/ Commit(w) \/ RunCallbacks(w) \/ Reply(w)

Next ==
  \/ \E w \in Worker :
       \/ \E d \in Device, f \in 0..MaxFloor : RaiseFloor(w, d, f)
       \/ \E q \in Request : Take(w, q)
       \/ Step(w) \/ Fail(w) \/ Leave(w)
  \/ \E e \in Entity, status \in {"absent", "live", "deleted"} : OtherWrite(e, status)
  \/ \E gone \in SUBSET OpId : Purge(gone)

Spec == Init /\ [][Next]_vars

\* Workers that wait for rows that only they themselves hold.
Ring(S) ==
  /\ S # {}
  /\ \A w \in S : /\ pc[w] = "write" /\ Ready(w) # {}
                  /\ \A r \in Ready(w) : \E u \in S \ {w} : r \in writes[u]

\* The deadlock detector of the database fails one of them.
Detect(S) == Ring(S) /\ \E w \in S : Fail(w)

\* A worker keeps running; the database grants a lock to a transaction that waits
\* for one that comes free again and again, and finds deadlocks.
FairSpec ==
  /\ Spec
  /\ \A w \in Worker : SF_vars(Step(w))
  /\ \A S \in SUBSET Worker : WF_vars(Detect(S))

-----------------------------------------------------------------------------
TypeOK ==
  /\ receipts \in [OpId -> Receipt \cup {NoReceipt}]
  /\ floor \in [Device -> 0..MaxFloor]
  /\ row \in [Entity -> Row]
  /\ pc \in [Worker -> InOp \cup {"idle", "ready"}]
  /\ req \in [Worker -> Request \cup {NoRequest}]
  /\ sentFloor \in [Worker -> 0..MaxFloor]
  /\ record \in [Worker -> Decision]
  /\ callbacks \in [Worker -> BOOLEAN]
  /\ basis \in [Worker -> Row]
  /\ todo \in [Worker -> SUBSET Entity] /\ writes \in [Worker -> SUBSET Entity]
  /\ overtaken \in [Worker -> BOOLEAN]
  /\ outcome \in [OpId -> Receipt \cup {NoReceipt}]
  /\ answered \subseteq Request \X Decision
  /\ cleaned \in [OpId -> Nat]
  /\ refused \subseteq OpId
  /\ effect \in [OpId -> SUBSET Entity]
  /\ other \in [Entity -> Nat]
  /\ \A w \in Worker : pc[w] \in InOp => req[w] \in Request

\* An op_id is decided once, for one request, and not after it was refused as
\* retired; every record reported is that decision, whatever is resent, retired,
\* purged or answered twice.
Once == INSTANCE OnceOnly WITH Undecided <- NoReceipt
OnceOnlySpec == Once!Spec

\* The effect and its receipt are one commit: a decided operation has that very
\* receipt until its device's floor has passed it.
ReceiptKept ==
  \A o \in OpId : outcome[o] # NoReceipt => Retired(o) \/ receipts[o] = outcome[o]

\* Every write of a row is the one effect of an operation decided as applied, or
\* of another part of the application: neither a copy that came after the receipt
\* was purged, nor a transaction that failed after its commit, nor an operation
\* that was rejected has changed its row or any other.
EffectOnce ==
  /\ \A e \in Entity : row[e].version = Cardinality({o \in OpId : e \in effect[o]}) + other[e]
  /\ \A o \in OpId : effect[o] # {} => outcome[o] # NoReceipt /\ outcome[o].status \in Applied

\* An operation never replaces another one on the same entity unseen, nor a row
\* newer than its base where the base counts.  When its commit changes its own row,
\* the row as it was read allowed that; and it is the same still, or was written in
\* between by someone who does not take the entity lock, which cannot happen to an
\* operation that reads its row FOR UPDATE.
NoLostUpdate ==
  [][\A w \in Worker : Commit(w) /\ Own(w) \in writes[w] =>
       /\ Fits(req[w], basis[w])
       /\ row[Own(w)] = basis[w] \/ (overtaken[w] /\ ActionOf[req[w]] \notin ReadsLocked)]_vars

\* after_commit callbacks run at most once, and only for a committed effect.
CallbacksAfterCommit ==
  \A o \in OpId : cleaned[o] > 0 => cleaned[o] = 1 /\ outcome[o] # NoReceipt /\ outcome[o].status \in Applied

\* The advisory locks and the locks on rows never block anyone for good: an
\* operation taken is answered.
Served == \A w \in Worker : (pc[w] = "oplock") ~> (pc[w] \in {"idle", "ready"})
=============================================================================
