--------------------------- MODULE SyncOpsProofs ---------------------------
(***************************************************************************)
(* Theorems of SyncOps for every set of workers, devices and requests.     *)
(***************************************************************************)
EXTENDS SyncOps, TLAPS, FiniteSetTheorems

-----------------------------------------------------------------------------
(* The inductive invariant. *)

\* The two advisory locks exclude, and so do the locks on rows.
OpMutex ==
  \A u, w \in Worker :
    pc[u] \in OpLocked /\ pc[w] \in OpLocked /\ Id(u) = Id(w) => u = w

EntityMutex ==
  \A u, w \in Worker :
    pc[u] \in EntityLocked /\ pc[w] \in EntityLocked /\ Own(u) = Own(w) => u = w

RowMutex == \A u, w \in Worker : u # w => writes[u] \cap writes[w] = {}

\* After-commit callbacks of one operation are in one worker's hands.
DoneOnce ==
  \A u, w \in Worker : pc[u] = "done" /\ pc[w] = "done" /\ Id(u) = Id(w) => u = w

Exclusion == OpMutex /\ EntityMutex /\ RowMutex /\ DoneOnce

\* Past the floor check the operation is known to be undecided and not refused.
Open == {"entity", "apply", "write", "insert", "reject"}

\* The record worker w writes, or has found.
RecordOf(w) == [status |-> record[w], mac |-> req[w]]

DecisionInv(w) ==
  /\ pc[w] = "floor" => outcome[Id(w)] = NoReceipt \/ Retired(Id(w))
  /\ pc[w] \in Open => outcome[Id(w)] = NoReceipt /\ Id(w) \notin refused
  /\ pc[w] \in {"done", "reply"} => outcome[Id(w)] = RecordOf(w)
  /\ pc[w] = "done" => cleaned[Id(w)] = 0
  /\ callbacks[w] => record[w] \in Applied /\ pc[w] \in {"write", "insert", "done", "reply"}

\* Rows are written only for an operation that will be applied.  From the reading
\* of its row to the commit the row stays as it was, unless it was overtaken.
TxnInv(w) ==
  /\ todo[w] # {} => pc[w] = "write"
  /\ pc[w] = "write" => todo[w] # {} /\ record[w] \in Applied
  /\ writes[w] # {} => pc[w] \in {"write", "insert"} /\ record[w] \in Applied
  /\ Own(w) \in todo[w] => ActionOf[req[w]] \notin ReadsLocked
  /\ Own(w) \in todo[w] \cup writes[w] =>
       /\ Fits(req[w], basis[w])
       /\ row[Own(w)] = basis[w] \/ (overtaken[w] /\ ActionOf[req[w]] \notin ReadsLocked)

OpInv(o) ==
  /\ receipts[o] # NoReceipt => receipts[o] = outcome[o]
  /\ outcome[o] # NoReceipt => Retired(o) \/ receipts[o] # NoReceipt
  /\ outcome[o] # NoReceipt => IdOf[outcome[o].mac] = o
  /\ outcome[o] = NoReceipt => cleaned[o] = 0
  /\ cleaned[o] > 0 => cleaned[o] = 1 /\ outcome[o].status \in Applied
  /\ effect[o] # {} => outcome[o] # NoReceipt /\ outcome[o].status \in Applied
  /\ o \in refused => Retired(o)

IInv ==
  /\ TypeOK /\ Exclusion
  /\ \A w \in Worker : DecisionInv(w) /\ TxnInv(w)
  /\ \A o \in OpId : OpInv(o)

\* A step of another worker leaves u as it is.
Same(u) ==
  /\ pc'[u] = pc[u] /\ req'[u] = req[u] /\ record'[u] = record[u] /\ callbacks'[u] = callbacks[u]
  /\ basis'[u] = basis[u] /\ todo'[u] = todo[u] /\ writes'[u] = writes[u]
  /\ overtaken'[u] = overtaken[u]

\* The operation a worker handles has an op_id, an entity and a device.
LEMMA IdType ==
  ASSUME TypeOK, NEW w \in Worker, pc[w] \in InOp
  PROVE  /\ req[w] \in Request /\ Id(w) \in OpId /\ Own(w) \in Entity
         /\ SeqOf[Id(w)] \in Nat /\ DeviceOf[Id(w)] \in Device /\ floor[DeviceOf[Id(w)]] \in 0..MaxFloor
BY OpsConstants DEF TypeOK, Id, Own

\* The record of a worker is a receipt, and none of these is NoReceipt.
LEMMA RecordType ==
  ASSUME TypeOK, NEW w \in Worker, pc[w] \in InOp
  PROVE  RecordOf(w) \in Receipt /\ RecordOf(w) # NoReceipt
BY OpsConstants DEF TypeOK, RecordOf, Receipt

\* Nothing is running and nothing is decided at the start.
LEMMA InitIInv == Init => IInv
<1> SUFFICES ASSUME Init PROVE IInv
  OBVIOUS
<1>1. TypeOK
  <2>1. row \in [Entity -> Row] BY DEF Init, Row
  <2>2. basis \in [Worker -> Row] BY DEF Init, Row, NoRow
  <2>3. QED BY <2>1, <2>2, OpsConstants DEF Init, TypeOK, InOp, OpLocked, Decision
<1>2. Exclusion
  BY DEF Init, Exclusion, OpMutex, EntityMutex, RowMutex, DoneOnce, OpLocked, EntityLocked
<1>3. \A w \in Worker : DecisionInv(w) /\ TxnInv(w)
  BY DEF Init, DecisionInv, TxnInv, Open
<1>4. \A o \in OpId : OpInv(o) BY DEF Init, OpInv
<1>5. QED BY <1>1, <1>2, <1>3, <1>4 DEF IInv

-----------------------------------------------------------------------------
(* Steps of one worker. *)

\* A step of worker w that changes only its own locals keeps the invariants of
\* the other workers and of the operations.
LEMMA LocalKeeps ==
  ASSUME IInv, NEW w \in Worker, UNCHANGED <<database, outcome, cleaned, refused, effect>>,
         \A u \in Worker : u # w => Same(u),
         TypeOK', Exclusion', DecisionInv(w)', TxnInv(w)'
  PROVE  IInv'
<1> USE DEF IInv
<1>1. ASSUME NEW u \in Worker, u # w PROVE DecisionInv(u)' /\ TxnInv(u)'
  <2>1. Same(u) /\ DecisionInv(u) /\ TxnInv(u) BY <1>1
  <2>2. Id(u)' = Id(u) /\ Own(u)' = Own(u) /\ RecordOf(u)' = RecordOf(u)
    BY <2>1 DEF Same, Id, Own, RecordOf
  <2>3. DecisionInv(u)' BY <2>1, <2>2 DEF DecisionInv, Same, Retired, database
  <2>4. TxnInv(u)' BY <2>1, <2>2 DEF TxnInv, Same, Fits, Stale, database
  <2>5. QED BY <2>3, <2>4
<1>2. \A o \in OpId : OpInv(o)' BY DEF OpInv, Retired, database
<1>3. QED BY <1>1, <1>2

\* What End leaves behind.
LEMMA EndFacts ==
  ASSUME TypeOK, NEW w \in Worker, NEW where \in {"idle", "ready"}, End(w, where)
  PROVE  /\ pc'[w] = where /\ callbacks'[w] = FALSE /\ todo'[w] = {} /\ writes'[w] = {}
         /\ \A u \in Worker : u # w => Same(u)
         /\ pc' \in [Worker -> InOp \cup {"idle", "ready"}]
         /\ req' \in [Worker -> Request \cup {NoRequest}]
         /\ record' \in [Worker -> Decision] /\ callbacks' \in [Worker -> BOOLEAN]
         /\ basis' \in [Worker -> Row]
         /\ todo' \in [Worker -> SUBSET Entity] /\ writes' \in [Worker -> SUBSET Entity]
         /\ overtaken' \in [Worker -> BOOLEAN]
         /\ \A u \in Worker : pc'[u] \in InOp => req'[u] \in Request
<1>1. NoRow \in Row BY DEF NoRow, Row
<1>2. "rejected" \in Decision BY DEF Decision
<1>3. {"idle", "ready"} \cap InOp = {} BY DEF InOp, OpLocked
<1>4. QED BY <1>1, <1>2, <1>3 DEF TypeOK, End, EndTxn, Same

\* The handler that ended is in nobody's way.
LEMMA EndExclusion ==
  ASSUME IInv, NEW w \in Worker, NEW where \in {"idle", "ready"}, End(w, where)
  PROVE  Exclusion'
<1>1. /\ pc'[w] = where /\ writes'[w] = {}
      /\ \A u \in Worker : u # w => Same(u)
  BY EndFacts DEF IInv
<1>2. OpMutex' BY <1>1 DEF IInv, Exclusion, OpMutex, OpLocked, Same, Id
<1>3. EntityMutex' BY <1>1 DEF IInv, Exclusion, EntityMutex, EntityLocked, Same, Own
<1>4. DoneOnce' BY <1>1 DEF IInv, Exclusion, DoneOnce, Same, Id
<1>5. RowMutex' BY <1>1 DEF IInv, Exclusion, RowMutex, Same
<1>6. QED BY <1>2, <1>3, <1>4, <1>5 DEF Exclusion

\* Ending the handler of an operation keeps everything.
LEMMA EndKeeps ==
  ASSUME IInv, NEW w \in Worker, NEW where \in {"idle", "ready"}, End(w, where),
         UNCHANGED <<database, outcome, cleaned, refused, effect, other>>,
         sentFloor' \in [Worker -> 0..MaxFloor], answered' \subseteq Request \X Decision
  PROVE  IInv'
<1>1. /\ pc'[w] = where /\ callbacks'[w] = FALSE /\ todo'[w] = {} /\ writes'[w] = {}
      /\ \A u \in Worker : u # w => Same(u)
  BY EndFacts DEF IInv
<1>2. TypeOK'
  BY EndFacts DEF IInv, TypeOK, database
<1>3. Exclusion' BY EndExclusion
<1>4. DecisionInv(w)' BY <1>1 DEF DecisionInv, Open
<1>5. TxnInv(w)' BY <1>1 DEF TxnInv
<1>6. QED BY <1>1, <1>2, <1>3, <1>4, <1>5, LocalKeeps

\* Floors only rise, so what is retired stays retired.
LEMMA RaiseFloorKeeps ==
  ASSUME IInv, NEW w \in Worker, NEW d \in Device, NEW f \in 0..MaxFloor, RaiseFloor(w, d, f)
  PROVE  IInv'
<1> USE DEF IInv
<1>1. TypeOK'
  BY DEF TypeOK, RaiseFloor, local, txn, history, InOp, OpLocked
<1>2. \A o \in OpId : Retired(o) => Retired(o)'
  <2> SUFFICES ASSUME NEW o \in OpId, Retired(o) PROVE Retired(o)'
    OBVIOUS
  <2>1. SeqOf[o] \in Nat /\ DeviceOf[o] \in Device BY OpsConstants
  <2>2. floor[DeviceOf[o]] \in Int /\ floor'[DeviceOf[o]] \in Int /\ floor'[DeviceOf[o]] >= floor[DeviceOf[o]]
    BY <2>1, OpsConstants DEF TypeOK, RaiseFloor
  <2>3. QED BY <2>1, <2>2 DEF Retired
<1>3. /\ UNCHANGED <<receipts, row, local, history>>
      /\ pc[w] = "idle"
      /\ \A u \in Worker : pc'[u] = IF u = w THEN "ready" ELSE pc[u]
  BY DEF RaiseFloor, TypeOK
<1>4. Exclusion'
  BY <1>3 DEF Exclusion, OpMutex, EntityMutex, RowMutex, DoneOnce, OpLocked, EntityLocked, Id, Own,
     local, txn
<1>5. ASSUME NEW u \in Worker PROVE DecisionInv(u)'
  <2>1. CASE u = w BY <1>3, <2>1 DEF DecisionInv, Open, local
  <2>2. CASE u # w
    <3>1. pc[u] = "floor" => Id(u) \in OpId BY IdType DEF InOp, OpLocked
    <3>2. QED BY <1>2, <1>3, <2>2, <3>1 DEF DecisionInv, RecordOf, Id, local, history
  <2>3. QED BY <2>1, <2>2
<1>6. ASSUME NEW u \in Worker PROVE TxnInv(u)'
  BY <1>3 DEF TxnInv, Own, Fits, Stale, local, txn
<1>7. \A o \in OpId : OpInv(o)' BY <1>2, <1>3 DEF OpInv, history
<1>8. QED BY <1>1, <1>4, <1>5, <1>6, <1>7

\* A purge deletes only receipts of retired operations.
LEMMA PurgeKeeps ==
  ASSUME IInv, NEW gone \in SUBSET OpId, Purge(gone)
  PROVE  IInv'
<1> USE DEF IInv
<1>1. TypeOK' BY DEF TypeOK, Purge, local, txn, history
<1>2. Exclusion'
  BY DEF Purge, Exclusion, OpMutex, EntityMutex, RowMutex, DoneOnce, Id, Own, local, txn
<1>3. \A u \in Worker : DecisionInv(u)'
  BY DEF Purge, DecisionInv, RecordOf, Id, Retired, local, history
<1>4. \A u \in Worker : TxnInv(u)'
  BY DEF Purge, TxnInv, Own, Fits, Stale, local, txn
<1>5. \A o \in OpId : OpInv(o)'
  BY DEF Purge, OpInv, Retired, history
<1>6. QED BY <1>1, <1>2, <1>3, <1>4, <1>5

-----------------------------------------------------------------------------
(* Steps inside an operation. *)

\* A handler that takes a request knows nothing yet.
LEMMA TakeKeeps ==
  ASSUME IInv, NEW w \in Worker, NEW q \in Request, Take(w, q)
  PROVE  IInv'
<1> USE DEF IInv
<1>1. /\ \A u \in Worker : pc'[u] = IF u = w THEN "oplock" ELSE pc[u]
      /\ \A u \in Worker : req'[u] = IF u = w THEN q ELSE req[u]
      /\ pc[w] = "ready"
      /\ UNCHANGED <<database, record, callbacks, txn, history>>
  BY DEF Take, TypeOK
<1>2. TypeOK'
  BY DEF TypeOK, Take, database, txn, history, InOp, OpLocked
<1>3. Exclusion'
  BY <1>1 DEF Exclusion, OpMutex, EntityMutex, RowMutex, DoneOnce, OpLocked, EntityLocked, Id, Own, txn
<1>4. DecisionInv(w)' BY <1>1 DEF DecisionInv, Open
<1>5. TxnInv(w)' BY <1>1 DEF TxnInv, txn
<1>6. \A u \in Worker : u # w => Same(u) BY <1>1 DEF Same, txn
<1>7. QED BY <1>1, <1>2, <1>3, <1>4, <1>5, <1>6, LocalKeeps DEF history

\* Taking the operation lock keeps the invariant: nobody else has it.
LEMMA LockOpKeeps ==
  ASSUME IInv, NEW w \in Worker, LockOp(w)
  PROVE  IInv'
<1> USE DEF IInv
<1>1. /\ \A u \in Worker : pc'[u] = IF u = w THEN "lookup" ELSE pc[u]
      /\ pc[w] = "oplock"
      /\ \A u \in Worker : pc[u] \in OpLocked => Id(u) # Id(w)
      /\ UNCHANGED <<database, sentFloor, local, history>>
  BY DEF LockOp, TypeOK
<1>2. TypeOK'
  BY DEF TypeOK, LockOp, database, local, txn, history, InOp, OpLocked
<1>3. Exclusion'
  BY <1>1 DEF Exclusion, OpMutex, EntityMutex, RowMutex, DoneOnce, OpLocked, EntityLocked, Id, Own,
     local, txn
<1>4. DecisionInv(w)' BY <1>1 DEF DecisionInv, Open, local
<1>5. TxnInv(w)' BY <1>1 DEF TxnInv, local, txn
<1>6. \A u \in Worker : u # w => Same(u) BY <1>1 DEF Same, local, txn
<1>7. QED BY <1>1, <1>2, <1>3, <1>4, <1>5, <1>6, LocalKeeps DEF history

\* The lookup learns what the receipts say, answers with it, or refuses another request of the same id.
LEMMA LookupKeeps ==
  ASSUME IInv, NEW w \in Worker, Lookup(w)
  PROVE  IInv'
<1> USE DEF IInv
<1>1. pc[w] = "lookup" /\ UNCHANGED <<database, sentFloor, history>> BY DEF Lookup
<1>2. Id(w) \in OpId BY <1>1, IdType DEF InOp, OpLocked
<1>3. CASE receipts[Id(w)] = NoReceipt
  <2>1. UNCHANGED local /\ \A u \in Worker : pc'[u] = IF u = w THEN "floor" ELSE pc[u]
    BY <1>3 DEF Lookup, TypeOK
  <2>2. TypeOK' BY <1>1, <1>3 DEF Lookup, TypeOK, database, local, txn, history, InOp, OpLocked
  <2>3. Exclusion'
    BY <1>1, <2>1 DEF Exclusion, OpMutex, EntityMutex, RowMutex, DoneOnce, OpLocked, EntityLocked,
       Id, Own, local, txn
  <2>4. outcome[Id(w)] = NoReceipt \/ Retired(Id(w)) BY <1>2, <1>3 DEF OpInv
  <2>5. DecisionInv(w)'
    BY <1>1, <2>1, <2>4 DEF DecisionInv, Open, Id, Retired, local, history, database
  <2>6. TxnInv(w)' BY <1>1, <2>1 DEF TxnInv, local, txn
  <2>7. \A u \in Worker : u # w => Same(u) BY <2>1 DEF Same, local, txn
  <2>8. QED BY <1>1, <2>2, <2>3, <2>5, <2>6, <2>7, LocalKeeps DEF history
<1>4. CASE receipts[Id(w)] # NoReceipt /\ receipts[Id(w)].mac = req[w]
  <2>1. /\ UNCHANGED <<req, callbacks, txn>>
        /\ \A u \in Worker : pc'[u] = IF u = w THEN "reply" ELSE pc[u]
        /\ \A u \in Worker : record'[u] = IF u = w THEN receipts[Id(w)].status ELSE record[u]
    BY <1>4 DEF Lookup, TypeOK
  <2>2. receipts[Id(w)].status \in Decision
    BY <1>2, <1>4 DEF TypeOK, Receipt
  <2>3. TypeOK'
    BY <1>1, <1>4, <2>2 DEF Lookup, TypeOK, database, txn, history, InOp, OpLocked
  <2>4. Exclusion'
    BY <1>1, <2>1 DEF Exclusion, OpMutex, EntityMutex, RowMutex, DoneOnce, OpLocked, EntityLocked,
       Id, Own, txn
  <2>5. receipts[Id(w)] \in Receipt /\ outcome[Id(w)] = receipts[Id(w)]
    BY <1>2, <1>4 DEF OpInv, TypeOK
  <2>6. receipts[Id(w)] = [status |-> receipts[Id(w)].status, mac |-> req[w]]
    BY <1>4, <2>5 DEF Receipt
  <2>7. ~callbacks[w] BY <1>1 DEF DecisionInv
  <2>8. DecisionInv(w)'
    BY <1>1, <2>1, <2>5, <2>6, <2>7 DEF DecisionInv, RecordOf, Open, Id, history
  <2>9. TxnInv(w)' BY <1>1, <2>1 DEF TxnInv, txn
  <2>10. \A u \in Worker : u # w => Same(u) BY <2>1 DEF Same, txn
  <2>11. QED BY <1>1, <2>3, <2>4, <2>8, <2>9, <2>10, LocalKeeps DEF history
<1>5. CASE receipts[Id(w)] # NoReceipt /\ receipts[Id(w)].mac # req[w]
  <2>1. End(w, "ready") BY <1>5 DEF Lookup
  <2>2. sentFloor' \in [Worker -> 0..MaxFloor] /\ answered' \subseteq Request \X Decision
    BY <1>1 DEF TypeOK, history
  <2>3. QED BY <1>1, <2>1, <2>2, EndKeeps DEF history
<1>6. QED BY <1>3, <1>4, <1>5

\* The floor check keeps the invariant.
LEMMA PassFloorKeeps ==
  ASSUME IInv, NEW w \in Worker, PassFloor(w)
  PROVE  IInv'
<1> USE DEF IInv
<1>1. /\ pc[w] = "floor" /\ ~Retired(Id(w))
      /\ UNCHANGED <<database, req, sentFloor, callbacks, txn, history>>
      /\ \/ /\ \A u \in Worker : pc'[u] = IF u = w THEN "entity" ELSE pc[u]
            /\ UNCHANGED record
         \/ /\ \A u \in Worker : pc'[u] = IF u = w THEN "reject" ELSE pc[u]
            /\ \A u \in Worker : record'[u] = IF u = w THEN "rejected" ELSE record[u]
  BY DEF PassFloor, TypeOK
<1>2. Id(w) \in OpId BY <1>1, IdType DEF InOp, OpLocked
<1>3. TypeOK'
  BY DEF PassFloor, TypeOK, database, txn, history, InOp, OpLocked, Decision
<1>4. Exclusion'
  BY <1>1 DEF Exclusion, OpMutex, EntityMutex, RowMutex, DoneOnce, OpLocked, EntityLocked, Id, Own, txn
<1>5. outcome[Id(w)] = NoReceipt /\ Id(w) \notin refused
  BY <1>1, <1>2 DEF DecisionInv, OpInv
<1>6. DecisionInv(w)' BY <1>1, <1>5 DEF DecisionInv, Open, Id, history
<1>7. TxnInv(w)' BY <1>1 DEF TxnInv, txn
<1>8. \A u \in Worker : u # w => Same(u) BY <1>1 DEF Same, txn
<1>9. QED BY <1>1, <1>3, <1>4, <1>6, <1>7, <1>8, LocalKeeps DEF history

\* Taking the entity lock keeps the invariant.
LEMMA LockEntityKeeps ==
  ASSUME IInv, NEW w \in Worker, LockEntity(w)
  PROVE  IInv'
<1> USE DEF IInv
<1>1. /\ \A u \in Worker : pc'[u] = IF u = w THEN "apply" ELSE pc[u]
      /\ pc[w] = "entity"
      /\ \A u \in Worker : pc[u] \in EntityLocked => Own(u) # Own(w)
      /\ UNCHANGED <<database, sentFloor, local, history>>
  BY DEF LockEntity, TypeOK, Own
<1>2. TypeOK'
  BY DEF TypeOK, LockEntity, database, local, txn, history, InOp, OpLocked
<1>3. Exclusion'
  BY <1>1 DEF Exclusion, OpMutex, EntityMutex, RowMutex, DoneOnce, OpLocked, EntityLocked, Id, Own,
     local, txn
<1>4. DecisionInv(w)' BY <1>1 DEF DecisionInv, Open, Id, local, history
<1>5. TxnInv(w)' BY <1>1 DEF TxnInv, local, txn
<1>6. \A u \in Worker : u # w => Same(u) BY <1>1 DEF Same, local, txn
<1>7. QED BY <1>1, <1>2, <1>3, <1>4, <1>5, <1>6, LocalKeeps DEF history

\* An operation that is rejected, or has nothing to do, has written nothing.
LEMMA NothingWritten ==
  ASSUME IInv, NEW w \in Worker, pc[w] \in {"apply", "write"}, NEW status \in Decision,
         pc' = [pc EXCEPT ![w] = "insert"], record' = [record EXCEPT ![w] = status], EndTxn(w),
         callbacks' \in [Worker -> BOOLEAN], \A u \in Worker : u # w => callbacks'[u] = callbacks[u],
         callbacks'[w] => status \in Applied,
         UNCHANGED <<database, req, sentFloor, history>>
  PROVE  IInv'
<1> USE DEF IInv
<1>1. /\ pc'[w] = "insert" /\ record'[w] = status /\ todo'[w] = {} /\ writes'[w] = {}
      /\ \A u \in Worker : u # w => Same(u)
      /\ req' = req
  BY DEF TypeOK, EndTxn, Same
<1>2. TypeOK'
  <2>1. NoRow \in Row BY DEF NoRow, Row
  <2>2. /\ basis' \in [Worker -> Row] /\ overtaken' \in [Worker -> BOOLEAN]
        /\ todo' \in [Worker -> SUBSET Entity] /\ writes' \in [Worker -> SUBSET Entity]
    BY <2>1 DEF TypeOK, EndTxn
  <2>3. pc' \in [Worker -> InOp \cup {"idle", "ready"}] /\ record' \in [Worker -> Decision]
    BY DEF TypeOK, InOp, OpLocked
  <2>4. \A u \in Worker : pc'[u] \in InOp => req'[u] \in Request
    BY <1>1 DEF TypeOK, InOp, OpLocked, Same
  <2>5. QED BY <2>2, <2>3, <2>4 DEF TypeOK, database, history
<1>3. OpMutex' BY <1>1 DEF Exclusion, OpMutex, OpLocked, Same, Id
<1>4. EntityMutex' BY <1>1 DEF Exclusion, EntityMutex, EntityLocked, Same, Own
<1>5. DoneOnce' BY <1>1 DEF Exclusion, DoneOnce, Same, Id
<1>6. RowMutex' BY <1>1 DEF Exclusion, RowMutex, Same
<1>7. DecisionInv(w)' BY <1>1 DEF DecisionInv, Open, Id, history
<1>8. TxnInv(w)' BY <1>1 DEF TxnInv
<1>9. QED BY <1>1, <1>2, <1>3, <1>4, <1>5, <1>6, <1>7, <1>8, LocalKeeps DEF Exclusion, history

\* A rejection drops the callbacks.
LEMMA RejectKeeps ==
  ASSUME IInv, NEW w \in Worker, pc[w] \in {"apply", "write"}, Reject(w),
         UNCHANGED <<database, req, sentFloor, history>>
  PROVE  IInv'
<1>1. /\ callbacks' \in [Worker -> BOOLEAN] /\ callbacks'[w] = FALSE
      /\ \A u \in Worker : u # w => callbacks'[u] = callbacks[u]
  BY DEF Reject, IInv, TypeOK
<1>2. "rejected" \in Decision BY DEF Decision
<1>3. QED BY <1>1, <1>2, NothingWritten DEF Reject

\* An operation with nothing to do keeps the callbacks it has.
LEMMA PassKeeps ==
  ASSUME IInv, NEW w \in Worker, pc[w] \in {"apply", "write"}, Pass(w),
         UNCHANGED <<database, req, sentFloor, history>>
  PROVE  IInv'
<1>1. callbacks' \in [Worker -> BOOLEAN] /\ callbacks' = callbacks BY DEF Pass, IInv, TypeOK
<1>2. "applied" \in Decision /\ "applied" \in Applied BY DEF Decision, Applied
<1>3. QED BY <1>1, <1>2, NothingWritten DEF Pass

\* What is read fits the operation, and is the row as it is then.
LEMMA ReadKeeps ==
  ASSUME IInv, NEW w \in Worker, Read(w)
  PROVE  IInv'
<1> USE DEF IInv
<1>1. /\ pc[w] = "apply" /\ UNCHANGED <<database, req, sentFloor, history>>
      /\ ActionOf[req[w]] \in ReadsLocked => Free(w, Own(w))
  BY DEF Read
<1>2. CASE Reject(w) BY <1>1, <1>2, RejectKeeps
<1>3. CASE Pass(w) BY <1>1, <1>3, PassKeeps
<1>4. CASE ~Reject(w) /\ ~Pass(w)
  <2> DEFINE held == IF ActionOf[req[w]] \in ReadsLocked THEN {Own(w)} ELSE {}
  <2>0. PICK also \in AlsoOf[req[w]], called \in IF ActionOf[req[w]] = "delete" THEN BOOLEAN ELSE {FALSE} :
          /\ writes' = [writes EXCEPT ![w] = held]
          /\ todo' = [todo EXCEPT ![w] = ({Own(w)} \cup also) \ held]
          /\ pc' = [pc EXCEPT ![w] = IF ({Own(w)} \cup also) \ held = {} THEN "insert" ELSE "write"]
          /\ callbacks' = [callbacks EXCEPT ![w] = called]
    BY <1>4 DEF Read
  <2> DEFINE left == ({Own(w)} \cup also) \ held
  <2>1. /\ writes' = [writes EXCEPT ![w] = held]
        /\ todo' = [todo EXCEPT ![w] = left]
        /\ pc' = [pc EXCEPT ![w] = IF left = {} THEN "insert" ELSE "write"]
        /\ callbacks' = [callbacks EXCEPT ![w] = called] /\ called \in BOOLEAN
    BY <2>0
  <2>2. /\ Fits(req[w], row[Own(w)])
        /\ record' = [record EXCEPT ![w] = "applied"]
        /\ basis' = [basis EXCEPT ![w] = row[Own(w)]]
        /\ UNCHANGED overtaken
    BY <1>4 DEF Read
  <2>3. req[w] \in Request /\ Own(w) \in Entity
    BY <1>1, IdType DEF InOp, OpLocked
  <2>4. also \subseteq Entity BY <2>1, <2>3, OpsConstants
  <2>5. "applied" \in Decision /\ "applied" \in Applied BY DEF Decision, Applied
  <2>6. row[Own(w)] \in Row BY <2>3 DEF TypeOK
  <2>7. /\ pc'[w] = IF left = {} THEN "insert" ELSE "write"
        /\ writes'[w] = held /\ todo'[w] = left /\ record'[w] = "applied" /\ basis'[w] = row[Own(w)]
        /\ \A u \in Worker : u # w => Same(u)
        /\ req' = req
    BY <1>1, <2>1, <2>2 DEF TypeOK, Same
  <2>8. TypeOK'
    <3>1. left \in SUBSET Entity /\ held \in SUBSET Entity BY <2>3, <2>4
    <3>2. /\ todo' \in [Worker -> SUBSET Entity] /\ writes' \in [Worker -> SUBSET Entity]
          /\ callbacks' \in [Worker -> BOOLEAN] /\ record' \in [Worker -> Decision]
      BY <2>1, <2>2, <2>5, <3>1 DEF TypeOK
    <3>3. basis' \in [Worker -> Row] BY <2>2, <2>6 DEF TypeOK
    <3>4. pc' \in [Worker -> InOp \cup {"idle", "ready"}]
      BY <2>1 DEF TypeOK, InOp, OpLocked
    <3>5. \A u \in Worker : pc'[u] \in InOp => req'[u] \in Request
      BY <2>3, <2>7 DEF TypeOK, Same
    <3>6. QED BY <1>1, <2>2, <3>2, <3>3, <3>4, <3>5 DEF TypeOK, database, history
  <2>9. Exclusion'
    <3>1. OpMutex' BY <1>1, <2>7 DEF Exclusion, OpMutex, OpLocked, Same, Id
    <3>2. EntityMutex' BY <1>1, <2>7 DEF Exclusion, EntityMutex, EntityLocked, Same, Own
    <3>3. DoneOnce' BY <2>7 DEF Exclusion, DoneOnce, Same, Id
    <3>4. \A u \in Worker : u # w => held \cap writes[u] = {}
      BY <1>1 DEF Free
    <3>5. RowMutex' BY <2>7, <3>4 DEF Exclusion, RowMutex, Same
    <3>6. QED BY <3>1, <3>2, <3>3, <3>5 DEF Exclusion
  <2>10. DecisionInv(w)'
    BY <1>1, <2>5, <2>7 DEF DecisionInv, Open, Id, history
  <2>11. TxnInv(w)'
    <3>1. Own(w)' = Own(w) /\ row' = row BY <1>1, <2>7 DEF Own, database
    <3>2. Fits(req[w], row[Own(w)])' BY <2>2, <2>7, <3>1 DEF Fits, Stale
    <3>3. Own(w) \in left => ActionOf[req[w]] \notin ReadsLocked OBVIOUS
    <3>4. QED BY <2>2, <2>5, <2>7, <3>1, <3>2, <3>3 DEF TxnInv, Fits, Stale
  <2>12. QED BY <1>1, <2>7, <2>8, <2>9, <2>10, <2>11, LocalKeeps DEF history
<1>5. QED BY <1>2, <1>3, <1>4

\* A row is written by one worker at a time.
LEMMA WriteKeeps ==
  ASSUME IInv, NEW w \in Worker, NEW r \in Entity, Write(w, r)
  PROVE  IInv'
<1> USE DEF IInv
<1>1. /\ pc[w] = "write" /\ r \in todo[w] /\ Free(w, r)
      /\ UNCHANGED <<database, req, sentFloor, history>>
  BY DEF Write, Ready
<1>2. CASE Reject(w) BY <1>1, <1>2, RejectKeeps
<1>3. CASE Pass(w) BY <1>1, <1>3, PassKeeps
<1>4. CASE ~Reject(w) /\ ~Pass(w)
  <2>1. /\ todo' = [todo EXCEPT ![w] = @ \ {r}]
        /\ writes' = [writes EXCEPT ![w] = @ \cup {r}] \/ writes' = writes
        /\ pc' = [pc EXCEPT ![w] = IF todo[w] = {r} THEN "insert" ELSE @]
        /\ UNCHANGED <<record, callbacks, basis, overtaken>>
    BY <1>4 DEF Write
  <2>2. /\ pc'[w] = IF todo[w] = {r} THEN "insert" ELSE "write"
        /\ todo'[w] = todo[w] \ {r} /\ writes'[w] \subseteq writes[w] \cup {r}
        /\ \A u \in Worker : u # w => Same(u)
        /\ UNCHANGED <<req, record, callbacks, basis, overtaken, row>>
    BY <1>1, <2>1 DEF TypeOK, Same, database
  <2>3. TypeOK'
    <3>1. /\ todo' \in [Worker -> SUBSET Entity] /\ writes' \in [Worker -> SUBSET Entity]
      BY <2>1 DEF TypeOK
    <3>2. pc' \in [Worker -> InOp \cup {"idle", "ready"}]
      BY <2>1 DEF TypeOK, InOp, OpLocked
    <3>3. \A u \in Worker : pc'[u] \in InOp => req'[u] \in Request
      BY <1>1, <2>2 DEF TypeOK, InOp, OpLocked, Same
    <3>4. QED BY <1>1, <2>1, <3>1, <3>2, <3>3 DEF TypeOK, database, history
  <2>4. Exclusion'
    <3>1. OpMutex' BY <1>1, <2>2 DEF Exclusion, OpMutex, OpLocked, Same, Id
    <3>2. EntityMutex' BY <1>1, <2>2 DEF Exclusion, EntityMutex, EntityLocked, Same, Own
    <3>3. DoneOnce' BY <1>1, <2>2 DEF Exclusion, DoneOnce, Same, Id
    <3>4. RowMutex' BY <1>1, <2>2 DEF Exclusion, RowMutex, Same, Free
    <3>5. QED BY <3>1, <3>2, <3>3, <3>4 DEF Exclusion
  <2>5. DecisionInv(w)' BY <1>1, <2>2 DEF DecisionInv, Open, Id, history
  <2>6. TxnInv(w)'
    <3>1. TxnInv(w) OBVIOUS
    <3>2. Own(w)' = Own(w) BY <2>2 DEF Own
    <3>3. todo'[w] \cup writes'[w] \subseteq todo[w] \cup writes[w] BY <1>1, <2>2
    <3>4. pc[w] = "write" /\ todo[w] \ {r} = {} => todo[w] = {r} BY <1>1
    <3>5. QED BY <1>1, <2>2, <3>1, <3>2, <3>3, <3>4 DEF TxnInv, Fits, Stale
  <2>7. QED BY <1>1, <2>2, <2>3, <2>4, <2>5, <2>6, LocalKeeps DEF history
<1>5. QED BY <1>2, <1>3, <1>4

-----------------------------------------------------------------------------
(* Steps that change what other workers rely on. *)

\* Refusing marks only an operation whose lock the worker holds.
LEMMA RefuseRetiredKeeps ==
  ASSUME IInv, NEW w \in Worker, RefuseRetired(w)
  PROVE  IInv'
<1> USE DEF IInv
<1>1. /\ pc[w] = "floor" /\ Retired(Id(w))
      /\ refused' = refused \cup {Id(w)}
      /\ UNCHANGED <<database, sentFloor, outcome, answered, cleaned, effect, other>>
      /\ End(w, "ready")
  BY DEF RefuseRetired
<1>2. Id(w) \in OpId BY <1>1, IdType DEF InOp, OpLocked
<1>3. /\ pc'[w] = "ready" /\ callbacks'[w] = FALSE /\ todo'[w] = {} /\ writes'[w] = {}
      /\ \A u \in Worker : u # w => Same(u)
  BY <1>1, EndFacts
<1>4. TypeOK'
  <2>1. refused' \subseteq OpId BY <1>1, <1>2 DEF TypeOK
  <2>2. QED BY <1>1, <2>1, EndFacts DEF TypeOK, database
<1>5. Exclusion' BY <1>1, EndExclusion
<1>6. ASSUME NEW u \in Worker PROVE DecisionInv(u)' /\ TxnInv(u)'
  <2>1. CASE u = w BY <1>3, <2>1 DEF DecisionInv, TxnInv, Open
  <2>2. CASE u # w
    <3>1. pc[u] \in Open => Id(u) # Id(w)
      BY <1>1, <2>2 DEF Exclusion, OpMutex, OpLocked, Open
    <3>2. Same(u) BY <1>3, <2>2
    <3>3. Id(u)' = Id(u) /\ Own(u)' = Own(u) /\ RecordOf(u)' = RecordOf(u)
      BY <3>2 DEF Same, Id, Own, RecordOf
    <3>4. DecisionInv(u)' BY <1>1, <3>1, <3>2, <3>3 DEF DecisionInv, Same, Open, Retired, database
    <3>5. TxnInv(u)' BY <1>1, <3>2, <3>3 DEF TxnInv, Same, Fits, Stale, database
    <3>6. QED BY <3>4, <3>5
  <2>3. QED BY <2>1, <2>2
<1>7. \A o \in OpId : OpInv(o)' BY <1>1 DEF OpInv, Retired, database
<1>8. QED BY <1>4, <1>5, <1>6, <1>7

\* Whoever writes rows that nobody else has locked leaves every other worker the
\* row it has locked, and marks those that have yet to lock theirs.
LEMMA OvertakesKeeps ==
  ASSUME IInv, NEW u \in Worker, NEW rows \in SUBSET Entity,
         rows \cap writes[u] = {},
         pc'[u] = pc[u] /\ req'[u] = req[u] /\ record'[u] = record[u],
         basis'[u] = basis[u] /\ todo'[u] = todo[u] /\ writes'[u] = writes[u],
         overtaken'[u] = Overtakes(rows)[u],
         \A e \in Entity \ rows : row'[e] = row[e]
  PROVE  TxnInv(u)'
<1>1. Own(u)' = Own(u) BY DEF Own
<1>2. TxnInv(u) BY DEF IInv
<1>3. overtaken'[u] = (overtaken[u] \/ (pc[u] = "write" /\ Own(u) \in todo[u] \cap rows))
  BY DEF Overtakes
<1>4. ASSUME Own(u) \in todo[u] \cup writes[u]
      PROVE  row'[Own(u)] = basis[u] \/ (overtaken'[u] /\ ActionOf[req[u]] \notin ReadsLocked)
  <2>1. Own(u) \in Entity BY <1>4 DEF IInv, TypeOK
  <2>2. CASE Own(u) \in rows
    <3>1. Own(u) \in todo[u] BY <1>4, <2>2
    <3>2. QED BY <1>2, <1>3, <2>2, <3>1 DEF TxnInv
  <2>3. CASE Own(u) \notin rows
    <3>1. row'[Own(u)] = row[Own(u)] BY <2>1, <2>3
    <3>2. QED BY <1>2, <1>3, <1>4, <3>1 DEF TxnInv
  <2>4. QED BY <2>2, <2>3
<1>5. QED BY <1>1, <1>2, <1>4 DEF TxnInv, Fits, Stale

\* Others write rows that no handler has locked.
LEMMA OtherWriteKeeps ==
  ASSUME IInv, NEW e \in Entity, NEW status \in {"absent", "live", "deleted"}, OtherWrite(e, status)
  PROVE  IInv'
<1> USE DEF IInv
<1>1. /\ \A w \in Worker : e \notin writes[w]
      /\ row' = [row EXCEPT ![e] = [version |-> @.version + 1, status |-> status]]
      /\ other' = [other EXCEPT ![e] = @ + 1]
      /\ overtaken' = Overtakes({e})
      /\ UNCHANGED <<receipts, floor, pc, sentFloor, req, record, callbacks, basis, todo, writes,
                     outcome, answered, cleaned, refused, effect>>
  BY DEF OtherWrite
<1>2. TypeOK'
  <2>1. row[e] \in Row BY DEF TypeOK
  <2>2. [version |-> row[e].version + 1, status |-> status] \in Row BY <2>1 DEF Row
  <2>3. row' \in [Entity -> Row] BY <1>1, <2>2 DEF TypeOK
  <2>4. other' \in [Entity -> Nat] BY <1>1 DEF TypeOK
  <2>5. overtaken' \in [Worker -> BOOLEAN] BY <1>1 DEF TypeOK, Overtakes
  <2>6. QED BY <1>1, <2>3, <2>4, <2>5 DEF TypeOK
<1>3. Exclusion'
  BY <1>1 DEF Exclusion, OpMutex, EntityMutex, RowMutex, DoneOnce, Id, Own
<1>4. \A u \in Worker : DecisionInv(u)'
  BY <1>1 DEF DecisionInv, RecordOf, Id, Retired
<1>5. ASSUME NEW u \in Worker PROVE TxnInv(u)'
  <2>1. {e} \cap writes[u] = {} BY <1>1
  <2>2. \A f \in Entity \ {e} : row'[f] = row[f] BY <1>1 DEF TypeOK
  <2>3. QED BY <1>1, <2>1, <2>2, OvertakesKeeps
<1>6. \A o \in OpId : OpInv(o)' BY <1>1 DEF OpInv, Retired
<1>7. QED BY <1>2, <1>3, <1>4, <1>5, <1>6

\* A row that is written is a row.
LEMMA AfterType ==
  ASSUME NEW q \in Request, NEW x \in Row
  PROVE  After(q, x) \in Row /\ After(q, x).version = x.version + 1
BY DEF After, Row

\* A commit decides an undecided operation and changes the rows it has locked.
LEMMA CommitKeeps ==
  ASSUME IInv, NEW w \in Worker, Commit(w)
  PROVE  IInv'
<1> USE DEF IInv
<1>1. /\ pc[w] \in {"insert", "reject"}
      /\ receipts[Id(w)] = NoReceipt
      /\ UNCHANGED <<floor, sentFloor, req, record, callbacks, todo, answered, cleaned, refused, other>>
  BY DEF Commit
<1>2. Id(w) \in OpId /\ req[w] \in Request /\ Own(w) \in Entity
  BY <1>1, IdType DEF InOp, OpLocked
<1>3. RecordOf(w) \in Receipt /\ RecordOf(w) # NoReceipt
  BY <1>1, RecordType DEF InOp, OpLocked
<1>4. /\ \A u \in Worker : pc'[u] = IF u = w THEN "done" ELSE pc[u]
      /\ \A o \in OpId : outcome'[o] = IF o = Id(w) THEN RecordOf(w) ELSE outcome[o]
      /\ \A o \in OpId : receipts'[o] = IF o = Id(w) THEN RecordOf(w) ELSE receipts[o]
      /\ \A o \in OpId : effect'[o] = IF o = Id(w) THEN effect[o] \cup writes[w] ELSE effect[o]
  BY DEF Commit, TypeOK, RecordOf
<1>5. /\ basis'[w] = NoRow /\ writes'[w] = {} /\ overtaken'[w] = FALSE
      /\ \A u \in Worker : u # w =>
           /\ basis'[u] = basis[u] /\ writes'[u] = writes[u]
           /\ overtaken'[u] = Overtakes(writes[w] \ {Own(w)})[u]
  BY DEF Commit, TypeOK, Overtakes
<1>6. \A e \in Entity : row'[e] = IF e \in writes[w] THEN After(req[w], row[e]) ELSE row[e]
  BY DEF Commit
<1>7. TypeOK'
  <2>1. receipts' \in [OpId -> Receipt \cup {NoReceipt}] BY <1>3 DEF TypeOK, Commit, RecordOf
  <2>2. outcome' \in [OpId -> Receipt \cup {NoReceipt}] BY <1>3 DEF TypeOK, Commit, RecordOf
  <2>3. row' \in [Entity -> Row]
    <3>1. \A e \in Entity : row'[e] \in Row BY <1>2, <1>6, AfterType DEF TypeOK
    <3>2. QED BY <3>1 DEF Commit
  <2>4. pc' \in [Worker -> InOp \cup {"idle", "ready"}] BY DEF TypeOK, Commit, InOp
  <2>5. basis' \in [Worker -> Row] BY DEF TypeOK, Commit, NoRow, Row
  <2>6. writes' \in [Worker -> SUBSET Entity] BY DEF TypeOK, Commit
  <2>7. overtaken' \in [Worker -> BOOLEAN] BY DEF TypeOK, Commit, Overtakes
  <2>8. effect' \in [OpId -> SUBSET Entity] BY DEF TypeOK, Commit
  <2>9. \A u \in Worker : pc'[u] \in InOp => req'[u] \in Request
    BY <1>1, <1>2, <1>4 DEF TypeOK
  <2>10. QED BY <1>1, <2>1, <2>2, <2>3, <2>4, <2>5, <2>6, <2>7, <2>8, <2>9 DEF TypeOK
<1>8. outcome[Id(w)] = NoReceipt /\ Id(w) \notin refused BY <1>1 DEF DecisionInv, Open
<1>9. ASSUME NEW u \in Worker, pc[u] \in {"done", "reply"} PROVE Id(u) # Id(w)
  <2>1. outcome[Id(u)] = RecordOf(u) BY <1>9 DEF DecisionInv
  <2>2. RecordOf(u) # NoReceipt BY <1>9, RecordType DEF InOp
  <2>3. QED BY <1>8, <2>1, <2>2
<1>10. Exclusion'
  <2>1. OpMutex' /\ EntityMutex'
    BY <1>1, <1>4 DEF Exclusion, OpMutex, EntityMutex, OpLocked, EntityLocked, Id, Own
  <2>2. DoneOnce' BY <1>1, <1>4, <1>9 DEF Exclusion, DoneOnce, Id
  <2>3. RowMutex' BY <1>5 DEF Exclusion, RowMutex
  <2>4. QED BY <2>1, <2>2, <2>3 DEF Exclusion
<1>11. ASSUME NEW u \in Worker PROVE DecisionInv(u)'
  <2>1. CASE u = w
    <3>1. outcome'[Id(w)] = RecordOf(w) BY <1>2, <1>4
    <3>2. cleaned[Id(w)] = 0 BY <1>2, <1>8 DEF OpInv
    <3>3. callbacks[w] => record[w] \in Applied BY DEF DecisionInv
    <3>4. QED BY <1>1, <1>4, <2>1, <3>1, <3>2, <3>3 DEF DecisionInv, RecordOf, Open, Id
  <2>2. CASE u # w
    <3>1. pc[u] \in OpLocked \cup {"done", "reply"} => Id(u) # Id(w) /\ Id(u) \in OpId
      <4>1. pc[u] \in OpLocked => Id(u) # Id(w)
        BY <1>1, <2>2 DEF Exclusion, OpMutex, OpLocked
      <4>2. pc[u] \in OpLocked \cup {"done", "reply"} => Id(u) \in OpId BY IdType DEF InOp
      <4>3. QED BY <1>9, <4>1, <4>2
    <3>2. pc[u] \in OpLocked \cup {"done", "reply"} => outcome'[Id(u)] = outcome[Id(u)]
      BY <1>4, <3>1
    <3>3. pc'[u] = pc[u] /\ Id(u)' = Id(u) /\ RecordOf(u)' = RecordOf(u)
      BY <1>1, <1>4, <2>2 DEF Id, RecordOf
    <3>4. QED BY <1>1, <3>2, <3>3 DEF DecisionInv, Open, OpLocked, Retired
  <2>3. QED BY <2>1, <2>2
<1>12. ASSUME NEW u \in Worker PROVE TxnInv(u)'
  <2>1. CASE u = w
    <3>1. todo[w] = {} BY <1>1 DEF TxnInv
    <3>2. QED BY <1>1, <1>4, <1>5, <2>1, <3>1 DEF TxnInv
  <2>2. CASE u # w
    <3>1. CASE Own(u) \in todo[u] \cup writes[u] /\ Own(w) = Own(u)
      \* Both would hold the lock on the entity.
      <4>1. pc[u] \in EntityLocked BY <3>1 DEF TxnInv, EntityLocked
      <4>2. pc[w] \notin EntityLocked BY <2>2, <3>1, <4>1 DEF Exclusion, EntityMutex
      <4>3. writes[w] = {} BY <4>2 DEF TxnInv, EntityLocked
      <4>4. \A e \in Entity : row'[e] = row[e] BY <1>6, <4>3
      <4>5. QED BY <1>1, <1>4, <1>5, <2>2, <4>3, <4>4, OvertakesKeeps
    <3>2. CASE Own(u) \in todo[u] \cup writes[u] /\ Own(w) # Own(u)
      <4> DEFINE rows == writes[w] \ {Own(w)}
      <4>1. TxnInv(u) OBVIOUS
      <4>2. Own(u) \in Entity BY <3>2 DEF TypeOK
      <4>3. writes[w] \cap writes[u] = {} BY <2>2 DEF Exclusion, RowMutex
      <4>4. overtaken'[u] = (overtaken[u] \/ (pc[u] = "write" /\ Own(u) \in todo[u] \cap rows))
        BY <1>5, <2>2 DEF Overtakes
      <4>5. row'[Own(u)] = basis[u] \/ (overtaken'[u] /\ ActionOf[req[u]] \notin ReadsLocked)
        <5>1. CASE Own(u) \in writes[w]
          <6>1. Own(u) \in todo[u] BY <3>2, <4>3, <5>1
          <6>2. Own(u) \in rows BY <3>2, <5>1
          <6>3. QED BY <4>1, <4>4, <6>1, <6>2 DEF TxnInv
        <5>2. CASE Own(u) \notin writes[w]
          BY <1>6, <3>2, <4>1, <4>2, <4>4, <5>2 DEF TxnInv
        <5>3. QED BY <5>1, <5>2
      <4>6. Own(u)' = Own(u) BY <1>1 DEF Own
      <4>7. QED BY <1>1, <1>4, <1>5, <2>2, <4>1, <4>5, <4>6 DEF TxnInv, Fits, Stale
    <3>3. CASE Own(u) \notin todo[u] \cup writes[u]
      <4>1. TxnInv(u) OBVIOUS
      <4>2. Own(u)' = Own(u) BY <1>1 DEF Own
      <4>3. QED BY <1>1, <1>4, <1>5, <2>2, <3>3, <4>1, <4>2 DEF TxnInv
    <3>4. QED BY <3>1, <3>2, <3>3
  <2>3. QED BY <2>1, <2>2
<1>13. ASSUME NEW o \in OpId PROVE OpInv(o)'
  <2>1. CASE o = Id(w)
    <3>1. receipts'[o] = RecordOf(w) /\ outcome'[o] = RecordOf(w) BY <1>2, <1>4, <2>1
    <3>2. cleaned[o] = 0 /\ effect[o] = {} BY <1>8, <2>1 DEF OpInv
    <3>3. IdOf[RecordOf(w).mac] = o BY <2>1 DEF RecordOf, Id
    <3>4. effect'[o] # {} => RecordOf(w).status \in Applied
      BY <1>2, <1>4, <2>1, <3>2 DEF TxnInv, RecordOf
    <3>5. QED BY <1>1, <1>3, <1>8, <2>1, <3>1, <3>2, <3>3, <3>4 DEF OpInv
  <2>2. CASE o # Id(w)
    BY <1>1, <1>4, <2>2 DEF OpInv, Retired
  <2>3. QED BY <2>1, <2>2
<1>14. QED BY <1>7, <1>10, <1>11, <1>12, <1>13

\* The callbacks of a commit run once, for the decision that was committed.
LEMMA RunCallbacksKeeps ==
  ASSUME IInv, NEW w \in Worker, RunCallbacks(w)
  PROVE  IInv'
<1> USE DEF IInv
<1>1. /\ pc[w] = "done"
      /\ UNCHANGED <<database, sentFloor, local, outcome, answered, refused, effect, other>>
  BY DEF RunCallbacks
<1>2. Id(w) \in OpId BY <1>1, IdType DEF InOp
<1>3. /\ \A u \in Worker : pc'[u] = IF u = w THEN "reply" ELSE pc[u]
      /\ \A o \in OpId : cleaned'[o] = IF o = Id(w) /\ callbacks[w] THEN cleaned[o] + 1 ELSE cleaned[o]
  BY DEF RunCallbacks, TypeOK
<1>4. TypeOK'
  <2>1. cleaned' \in [OpId -> Nat] BY <1>2 DEF TypeOK, RunCallbacks
  <2>2. pc' \in [Worker -> InOp \cup {"idle", "ready"}] BY DEF TypeOK, RunCallbacks, InOp
  <2>3. \A u \in Worker : pc'[u] \in InOp => req'[u] \in Request
    BY <1>1, <1>3 DEF TypeOK, InOp, local
  <2>4. QED BY <1>1, <2>1, <2>2, <2>3 DEF TypeOK, database, local, txn
<1>5. Exclusion'
  BY <1>1, <1>3 DEF Exclusion, OpMutex, EntityMutex, RowMutex, DoneOnce, OpLocked, EntityLocked, Id, Own,
     local, txn
<1>6. outcome[Id(w)] = RecordOf(w) /\ cleaned[Id(w)] = 0 /\ (callbacks[w] => record[w] \in Applied)
  BY <1>1 DEF DecisionInv
<1>7. ASSUME NEW u \in Worker PROVE DecisionInv(u)'
  <2>1. CASE u = w
    BY <1>1, <1>3, <1>6, <2>1 DEF DecisionInv, RecordOf, Open, Id, local
  <2>2. CASE u # w
    <3>1. pc[u] = "done" => Id(u) # Id(w) /\ Id(u) \in OpId
      BY <1>1, <2>2, IdType DEF Exclusion, DoneOnce, InOp
    <3>2. QED
      BY <1>1, <1>3, <2>2, <3>1 DEF DecisionInv, RecordOf, Id, Retired, database, local
  <2>3. QED BY <2>1, <2>2
<1>8. ASSUME NEW u \in Worker PROVE TxnInv(u)'
  BY <1>1, <1>3 DEF TxnInv, Own, Fits, Stale, database, local, txn
<1>9. ASSUME NEW o \in OpId PROVE OpInv(o)'
  <2>1. CASE o = Id(w) /\ callbacks[w]
    <3>1. cleaned'[o] = 1 /\ outcome[o].status \in Applied BY <1>3, <1>6, <2>1 DEF RecordOf
    <3>2. outcome[o] # NoReceipt BY <1>1, <1>6, <2>1, RecordType DEF InOp
    <3>3. QED BY <1>1, <3>1, <3>2 DEF OpInv, Retired, database
  <2>2. CASE ~(o = Id(w) /\ callbacks[w])
    BY <1>1, <1>3, <2>2 DEF OpInv, Retired, database
  <2>3. QED BY <2>1, <2>2
<1>10. QED BY <1>4, <1>5, <1>7, <1>8, <1>9

\* What is reported is the decision.
LEMMA ReplyKeeps ==
  ASSUME IInv, NEW w \in Worker, Reply(w)
  PROVE  IInv'
<1> USE DEF IInv
<1>1. /\ pc[w] = "reply" /\ End(w, "ready")
      /\ UNCHANGED <<database, sentFloor, outcome, cleaned, refused, effect, other>>
      /\ answered' = answered \cup {<<req[w], record[w]>>}
  BY DEF Reply
<1>2. req[w] \in Request /\ record[w] \in Decision
  BY <1>1, IdType DEF InOp, TypeOK
<1>3. sentFloor' \in [Worker -> 0..MaxFloor] /\ answered' \subseteq Request \X Decision
  BY <1>1, <1>2 DEF TypeOK
<1>4. QED BY <1>1, <1>3, EndKeeps

-----------------------------------------------------------------------------
(* The invariant. *)

\* Every step keeps the invariant; one case per action.
LEMMA IInvStep ==
  ASSUME IInv, [Next]_vars
  PROVE  IInv'
<1>1. CASE \E w \in Worker, d \in Device, f \in 0..MaxFloor : RaiseFloor(w, d, f)
  BY <1>1, RaiseFloorKeeps
<1>2. CASE \E w \in Worker, q \in Request : Take(w, q)
  BY <1>2, TakeKeeps
<1>3. CASE \E w \in Worker : Step(w)
  BY <1>3, LockOpKeeps, LookupKeeps, RefuseRetiredKeeps, PassFloorKeeps, LockEntityKeeps, ReadKeeps,
     WriteKeeps, CommitKeeps, RunCallbacksKeeps, ReplyKeeps DEF Step
<1>4. CASE \E e \in Entity, status \in {"absent", "live", "deleted"} : OtherWrite(e, status)
  BY <1>4, OtherWriteKeeps
<1>5. ASSUME NEW w \in Worker, Fail(w) PROVE IInv'
  <2>1. sentFloor' \in [Worker -> 0..MaxFloor] /\ answered' \subseteq Request \X Decision
    BY <1>5 DEF Fail, IInv, TypeOK, history
  <2>2. QED BY <1>5, <2>1, EndKeeps DEF Fail, history
<1>6. ASSUME NEW w \in Worker, Leave(w) PROVE IInv'
  <2>1. sentFloor' \in [Worker -> 0..MaxFloor] /\ answered' \subseteq Request \X Decision
    BY <1>6, OpsConstants DEF Leave, IInv, TypeOK, history
  <2>2. QED BY <1>6, <2>1, EndKeeps DEF Leave, history
<1>7. CASE \E gone \in SUBSET OpId : Purge(gone)
  BY <1>7, PurgeKeeps
<1>8. CASE UNCHANGED vars
  <2> USE <1>8 DEF vars, database, local, txn, history, IInv
  <2>1. TypeOK' /\ Exclusion'
    BY DEF TypeOK, Exclusion, OpMutex, EntityMutex, RowMutex, DoneOnce, Id, Own
  <2>2. \A w \in Worker : DecisionInv(w)' /\ TxnInv(w)'
    BY DEF DecisionInv, TxnInv, RecordOf, Id, Own, Retired, Fits, Stale
  <2>3. \A o \in OpId : OpInv(o)' BY DEF OpInv, Retired
  <2>4. QED BY <2>1, <2>2, <2>3
<1>9. QED BY <1>1, <1>2, <1>3, <1>4, <1>5, <1>6, <1>7, <1>8 DEF Next

\* Locks exclude, an operation past its floor check is undecided, receipts tell the
\* truth, and what a worker has read holds until it commits: the strengthening every
\* theorem below rests on.
THEOREM InductiveInvariant == Spec => []IInv
BY InitIInv, IInvStep, PTL DEF Spec

\* Every state of the handlers, the receipts and the floors has its type.
THEOREM TypeCorrect == Spec => []TypeOK
<1>1. IInv => TypeOK BY DEF IInv
<1>2. QED BY <1>1, InductiveInvariant, PTL

\* A decided operation keeps its receipt until its device has retired it.
THEOREM ReceiptKeptHolds == Spec => []ReceiptKept
<1>1. IInv => ReceiptKept BY DEF IInv, OpInv, ReceiptKept
<1>2. QED BY <1>1, InductiveInvariant, PTL

\* after_commit callbacks run at most once and only for a committed effect.
THEOREM CallbacksAfterCommitHolds == Spec => []CallbacksAfterCommit
<1>1. IInv => CallbacksAfterCommit
  <2> SUFFICES ASSUME IInv, NEW o \in OpId, cleaned[o] > 0
               PROVE  cleaned[o] = 1 /\ outcome[o] # NoReceipt /\ outcome[o].status \in Applied
    BY DEF CallbacksAfterCommit
  <2>1. QED BY DEF IInv, OpInv
<1>2. QED BY <1>1, InductiveInvariant, PTL

\* Whatever the other handlers and the rest of the application write meanwhile, an
\* operation changes its own row only if the row it read allowed that, and that row
\* is the same still or was overtaken by a writer without the lock on the entity;
\* for an operation that reads its row FOR UPDATE it is the same.
THEOREM NoLostUpdateHolds == Spec => NoLostUpdate
<1>1. ASSUME IInv, NEW w \in Worker, Commit(w), Own(w) \in writes[w]
      PROVE  /\ Fits(req[w], basis[w])
             /\ row[Own(w)] = basis[w] \/ (overtaken[w] /\ ActionOf[req[w]] \notin ReadsLocked)
  BY <1>1 DEF IInv, TxnInv
<1>2. IInv /\ [Next]_vars =>
        [\A w \in Worker : Commit(w) /\ Own(w) \in writes[w] =>
           /\ Fits(req[w], basis[w])
           /\ row[Own(w)] = basis[w] \/ (overtaken[w] /\ ActionOf[req[w]] \notin ReadsLocked)]_vars
  BY <1>1
<1>3. QED BY <1>2, InductiveInvariant, PTL DEF Spec, NoLostUpdate

-----------------------------------------------------------------------------
(* The handlers implement OnceOnly. *)

\* A commit decides, a reply reports, a refusal of a retired operation refuses;
\* every other step is invisible.
LEMMA OnceStep ==
  ASSUME IInv, [Next]_vars
  PROVE  [Once!Next]_<<outcome, answered, refused>>
<1>1. ASSUME NEW w \in Worker, Commit(w) PROVE Once!Next
  <2>1. req[w] \in Request /\ record[w] \in Decision
    BY <1>1, IdType DEF Commit, IInv, TypeOK, InOp, OpLocked
  <2>2. outcome[Id(w)] = NoReceipt /\ Id(w) \notin refused
    BY <1>1 DEF Commit, IInv, DecisionInv, Open
  <2>3. Once!Decide(req[w], record[w]) BY <1>1, <2>2 DEF Commit, Once!Decide, Id
  <2>4. QED BY <2>1, <2>3 DEF Once!Next
<1>2. ASSUME NEW w \in Worker, Reply(w) PROVE Once!Next
  <2>1. pc[w] = "reply" /\ req[w] \in Request BY <1>2, IdType DEF Reply, IInv, InOp
  <2>2. outcome[Id(w)] = RecordOf(w) /\ RecordOf(w) # NoReceipt
    BY <2>1, RecordType DEF IInv, DecisionInv, InOp
  <2>3. outcome[Id(w)].mac = req[w] /\ outcome[Id(w)].status = record[w]
    BY <2>2 DEF RecordOf
  <2>4. Once!Report(req[w]) BY <1>2, <2>2, <2>3 DEF Reply, Once!Report, Id
  <2>5. QED BY <2>1, <2>4 DEF Once!Next
<1>3. ASSUME NEW w \in Worker, RefuseRetired(w) PROVE Once!Next
  <2>1. req[w] \in Request BY <1>3, IdType DEF RefuseRetired, IInv, InOp, OpLocked
  <2>2. Once!Refuse(req[w]) BY <1>3 DEF RefuseRetired, Once!Refuse, Id
  <2>3. QED BY <2>1, <2>2 DEF Once!Next
<1>4. ASSUME NEW w \in Worker,
             LockOp(w) \/ Lookup(w) \/ PassFloor(w) \/ LockEntity(w) \/ RunCallbacks(w) \/ Fail(w) \/ Leave(w)
      PROVE  UNCHANGED <<outcome, answered, refused>>
  BY <1>4 DEF LockOp, Lookup, PassFloor, LockEntity, RunCallbacks, Fail, Leave, history
<1>5. ASSUME NEW w \in Worker, Read(w) \/ \E r \in Entity : Write(w, r)
      PROVE  UNCHANGED <<outcome, answered, refused>>
  <2>1. UNCHANGED history BY <1>5 DEF Read, Write
  <2>2. QED BY <2>1 DEF history
<1>6. ASSUME NEW w \in Worker, NEW d \in Device, NEW f \in 0..MaxFloor, RaiseFloor(w, d, f)
      PROVE  UNCHANGED <<outcome, answered, refused>>
  BY <1>6 DEF RaiseFloor, history
<1>7. ASSUME NEW w \in Worker, NEW q \in Request, Take(w, q)
      PROVE  UNCHANGED <<outcome, answered, refused>>
  BY <1>7 DEF Take, history
<1>8. ASSUME NEW e \in Entity, NEW status \in {"absent", "live", "deleted"}, OtherWrite(e, status)
      PROVE  UNCHANGED <<outcome, answered, refused>>
  BY <1>8 DEF OtherWrite
<1>9. ASSUME NEW gone \in SUBSET OpId, Purge(gone) PROVE UNCHANGED <<outcome, answered, refused>>
  BY <1>9 DEF Purge, history
<1>10. CASE UNCHANGED vars BY <1>10 DEF vars, history
<1>11. QED
  BY <1>1, <1>2, <1>3, <1>4, <1>5, <1>6, <1>7, <1>8, <1>9, <1>10 DEF Next, Step

\* Whatever is resent, raced, retired or purged, an op_id is decided once, for one
\* request, never after it was refused as retired, and every answer from a record
\* reports that decision to that request.
THEOREM ImplementsOnceOnly == Spec => OnceOnlySpec
<1>1. Init => Once!Init BY DEF Init, Once!Init
<1>2. QED BY <1>1, OnceStep, InductiveInvariant, PTL DEF Spec, OnceOnlySpec, Once!Spec

-----------------------------------------------------------------------------
(* Every write of a row is the one effect of an operation, or of others. *)

\* The operations that have changed a row.
ChangedBy(e) == {o \in OpId : e \in effect[o]}

Counted == \A e \in Entity : row[e].version = Cardinality(ChangedBy(e)) + other[e]

\* Commits and others are the only ones to change a row.
LEMMA OnlyWriters ==
  ASSUME [Next]_vars, ~\E w \in Worker : Commit(w),
         ~\E e \in Entity, status \in {"absent", "live", "deleted"} : OtherWrite(e, status)
  PROVE  UNCHANGED <<row, effect, other>>
BY DEF Next, RaiseFloor, Take, Step, LockOp, Lookup, RefuseRetired, PassFloor, LockEntity, Read, Write,
   RunCallbacks, Reply, Fail, Leave, Purge, vars, database, history

\* Each write of a row is counted once, and a committed operation had changed no
\* row before.
LEMMA CountedStep ==
  ASSUME IInv, Counted, [Next]_vars
  PROVE  Counted'
<1>1. CASE /\ ~\E w \in Worker : Commit(w)
           /\ ~\E e \in Entity, status \in {"absent", "live", "deleted"} : OtherWrite(e, status)
  BY <1>1, OnlyWriters DEF Counted, ChangedBy
<1>2. ASSUME NEW w \in Worker, Commit(w), NEW e \in Entity
      PROVE  row'[e].version = Cardinality(ChangedBy(e)') + other'[e]
  <2>1. Id(w) \in OpId /\ req[w] \in Request
    BY <1>2, IdType DEF Commit, IInv, InOp, OpLocked
  <2>2. outcome[Id(w)] = NoReceipt BY <1>2 DEF Commit, IInv, DecisionInv, Open
  <2>3. effect[Id(w)] = {} BY <2>1, <2>2 DEF IInv, OpInv
  <2>4. \A o \in OpId : effect'[o] = IF o = Id(w) THEN writes[w] ELSE effect[o]
    BY <1>2, <2>1, <2>3 DEF Commit, IInv, TypeOK
  <2>5. Id(w) \notin ChangedBy(e) BY <2>3 DEF ChangedBy
  <2>6. IsFiniteSet(ChangedBy(e)) BY OpsConstants, FS_Subset DEF ChangedBy
  <2>7. /\ row[e].version = Cardinality(ChangedBy(e)) + other[e]
        /\ row[e] \in Row /\ other[e] \in Nat /\ other'[e] = other[e]
        /\ Cardinality(ChangedBy(e)) \in Nat
    BY <1>2, <2>6, FS_CardinalityType DEF Counted, Commit, IInv, TypeOK
  <2>8. CASE e \in writes[w]
    <3>1. ChangedBy(e)' = ChangedBy(e) \cup {Id(w)} BY <2>1, <2>4, <2>8 DEF ChangedBy
    <3>2. row'[e].version = row[e].version + 1 BY <1>2, <2>1, <2>7, <2>8, AfterType DEF Commit
    <3>3. Cardinality(ChangedBy(e) \cup {Id(w)}) = Cardinality(ChangedBy(e)) + 1
      BY <2>5, <2>6, FS_AddElement
    <3>4. QED BY <2>7, <3>1, <3>2, <3>3
  <2>9. CASE e \notin writes[w]
    <3>1. ChangedBy(e)' = ChangedBy(e) BY <2>3, <2>4, <2>9 DEF ChangedBy
    <3>2. row'[e] = row[e] BY <1>2, <2>9 DEF Commit
    <3>3. QED BY <2>7, <3>1, <3>2
  <2>10. QED BY <2>8, <2>9
<1>3. ASSUME NEW e \in Entity, NEW status \in {"absent", "live", "deleted"}, OtherWrite(e, status),
             NEW f \in Entity
      PROVE  row'[f].version = Cardinality(ChangedBy(f)') + other'[f]
  <2>1. ChangedBy(f)' = ChangedBy(f) BY <1>3 DEF OtherWrite, ChangedBy
  <2>2. IsFiniteSet(ChangedBy(f)) BY OpsConstants, FS_Subset DEF ChangedBy
  <2>3. /\ row[f].version = Cardinality(ChangedBy(f)) + other[f]
        /\ Cardinality(ChangedBy(f)) \in Nat /\ other[f] \in Nat
    BY <2>2, FS_CardinalityType DEF Counted, IInv, TypeOK
  <2>4. /\ row'[f].version = IF f = e THEN row[f].version + 1 ELSE row[f].version
        /\ other'[f] = IF f = e THEN other[f] + 1 ELSE other[f]
    BY <1>3 DEF OtherWrite, IInv, TypeOK
  <2>5. QED BY <2>1, <2>3, <2>4
<1>4. QED BY <1>1, <1>2, <1>3 DEF Counted

\* Every write of a row is the one effect of an operation decided as applied, or of
\* another part of the application.
THEOREM EffectOnceHolds == Spec => []EffectOnce
<1>1. Init => Counted
  <2> SUFFICES ASSUME Init, NEW e \in Entity PROVE row[e].version = Cardinality(ChangedBy(e)) + other[e]
    BY DEF Counted
  <2>1. ChangedBy(e) = {} BY DEF Init, ChangedBy
  <2>2. QED BY <2>1, FS_EmptySet DEF Init
<1>2. IInv /\ Counted => EffectOnce BY DEF IInv, OpInv, Counted, ChangedBy, EffectOnce
<1>3. QED BY <1>1, <1>2, CountedStep, InductiveInvariant, PTL DEF Spec

-----------------------------------------------------------------------------
(* The locks let the handlers through: the core of Served that is not about  *)
(* fairness.                                                                  *)

\* The next statement of w waits for a lock that one of S holds, or fails on the
\* primary key of the receipts.
Stuck(w, S) ==
  \/ pc[w] = "oplock" /\ \E u \in S : pc[u] \in OpLocked /\ Id(u) = Id(w)
  \/ pc[w] = "entity" /\ \E u \in S : pc[u] \in EntityLocked /\ Own(u) = Own(w)
  \/ pc[w] = "apply" /\ \E u \in S \ {w} : Own(w) \in writes[u]
  \/ pc[w] = "write" /\ \A r \in Ready(w) : \E u \in S \ {w} : r \in writes[u]
  \/ pc[w] \in {"insert", "reject"} /\ receipts[Id(w)] # NoReceipt

\* Handlers that wait only for each other are in a ring of row locks, or behind one:
\* the two advisory locks take no part in any deadlock, and the receipt of an
\* operation that was applied is never there already.  A ring of row locks is what
\* the detector of the database breaks.
THEOREM LocksLetThrough ==
  Spec => []\A S \in SUBSET Worker :
              S # {} /\ (\A w \in S : Stuck(w, S)) => Ring({w \in S : pc[w] = "write"})
<1>1. ASSUME IInv, NEW S \in SUBSET Worker, S # {}, \A w \in S : Stuck(w, S)
      PROVE  Ring({w \in S : pc[w] = "write"})
  <2> DEFINE W == {w \in S : pc[w] = "write"}
  <2>1. ASSUME NEW u \in S PROVE pc[u] \in {"oplock", "entity", "apply", "write"}
    <3>1. Stuck(u, S) BY <1>1
    <3>2. ASSUME pc[u] \in {"insert", "reject"} PROVE receipts[Id(u)] = NoReceipt
      <4>1. Id(u) \in OpId BY <1>1, <3>2, IdType DEF IInv, InOp, OpLocked
      <4>2. outcome[Id(u)] = NoReceipt BY <1>1, <3>2 DEF IInv, DecisionInv, Open
      <4>3. QED BY <1>1, <4>1, <4>2 DEF IInv, OpInv
    <3>3. QED BY <3>1, <3>2 DEF Stuck
  <2>2. ASSUME NEW u \in S, writes[u] # {} PROVE u \in W
    <3>1. pc[u] \in {"write", "insert"} BY <1>1, <2>2 DEF IInv, TxnInv
    <3>2. QED BY <2>1, <3>1
  <2>3. ASSUME NEW w \in W
        PROVE  /\ pc[w] = "write" /\ Ready(w) # {}
               /\ \A r \in Ready(w) : \E u \in W \ {w} : r \in writes[u]
    <3>1. todo[w] # {} BY <1>1 DEF IInv, TxnInv
    <3>2. Ready(w) # {} BY <3>1 DEF Ready
    <3>3. \A r \in Ready(w) : \E u \in S \ {w} : r \in writes[u] BY <1>1 DEF Stuck
    <3>4. QED BY <2>2, <3>2, <3>3
  <2>4. ASSUME NEW u \in S, pc[u] = "apply" PROVE W # {}
    BY <1>1, <2>2, <2>4 DEF Stuck
  <2>5. ASSUME NEW u \in S, pc[u] = "entity" PROVE W # {}
    <3>1. PICK v \in S : pc[v] \in EntityLocked BY <1>1, <2>5 DEF Stuck
    <3>2. pc[v] \in {"apply", "write"} BY <2>1, <3>1 DEF EntityLocked
    <3>3. QED BY <2>4, <3>2
  <2>6. ASSUME NEW u \in S, pc[u] = "oplock" PROVE W # {}
    <3>1. PICK v \in S : pc[v] \in OpLocked BY <1>1, <2>6 DEF Stuck
    <3>2. pc[v] \in {"entity", "apply", "write"} BY <2>1, <3>1 DEF OpLocked
    <3>3. QED BY <2>4, <2>5, <3>2
  <2>7. W # {}
    <3>1. PICK u \in S : TRUE BY <1>1
    <3>2. QED BY <2>1, <2>4, <2>5, <2>6, <3>1
  <2>8. QED BY <2>3, <2>7 DEF Ring
<1>2. IInv => \A S \in SUBSET Worker :
                S # {} /\ (\A w \in S : Stuck(w, S)) => Ring({w \in S : pc[w] = "write"})
  BY <1>1
<1>3. QED BY <1>2, InductiveInvariant, PTL
=============================================================================
