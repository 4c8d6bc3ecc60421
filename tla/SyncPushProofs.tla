--------------------------- MODULE SyncPushProofs ---------------------------
(***************************************************************************)
(* Theorems of SyncPush for every set of entities and every bound.         *)
(***************************************************************************)
EXTENDS SyncPush, WellFoundedInduction, FiniteSetTheorems, TLAPS

\* A claim is an identity with the contents it was used for: what is on its way
\* over v3 or decided, what this push will send, and what the rows remember.
Claim(x) == [id |-> x.id, sent |-> DigestOf(x)]
Seal(row) == [id |-> row.id, sent |-> row.sent]
Numbered == {e \in Pending : outbox[e].id # None}
Claims ==
  {Claim(x) : x \in Sent} \cup {Claim(batch[e]) : e \in unsent} \cup {Seal(outbox[e]) : e \in Numbered}

\* Identities below the next one of the device were given out.
Used(i) == i \in Ident /\ (i.dev < device.dev \/ (i.dev = device.dev /\ i.seq < device.next))
OneClaim ==
  /\ \A c \in Claims : Used(c.id)
  /\ \A c, d \in Claims : c.id = d.id => c.sent = d.sent

\* The floors that are in force, under way, or still to be sent by this push are
\* below every identity of their device that a row has, or will get.
FloorFor(dev, n) == [dev |-> dev, floor |-> n]
Floors ==
  {FloorFor(q.dev, q.floor) : q \in V3Requests}
  \cup {FloorFor(d, serverFloor[d]) : d \in {x \in 0..MaxDevices : serverFloor[x] > 0}}
  \cup IF unsent = {} THEN {} ELSE {FloorFor(device.dev, floor)}
FloorsLow ==
  \A p \in Floors :
    /\ p.dev <= device.dev
    /\ p.dev = device.dev => p.floor <= device.next
    /\ \A e \in Numbered : outbox[e].id.dev = p.dev => p.floor <= outbox[e].id.seq

\* A row that may be sent has an identity of this device; one that lost its
\* identity has one of an earlier device.
OwnDevice ==
  \A e \in Numbered :
    /\ outbox[e].blocked = "no" => outbox[e].id.dev = device.dev
    /\ outbox[e].blocked = "identity lost" => outbox[e].id.dev < device.dev

\* Rows are ordered by their operations, so that each gets a number of its own.
OneOp == \A e, f \in Pending : outbox[e].op <= made /\ (outbox[e].op = outbox[f].op => e = f)

\* What is still to be sent was read with its identity and the digest of itself.
Batched == \A e \in unsent : batch[e] # None /\ batch[e].id \in Ident /\ batch[e].sent = DigestOf(batch[e])

\* An identity of the device can be lost only while there is another one.
Devices == device.dev <= MaxDevices /\ (~device.known => device.dev < MaxDevices)

\* A row that goes over v2 as a fallback is answered or still to be handled.
Awaited ==
  current # None /\ current.via = "fallback" =>
    \A e \in unsent : answers[e] # None \/ AsOp(e, batch[e]) \in current.todo

\* Between pushes nothing waits to be sent.
Idle == pc = "idle" => unsent = {}

\* Only a request over v3 reads the switch, and raises a floor, when it begins.
UnderWay == late \cup IF current = None THEN {} ELSE {current}
BegunUnlessV3 == \A q \in UnderWay : q.begun \/ q.via = "v3"

PushInv ==
  OneClaim /\ FloorsLow /\ OwnDevice /\ OneOp /\ Batched /\ Devices /\ Awaited /\ Idle /\ BegunUnlessV3

-----------------------------------------------------------------------------
(* Types. *)

\* Sentinels are no values.
LEMMA Sentinels ==
  /\ None \notin Row /\ None \notin Ident /\ None \notin Digest
  /\ None \notin Answer /\ None \notin Request
BY PushSentinel

\* One row of the outbox changes.
LEMMA RowType ==
  ASSUME TypeOK, NEW e \in Entity, NEW row \in Row \cup {None}, outbox' = [outbox EXCEPT ![e] = row]
  PROVE  outbox' \in [Entity -> Row \cup {None}]
BY DEF TypeOK

LEMMA OneMoreType == ASSUME NEW n \in 0..MaxRetries PROVE OneMore(n) \in 0..MaxRetries
BY PushConstants DEF OneMore

LEMMA EnqueueType == ASSUME TypeOK, NEW e \in Entity, Enqueue(e) PROVE TypeOK'
<1>1. made' = made + 1 /\ made' \in 0..MaxEdits /\ made' \in Nat
  BY PushConstants DEF Enqueue, TypeOK
<1>2. outbox' \in [Entity -> Row \cup {None}]
  <2>1. CASE outbox[e] # None
    <3> DEFINE row == [outbox[e] EXCEPT !.edits = @ \cup {made'}, !.error = "none", !.retries = 0]
    <3>1. outbox' = [outbox EXCEPT ![e] = row] BY <2>1 DEF Enqueue
    <3>2. outbox[e] \in Row BY <2>1 DEF TypeOK
    <3>3. row \in Row
      <4>1. outbox[e].edits \cup {made'} \in SUBSET Nat BY <1>1, <3>2 DEF Row
      <4>2. 0 \in 0..MaxRetries BY PushConstants
      <4> QED BY <3>2, <4>1, <4>2 DEF Row
    <3> HIDE DEF row
    <3> QED BY <3>1, <3>3, RowType
  <2>2. CASE outbox[e] = None
    <3>1. PICK base \in {version[e], NoBase} :
            outbox' = [outbox EXCEPT ![e] =
               [op |-> made', edits |-> {made'}, base |-> base, id |-> None, sent |-> None,
                retries |-> 0, error |-> "none", blocked |-> "no"]]
      BY <2>2 DEF Enqueue
    <3>2. version[e] \in Nat BY DEF TypeOK
    <3>3. [op |-> made', edits |-> {made'}, base |-> base, id |-> None, sent |-> None,
           retries |-> 0, error |-> "none", blocked |-> "no"] \in Row
      BY <1>1, <3>2, PushConstants DEF Row
    <3> QED BY <3>1, <3>3, RowType
  <2> QED BY <2>1, <2>2
<1> QED BY <1>1, <1>2 DEF Enqueue, TypeOK, push, server, history

LEMMA RevokeType == ASSUME TypeOK, NEW e \in Entity, Revoke(e) PROVE TypeOK'
<1> DEFINE row == [outbox[e] EXCEPT !.retries = MaxRetries, !.error = "error", !.blocked = "revoked"]
<1>1. outbox' = [outbox EXCEPT ![e] = row] BY DEF Revoke
<1>2. outbox[e] \in Row BY DEF Revoke, TypeOK
<1>3. row \in Row
  <2>1. MaxRetries \in 0..MaxRetries BY PushConstants
  <2> QED BY <1>2, <2>1 DEF Row
<1> HIDE DEF row
<1>4. outbox' \in [Entity -> Row \cup {None}] BY <1>1, <1>3, RowType
<1> QED BY <1>4 DEF Revoke, TypeOK, push, server, history

LEMMA AutoResolveType == ASSUME TypeOK, NEW e \in Entity, AutoResolve(e) PROVE TypeOK'
<1>1. outbox' \in [Entity -> Row \cup {None}] BY RowType DEF AutoResolve
<1>2. dropped' \subseteq Nat
  <2>1. outbox[e] \in Row BY DEF AutoResolve, TypeOK
  <2>2. outbox[e].edits \in SUBSET Nat BY <2>1 DEF Row
  <2> QED BY <2>2 DEF AutoResolve, TypeOK
<1> QED BY <1>1, <1>2 DEF AutoResolve, TypeOK, push, server

LEMMA LoseDeviceType == ASSUME TypeOK, LoseDevice PROVE TypeOK'
<1>1. device' \in [dev : Nat, next : Nat, known : BOOLEAN] BY DEF LoseDevice, TypeOK
<1> QED BY <1>1 DEF LoseDevice, TypeOK, push, server, history

LEMMA PushEndsType ==
  ASSUME PushEnds
  PROVE  /\ batch' \in [Entity -> Row \cup {None}] /\ answers' \in [Entity -> Answer \cup {None}]
         /\ current' = None /\ pc' = "idle" /\ floor' = 0
         /\ unsent' = {} /\ sealed' = {} /\ toSettle' = {} /\ toBlock' = {} /\ fromV2' = {}
BY DEF PushEnds, NoAnswers

\* What is sent is an operation.
LEMMA OpsType ==
  ASSUME TypeOK, NEW some \in SUBSET Entity, \A e \in some : batch[e] # None
  PROVE  Ops(some) \in SUBSET Op
<1> SUFFICES ASSUME NEW e \in some PROVE AsOp(e, batch[e]) \in Op BY DEF Ops
<1>1. batch[e] \in Row BY DEF TypeOK
<1> QED BY <1>1 DEF AsOp, Row, Op

LEMMA StartV2Type == ASSUME TypeOK, StartV2 PROVE TypeOK'
<1> DEFINE send == {e \in Pending : Sendable(e) /\ outbox[e].sent = None}
<1>1. /\ pc' = "wait" /\ posted' \subseteq posted /\ unanswered' \subseteq unanswered
      /\ batch' = [e \in Entity |-> IF e \in send THEN outbox[e] ELSE None]
      /\ current' = [via |-> "v2", dev |-> 0, floor |-> 0, begun |-> TRUE,
                     todo |-> {AsOp(e, outbox[e]) : e \in send}]
  BY DEF StartV2, Forget
<1>2. batch' \in [Entity -> Row \cup {None}] BY <1>1 DEF TypeOK
<1>3. \A e \in send : AsOp(e, outbox[e]) \in Op
  <2> SUFFICES ASSUME NEW e \in send PROVE AsOp(e, outbox[e]) \in Op OBVIOUS
  <2>1. e \in Entity /\ outbox[e] \in Row BY DEF Pending, TypeOK
  <2> QED BY <2>1 DEF AsOp, Row, Op
<1>4. {AsOp(e, outbox[e]) : e \in send} \in SUBSET Op
  <2> HIDE DEF send
  <2> QED BY <1>3
<1>5. current' \in Request
  <2> DEFINE todo == {AsOp(e, outbox[e]) : e \in send}
  <2> HIDE DEF todo
  <2>1. current' = [via |-> "v2", dev |-> 0, floor |-> 0, begun |-> TRUE, todo |-> todo] BY <1>1 DEF todo
  <2>2. todo \in SUBSET Op BY <1>4 DEF todo
  <2> QED BY <2>1, <2>2 DEF Request
<1> HIDE DEF send
<1> QED BY <1>1, <1>2, <1>5, Sentinels DEF StartV2, TypeOK, client, server

LEMMA SendChunkType == ASSUME TypeOK, Batched, SendChunk PROVE TypeOK'
<1>1. PICK chunk \in (SUBSET unsent) \ {{}} :
        current' = [via |-> "v3", dev |-> device.dev, floor |-> floor, begun |-> FALSE, todo |-> Ops(chunk)]
  BY DEF SendChunk
<1>2. Ops(chunk) \in SUBSET Op BY OpsType DEF Batched, TypeOK
<1>3. current' \in Request BY <1>1, <1>2 DEF Request, TypeOK
<1> QED BY <1>3, Sentinels DEF SendChunk, TypeOK, client, server, history

LEMMA RaisedType ==
  ASSUME TypeOK, NEW q \in Request
  PROVE  Raised(q) \in [0..MaxDevices -> Nat]
<1>1. q.floor \in Nat BY DEF Request
<1> QED BY <1>1 DEF TypeOK, Raised

\* A request that begins keeps everything but its floor, and that is the one it sent
\* or one the device had already.
LEMMA BegunFields ==
  ASSUME NEW q \in Request
  PROVE  /\ Begun(q).via = q.via /\ Begun(q).dev = q.dev /\ Begun(q).todo = q.todo /\ Begun(q).begun
         /\ Begun(q).floor = Raised(q)[q.dev]
BY DEF Begun, Request

LEMMA BegunFloor ==
  ASSUME TypeOK, NEW q \in Request, q.dev \in 0..MaxDevices
  PROVE  /\ Begun(q) \in Request
         /\ \/ Begun(q).floor = q.floor
            \/ Begun(q).floor = serverFloor[q.dev] /\ serverFloor[q.dev] > 0
<1>1. q.floor \in Nat /\ serverFloor[q.dev] \in Nat BY DEF Request, TypeOK
<1>2. Raised(q)[q.dev] = IF q.floor > serverFloor[q.dev] THEN q.floor ELSE serverFloor[q.dev]
  BY DEF Raised, TypeOK
<1>3. Raised(q)[q.dev] \in Nat BY <1>1, <1>2
<1>4. Begun(q) \in Request BY <1>3 DEF Begun, Request
<1> QED BY <1>1, <1>2, <1>4, BegunFields

\* The device of a request over v3 is one that was in use.
LEMMA RequestDevice ==
  ASSUME TypeOK, FloorsLow, Devices, NEW q \in V3Requests
  PROVE  q.dev \in 0..MaxDevices
<1>1. FloorFor(q.dev, q.floor) \in Floors BY DEF Floors
<1>2. q.dev <= device.dev BY <1>1 DEF FloorsLow, FloorFor
<1>3. q \in Request BY DEF V3Requests, TypeOK
<1>4. q.dev \in Nat BY <1>3 DEF Request
<1> QED BY <1>2, <1>4, PushConstants DEF TypeOK, Devices

LEMMA BeginType == ASSUME TypeOK, FloorsLow, Devices, Begin PROVE TypeOK'
<1>1. current \in Request BY Sentinels DEF Begin, TypeOK
<1>2. current \in V3Requests BY <1>1, Sentinels DEF Begin, V3Requests
<1>3. current' \in Request BY <1>1, <1>2, RequestDevice, BegunFloor DEF Begin
<1> QED BY <1>1, <1>3, RaisedType, Sentinels DEF Begin, TypeOK, client, history

LEMMA BeginLateType ==
  ASSUME TypeOK, FloorsLow, Devices, BegunUnlessV3, NEW q \in late, BeginLate(q) PROVE TypeOK'
<1>1. q \in Request BY DEF TypeOK
<1>2. q \in V3Requests BY DEF BeginLate, BegunUnlessV3, UnderWay, V3Requests
<1>3. Begun(q) \in Request BY <1>1, <1>2, RequestDevice, BegunFloor
<1> QED BY <1>1, <1>3, RaisedType DEF BeginLate, TypeOK, client, push, history

LEMMA DisabledType == ASSUME TypeOK, Batched, Disabled PROVE TypeOK'
<1> DEFINE rows == unsent \ sealed
           new == {[e |-> e, op |-> batch[e].op, id |-> batch[e].id, sent |-> batch[e].sent,
                    retries |-> batch[e].retries, result |-> None] : e \in rows}
<1>1. /\ unsent' = rows /\ pc' \in {"settle", "fallback"}
      /\ holds' \subseteq holds \cup new
      /\ current' = None
  BY DEF Disabled
<1>2. new \in SUBSET Hold
  <2> SUFFICES ASSUME NEW e \in rows
               PROVE  [e |-> e, op |-> batch[e].op, id |-> batch[e].id, sent |-> batch[e].sent,
                       retries |-> batch[e].retries, result |-> None] \in Hold
    OBVIOUS
  <2>1. e \in Entity /\ batch[e] \in Row /\ batch[e].id \in Ident /\ batch[e].sent = DigestOf(batch[e])
    BY DEF TypeOK, Batched
  <2>2. DigestOf(batch[e]) \in Digest BY <2>1 DEF DigestOf, Row, Digest
  <2> QED BY <2>1, <2>2 DEF Hold, Row
<1> HIDE DEF new
<1> QED BY <1>1, <1>2 DEF Disabled, TypeOK, server, history

LEMMA SendFallbackType == ASSUME TypeOK, Batched, SendFallback PROVE TypeOK'
<1>1. Ops(unsent) \in SUBSET Op BY OpsType DEF Batched, TypeOK
<1>2. current' \in Request BY <1>1 DEF SendFallback, Request
<1>3. unanswered' \subseteq Nat
  <2>1. \A e \in unsent : batch[e] \in Row BY DEF TypeOK, Batched
  <2>2. \A e \in unsent : batch[e].op \in Nat BY <2>1 DEF Row
  <2> DEFINE ops == {batch[e].op : e \in unsent}
  <2>3. ops \subseteq Nat BY <2>2
  <2>4. unanswered \subseteq Nat /\ unanswered' = unanswered \cup ops BY DEF SendFallback, TypeOK
  <2> HIDE DEF ops
  <2> QED BY <2>3, <2>4
<1>4. current' # None /\ pc' = "wait" BY <1>2, Sentinels DEF SendFallback
<1> QED BY <1>2, <1>3, <1>4 DEF SendFallback, TypeOK, client, server

\* The operations a request still has to handle.
LEMMA TodoType == ASSUME NEW q \in Request, NEW o \in q.todo PROVE o \in Op
BY DEF Request

\* An operation of a request under way has an identity when it goes over v3.
LEMMA ClaimedOp ==
  ASSUME OneClaim, NEW q \in V3Requests, NEW o \in q.todo
  PROVE  o.id \in Ident /\ Claim(o) \in Claims
<1>1. o \in Sent BY DEF Sent
<1>2. Claim(o) \in Claims BY <1>1 DEF Claims
<1> QED BY <1>2 DEF OneClaim, Used, Claim

\* What handling an operation does to the server.
LEMMA ProcessType ==
  ASSUME TypeOK, NEW q \in Request, NEW o \in Op, q.via = "v3" => o.id \in Ident,
         NEW verdict \in Verdict, Process(q, o, verdict)
  PROVE  /\ version' \in [Entity -> Nat] /\ landed' \subseteq Nat
         /\ decided' \subseteq [id : Ident, edits : SUBSET Nat, base : Nat \cup {NoBase}, verdict : Decision]
<1>0. o.edits \in SUBSET Nat /\ o.base \in Nat \cup {NoBase} BY DEF Op
<1>1. CASE UNCHANGED <<version, decided, landed>> BY <1>1 DEF TypeOK
<1>2. ASSUME TakeEffect(o, verdict) PROVE version' \in [Entity -> Nat] /\ landed' \subseteq Nat
  <2>1. version \in [Entity -> Nat] /\ landed \subseteq Nat BY DEF TypeOK
  <2>2. CASE verdict = "applied"
    <3>1. version' = [version EXCEPT ![o.e] = version[o.e] + 1] /\ landed' = landed \cup o.edits
      BY <1>2, <2>2 DEF TakeEffect
    <3>2. o.e \in Entity BY DEF Op
    <3>3. version[o.e] + 1 \in Nat BY <2>1, <3>2
    <3> QED BY <1>0, <2>1, <3>1, <3>3
  <2>3. CASE verdict # "applied" BY <1>2, <2>1, <2>3 DEF TakeEffect
  <2> QED BY <2>2, <2>3
<1>5. ASSUME q.via = "v3", verdict \in Decision
      PROVE  Outcome(o, verdict) \in [id : Ident, edits : SUBSET Nat, base : Nat \cup {NoBase}, verdict : Decision]
  BY <1>0, <1>5 DEF Outcome
<1>3. CASE q.via = "v3" /\ Decide(q, o, verdict)
  <2>1. verdict \in Decision BY <1>3 DEF Decide, Decision
  <2>2. Outcome(o, verdict) \in [id : Ident, edits : SUBSET Nat, base : Nat \cup {NoBase}, verdict : Decision]
    BY <1>3, <1>5, <2>1
  <2>3. decided' \subseteq [id : Ident, edits : SUBSET Nat, base : Nat \cup {NoBase}, verdict : Decision]
    BY <1>3, <2>2 DEF Decide, TypeOK
  <2> QED BY <1>2, <1>3, <2>3 DEF Decide
<1>4. CASE DispatchV2(q, o, verdict) BY <1>2, <1>4 DEF DispatchV2, TypeOK
<1>6. CASE q.via = "v3" /\ RefuseRetired(q, o, verdict)
  <2>1. verdict \in Decision BY <1>6 DEF RefuseRetired, Decision
  <2>2. Outcome(o, verdict) \in [id : Ident, edits : SUBSET Nat, base : Nat \cup {NoBase}, verdict : Decision]
    BY <1>5, <1>6, <2>1
  <2> QED BY <1>6, <2>2 DEF RefuseRetired, TypeOK
<1> QED BY <1>1, <1>3, <1>4, <1>6 DEF Process, ReplayReceipt, RollBack

LEMMA HandleType == ASSUME TypeOK, OneClaim, NEW o, pc = "wait", o \in current.todo, Handle(o) PROVE TypeOK'
<1>1. current \in Request /\ current # None BY DEF TypeOK
<1>2. o \in Op BY <1>1, TodoType
<1>3. current.via = "v3" => o.id \in Ident BY <1>1, ClaimedOp DEF V3Requests
<1>4. PICK verdict \in Verdict :
        /\ Process(current, o, verdict)
        /\ \E said \in {verdict} \cup IF current.via = "v3" THEN {"retry"} ELSE {} :
             answers' = [answers EXCEPT ![o.e] = AnswerTo(said, o.e, current.via)]
  BY DEF Handle
<1>5. /\ version' \in [Entity -> Nat] /\ landed' \subseteq Nat
      /\ decided' \subseteq [id : Ident, edits : SUBSET Nat, base : Nat \cup {NoBase}, verdict : Decision]
  BY <1>1, <1>2, <1>3, <1>4, ProcessType
<1>6. PICK said : answers' = [answers EXCEPT ![o.e] = AnswerTo(said, o.e, current.via)] BY <1>4
<1>7. AnswerTo(said, o.e, current.via) \in Answer
  <2>1. o.e \in Entity BY <1>2 DEF Op
  <2>2. version'[o.e] \in Nat BY <1>5, <2>1
  <2> QED BY <2>2 DEF AnswerTo, Answer
<1>8. /\ answers' \in [Entity -> Answer \cup {None}]
      /\ \A e \in Entity : answers[e] # None => answers'[e] # None
  <2>1. AnswerTo(said, o.e, current.via) # None BY <1>7, Sentinels
  <2> QED BY <1>6, <1>7, <2>1 DEF TypeOK
<1>9. current' \in Request /\ current' # None
  <2>1. current' = [current EXCEPT !.todo = @ \ {o}] BY DEF Handle
  <2>2. current' \in Request BY <1>1, <2>1 DEF Request
  <2> QED BY <2>2, Sentinels
<1> QED BY <1>5, <1>8, <1>9 DEF Handle, TypeOK, client

LEMMA HandleLateType ==
  ASSUME TypeOK, OneClaim, NEW q \in late, NEW o \in q.todo, HandleLate(q, o) PROVE TypeOK'
<1>1. q \in Request BY DEF TypeOK
<1>2. o \in Op BY <1>1, TodoType
<1>3. q.via = "v3" => o.id \in Ident BY ClaimedOp DEF V3Requests
<1>4. /\ version' \in [Entity -> Nat] /\ landed' \subseteq Nat
      /\ decided' \subseteq [id : Ident, edits : SUBSET Nat, base : Nat \cup {NoBase}, verdict : Decision]
  BY <1>1, <1>2, <1>3, ProcessType DEF HandleLate
<1>5. [q EXCEPT !.todo = @ \ {o}] \in Request BY <1>1 DEF Request
<1>6. late' \subseteq Request BY <1>5 DEF HandleLate, TypeOK
<1> QED BY <1>4, <1>6 DEF HandleLate, TypeOK, client, push

LEMMA OtherWriteType == ASSUME TypeOK, NEW e \in Entity, OtherWrite(e) PROVE TypeOK'
<1>1. version' \in [Entity -> Nat] BY DEF OtherWrite, TypeOK
<1> QED BY <1>1 DEF OtherWrite, TypeOK, client, push, history

\* What may have reached the server is a digest.
LEMMA ExposedType ==
  ASSUME TypeOK, Batched, current # None
  PROVE  Exposed \subseteq Digest
<1>1. ASSUME NEW o \in current.todo PROVE DigestOf(o) \in Digest
  <2>1. o \in Op BY TodoType DEF TypeOK
  <2> QED BY <2>1 DEF DigestOf, Op, Digest
<1>2. ASSUME NEW e \in Answered PROVE DigestOf(batch[e]) \in Digest
  <2>1. batch[e] \in Row BY DEF Answered, Batched, TypeOK
  <2> QED BY <2>1 DEF DigestOf, Row, Digest
<1> QED BY <1>1, <1>2 DEF Exposed

LEMMA ReceiveV3Type == ASSUME TypeOK, Batched, ReceiveV3 PROVE TypeOK'
<1>1. posted' \subseteq Digest BY ExposedType DEF ReceiveV3, TypeOK
<1>2. Answered \subseteq {e \in Entity : answers[e] # None} BY DEF Answered, TypeOK
<1>3. toSettle' \subseteq {e \in Entity : answers[e] # None} /\ toBlock' \subseteq {e \in Entity : answers[e] # None}
  BY <1>2 DEF ReceiveV3, TypeOK
<1>4. current' = None /\ pc' \in {"settle", "send"} /\ unsent' \subseteq unsent BY DEF ReceiveV3
<1> QED BY <1>1, <1>3, <1>4 DEF ReceiveV3, TypeOK, client, server

LEMMA ReceiveFallbackType == ASSUME TypeOK, Awaited, ReceiveFallback PROVE TypeOK'
<1>1. holds' \subseteq Hold
  <2>1. ASSUME NEW h \in holds PROVE [h EXCEPT !.result = answers[h.e]] \in Hold
    <3>1. h \in Hold /\ answers[h.e] \in Answer \cup {None} BY DEF TypeOK, Hold
    <3> QED BY <3>1 DEF Hold
  <2> QED BY <2>1 DEF ReceiveFallback, TypeOK
<1>2. unsent \subseteq {e \in Entity : answers[e] # None}
  BY DEF ReceiveFallback, Awaited, TypeOK
<1>3. toSettle' \subseteq {e \in Entity : answers[e] # None} BY <1>2 DEF ReceiveFallback, TypeOK
<1> QED BY <1>1, <1>3 DEF ReceiveFallback, TypeOK, server

LEMMA ReceiveV2Type == ASSUME TypeOK, ReceiveV2 PROVE TypeOK'
<1>1. toSettle' \subseteq {e \in Entity : answers[e] # None} BY DEF ReceiveV2
<1>2. current' = None /\ pc' = "settle" BY DEF ReceiveV2
<1> QED BY <1>1, <1>2 DEF ReceiveV2, TypeOK, client, server, history

LEMMA InterruptType == ASSUME TypeOK, Batched, Interrupt PROVE TypeOK'
<1>1. PushEnds BY DEF Interrupt
<1>2. posted' \subseteq Digest /\ late' \subseteq Request
  <2>1. CASE pc = "wait"
    <3>1. current \in Request /\ current # None BY <2>1 DEF TypeOK
    <3>2. Exposed \subseteq Digest BY <3>1, ExposedType
    <3> QED BY <2>1, <3>1, <3>2 DEF Interrupt, TypeOK
  <2>2. CASE pc # "wait" BY <2>2 DEF Interrupt, TypeOK
  <2> QED BY <2>1, <2>2
<1> QED BY <1>1, <1>2, PushEndsType DEF Interrupt, TypeOK, client, server

LEMMA FinishType == ASSUME TypeOK, Finish PROVE TypeOK'
<1>1. PushEnds /\ holds' \subseteq holds BY DEF Finish
<1> QED BY <1>1, PushEndsType DEF Finish, TypeOK, server, history

\* What settling does to the row it is about, and to nothing else.
LEMMA SettleRow ==
  ASSUME TypeOK, NEW e \in Entity, e \in toSettle, SettleOk(e) \/ SettleConflict(e) \/ SettleError(e)
  PROVE  \/ outbox' = outbox
         \/ outbox' = [outbox EXCEPT ![e] = None]
         \/ /\ outbox[e] # None
            /\ \E base \in Nat \cup {NoBase}, retries \in 0..MaxRetries, error \in {"none", "error", "conflict"} :
                 outbox' = [outbox EXCEPT ![e] = [outbox[e] EXCEPT !.base = base, !.retries = retries, !.error = error]]
<1>0. answers[e] \in Answer BY DEF TypeOK
<1>1. ASSUME Rebase(e), outbox' # outbox
      PROVE  /\ outbox[e] # None
             /\ \E base \in Nat \cup {NoBase}, retries \in 0..MaxRetries, error \in {"none", "error", "conflict"} :
                 outbox' = [outbox EXCEPT ![e] = [outbox[e] EXCEPT !.base = base, !.retries = retries, !.error = error]]
  <2>1. SameOp(e) /\ outbox[e].blocked = "no" BY <1>1 DEF Rebase
  <2>2. outbox[e] # None /\ outbox[e] \in Row BY <2>1 DEF SameOp, TypeOK
  <2>3. answers[e].version \in Nat /\ 0 \in 0..MaxRetries BY <1>0, PushConstants DEF Answer
  <2>4. outbox' = [outbox EXCEPT ![e] = [outbox[e] EXCEPT !.base = answers[e].version, !.retries = 0, !.error = "none"]]
    BY <1>1, <2>1, <2>2 DEF Rebase, TypeOK, Row
  <2> QED BY <2>2, <2>3, <2>4
<1>2. ASSUME Unchanged(e), NEW error \in {"error", "conflict"}, Mark(e, error)
      PROVE  /\ outbox[e] # None
             /\ \E base \in Nat \cup {NoBase}, retries \in 0..MaxRetries, er \in {"none", "error", "conflict"} :
                 outbox' = [outbox EXCEPT ![e] = [outbox[e] EXCEPT !.base = base, !.retries = retries, !.error = er]]
  <2>1. outbox[e] # None /\ outbox[e] \in Row BY <1>2 DEF Unchanged, SameSnapshot, TypeOK
  <2>2. OneMore(outbox[e].retries) \in 0..MaxRetries BY <2>1, OneMoreType DEF Row
  <2>3. outbox[e].base \in Nat \cup {NoBase} BY <2>1 DEF Row
  <2>4. outbox' = [outbox EXCEPT ![e] =
                    [outbox[e] EXCEPT !.base = outbox[e].base, !.retries = OneMore(outbox[e].retries), !.error = error]]
    BY <1>2, <2>1 DEF Mark, TypeOK, Row
  <2> QED BY <2>1, <2>2, <2>3, <2>4
<1>3. CASE SettleOk(e) BY <1>1, <1>3 DEF SettleOk, Remove
<1>4. CASE SettleConflict(e)
  <2>1. CASE Unchanged(e) BY <1>1, <1>2, <1>4, <2>1 DEF SettleConflict, Remove
  <2>2. CASE ~Unchanged(e) BY <1>1, <1>4, <2>2 DEF SettleConflict
  <2> QED BY <2>1, <2>2
<1>5. CASE SettleError(e) BY <1>2, <1>5 DEF SettleError
<1> QED BY <1>3, <1>4, <1>5

LEMMA SettleType == ASSUME TypeOK, NEW e \in Entity, Settle(e) PROVE TypeOK'
<1>1. outbox' \in [Entity -> Row \cup {None}]
  <2>1. ASSUME NEW base \in Nat \cup {NoBase}, NEW retries \in 0..MaxRetries,
               NEW error \in {"none", "error", "conflict"}, outbox[e] # None
        PROVE  [outbox[e] EXCEPT !.base = base, !.retries = retries, !.error = error] \in Row
    <3>1. outbox[e] \in Row BY <2>1 DEF TypeOK
    <3> QED BY <3>1 DEF Row
  <2>2. e \in toSettle /\ (SettleOk(e) \/ SettleConflict(e) \/ SettleError(e)) BY DEF Settle
  <2>3. CASE outbox' = outbox BY <2>3 DEF TypeOK
  <2>4. CASE outbox' = [outbox EXCEPT ![e] = None] BY <2>4, RowType
  <2>5. ASSUME outbox[e] # None, NEW base \in Nat \cup {NoBase}, NEW retries \in 0..MaxRetries,
               NEW error \in {"none", "error", "conflict"},
               outbox' = [outbox EXCEPT ![e] = [outbox[e] EXCEPT !.base = base, !.retries = retries, !.error = error]]
        PROVE  outbox' \in [Entity -> Row \cup {None}]
    <3> DEFINE row == [outbox[e] EXCEPT !.base = base, !.retries = retries, !.error = error]
    <3>1. row \in Row BY <2>1, <2>5
    <3>2. outbox' = [outbox EXCEPT ![e] = row] BY <2>5
    <3> HIDE DEF row
    <3> QED BY <3>1, <3>2, RowType
  <2>6. \/ outbox' = outbox
        \/ outbox' = [outbox EXCEPT ![e] = None]
        \/ /\ outbox[e] # None
           /\ \E base \in Nat \cup {NoBase}, retries \in 0..MaxRetries, error \in {"none", "error", "conflict"} :
                outbox' = [outbox EXCEPT ![e] = [outbox[e] EXCEPT !.base = base, !.retries = retries, !.error = error]]
    BY <2>2, SettleRow
  <2> QED BY <2>3, <2>4, <2>5, <2>6
<1>2. toSettle' \subseteq toSettle BY DEF Settle
<1> QED BY <1>1, <1>2 DEF Settle, TypeOK, server, history

LEMMA QuarantineType == ASSUME TypeOK, NEW e \in Entity, Quarantine(e) PROVE TypeOK'
<1>1. outbox' \in [Entity -> Row \cup {None}]
  <2>1. CASE outbox' = outbox BY <2>1 DEF TypeOK
  <2>2. CASE outbox' # outbox
    <3> DEFINE row == [outbox[e] EXCEPT !.retries = MaxRetries, !.blocked = "rejected"]
    <3>1. outbox[e] # None /\ outbox' = [outbox EXCEPT ![e] = row]
      BY <2>2 DEF Quarantine, SameSnapshot
    <3>2. outbox[e] \in Row /\ MaxRetries \in 0..MaxRetries BY <3>1, PushConstants DEF TypeOK
    <3>3. row \in Row BY <3>2 DEF Row
    <3> HIDE DEF row
    <3> QED BY <3>1, <3>3, RowType
  <2> QED BY <2>1, <2>2
<1>2. toBlock' \subseteq toBlock BY DEF Quarantine
<1> QED BY <1>1, <1>2 DEF Quarantine, TypeOK, server, history

-----------------------------------------------------------------------------
(* The transaction that starts a push. *)

\* Every non-empty set of numbers has a least one.
LEMMA LeastNumber ==
  ASSUME NEW S \in SUBSET Nat, S # {}
  PROVE  \E n \in S : \A m \in S : n <= m
<1>1. \E n \in S : \A m \in S : ~(<<m, n>> \in OpToRel(<, Nat)) BY WFMin, NatLessThanWellFounded
<1>2. PICK n \in S : \A m \in S : ~(m < n) BY <1>1 DEF OpToRel
<1> QED BY <1>2

\* The holds that are kept, the results that are replayed and the rows that are
\* sent, as StartV3 computes them.
Kept == {h \in holds : RowExists(h) /\ ~Settled(h)}
Replayed == {h \in Kept : h.result # None /\ Sendable(h.e) /\ Matches(outbox[h.e], h)}
ToSend == {e \in Pending : Sendable(e) /\ \A h \in Kept : h.op # outbox[e].op} \ Orphans
Count == Cardinality(Fresh(ToSend))

LEMMA StartV3Facts ==
  ASSUME StartV3
  PROVE  /\ pc = "idle" /\ pc' = (IF unsent' = {} THEN "settle" ELSE "send")
         /\ holds' = Kept
         /\ outbox' = Allocated(ToSend)
         /\ device' = [Device EXCEPT !.next = @ + Count]
         /\ batch' = [e \in Entity |-> CASE e \in ToSend -> Allocated(ToSend)[e]
                                        [] \E h \in Replayed : h.e = e -> outbox[e]
                                        [] OTHER -> None]
         /\ unsent' = ToSend
         /\ sealed' = ToSend \ Fresh(ToSend)
         /\ floor' = FloorOver(Allocated(ToSend), Device.next + Count)
         /\ answers' = [e \in Entity |->
              IF \E h \in Replayed : h.e = e THEN (CHOOSE h \in Replayed : h.e = e).result ELSE None]
         /\ toSettle' = {h.e : h \in Replayed} /\ fromV2' = {h.e : h \in Replayed} /\ toBlock' = {}
         /\ posted' \subseteq posted /\ unanswered' \subseteq unanswered
         /\ UNCHANGED <<current, server, late, made, dropped, landed>>
<1> USE DEF Kept, Replayed, ToSend, Count
<1>1. /\ pc = "idle" /\ pc' = (IF unsent' = {} THEN "settle" ELSE "send")
      /\ UNCHANGED <<current, server, late, made, dropped, landed>>
  BY DEF StartV3
<1>2. posted' \subseteq posted /\ unanswered' \subseteq unanswered BY DEF StartV3, Forget
<1>3. /\ holds' = Kept
      /\ outbox' = Allocated(ToSend)
      /\ device' = [Device EXCEPT !.next = @ + Count]
      /\ unsent' = ToSend
      /\ sealed' = ToSend \ Fresh(ToSend)
      /\ floor' = FloorOver(Allocated(ToSend), Device.next + Count)
      /\ toSettle' = {h.e : h \in Replayed} /\ fromV2' = {h.e : h \in Replayed} /\ toBlock' = {}
  BY DEF StartV3
<1>4. batch' = [e \in Entity |-> CASE e \in ToSend -> Allocated(ToSend)[e]
                                  [] \E h \in Replayed : h.e = e -> outbox[e]
                                  [] OTHER -> None]
  BY Zenon DEF StartV3
<1>5. answers' = [e \in Entity |->
        IF \E h \in Replayed : h.e = e THEN (CHOOSE h \in Replayed : h.e = e).result ELSE None]
  BY Zenon DEF StartV3
<1> QED BY <1>1, <1>2, <1>3, <1>4, <1>5

\* The device that sends.
LEMMA DeviceType ==
  ASSUME TypeOK, Devices
  PROVE  /\ Device \in [dev : Nat, next : Nat, known : BOOLEAN]
         /\ Device.known /\ Device.dev <= MaxDevices
         /\ device.known => Device = device
         /\ ~device.known => Device.dev = device.dev + 1 /\ Device.next = 0
<1>1. device \in [dev : Nat, next : Nat, known : BOOLEAN] BY DEF TypeOK
<1>2. CASE device.known BY <1>1, <1>2 DEF Device, Devices
<1>3. CASE ~device.known
  <2>1. Device = [dev |-> device.dev + 1, next |-> 0, known |-> TRUE] BY <1>3 DEF Device
  <2>2. device.dev + 1 <= MaxDevices BY <1>1, <1>3, PushConstants DEF Devices
  <2> QED BY <1>1, <1>3, <2>1, <2>2
<1> QED BY <1>2, <1>3

\* The rows that are sent, the new ones among them, and the orphans.
LEMMA ToSendFacts ==
  ASSUME TypeOK
  PROVE  /\ ToSend \subseteq Pending /\ Fresh(ToSend) \subseteq ToSend /\ Orphans \subseteq Pending
         /\ Pending \subseteq Entity /\ ToSend \cap Orphans = {}
         /\ \A e \in Pending : outbox[e] \in Row /\ outbox[e].op \in Nat
         /\ \A e \in ToSend : outbox[e].blocked = "no"
         /\ \A e \in ToSend \ Fresh(ToSend) : Sealed(outbox[e])
         /\ IsFiniteSet(Fresh(ToSend)) /\ Count \in Nat
<1>1. Pending \subseteq Entity BY DEF Pending
<1>2. Orphans \subseteq Pending BY DEF Orphans
<1>3. /\ ToSend \subseteq Pending /\ Fresh(ToSend) \subseteq ToSend /\ ToSend \cap Orphans = {}
      /\ \A e \in ToSend \ Fresh(ToSend) : Sealed(outbox[e])
  BY DEF ToSend, Fresh
<1>4. \A e \in Pending : outbox[e] \in Row BY DEF Pending, TypeOK
<1>5. \A e \in Pending : outbox[e].op \in Nat BY <1>4 DEF Row
<1>6. \A e \in ToSend : outbox[e].blocked = "no" BY DEF ToSend, Sendable
<1>7. IsFiniteSet(Fresh(ToSend)) BY <1>1, <1>3, FS_Subset, PushConstants
<1>8. Count \in Nat BY <1>7, FS_CardinalityType DEF Count
<1> QED BY <1>1, <1>2, <1>3, <1>4, <1>5, <1>6, <1>7, <1>8

\* Every new row gets a number of its own, from next on.
LEMMA SeqForNumbers ==
  ASSUME TypeOK, OneOp, Devices
  PROVE  /\ \A e \in Fresh(ToSend) : /\ SeqFor(e, ToSend) \in Nat
                                     /\ Device.next <= SeqFor(e, ToSend)
                                     /\ SeqFor(e, ToSend) < Device.next + Count
         /\ \A e, f \in Fresh(ToSend) : SeqFor(e, ToSend) = SeqFor(f, ToSend) => e = f
<1> DEFINE F == Fresh(ToSend)
           Lower(e) == {x \in F : outbox[x].op < outbox[e].op}
<1>1. IsFiniteSet(F) /\ Cardinality(F) = Count /\ Count \in Nat BY ToSendFacts DEF Count
<1>2. \A e \in F : e \in Pending /\ outbox[e].op \in Nat BY ToSendFacts
<1>3. Device.next \in Nat BY DeviceType
<1>4. \A e \in F : SeqFor(e, ToSend) = Device.next + Cardinality(Lower(e)) BY DEF SeqFor
<1> HIDE DEF F
<1>5. ASSUME NEW e \in F
      PROVE  IsFiniteSet(Lower(e)) /\ Cardinality(Lower(e)) \in Nat /\ Cardinality(Lower(e)) < Cardinality(F)
  <2>1. Lower(e) \in SUBSET F /\ Lower(e) # F BY <1>2, <1>5
  <2> HIDE DEF Lower
  <2>2. IsFiniteSet(Lower(e)) /\ Cardinality(Lower(e)) <= Cardinality(F) /\ Cardinality(Lower(e)) # Cardinality(F)
    BY <1>1, <2>1, FS_Subset
  <2>3. Cardinality(Lower(e)) \in Nat BY <2>2, FS_CardinalityType
  <2> QED BY <1>1, <2>2, <2>3
<1>6. ASSUME NEW e \in F, NEW f \in F, outbox[e].op < outbox[f].op
      PROVE  Cardinality(Lower(e)) < Cardinality(Lower(f))
  <2>1. Lower(e) \in SUBSET Lower(f) /\ e \in Lower(f) /\ e \notin Lower(e) BY <1>2, <1>6
  <2>2. IsFiniteSet(Lower(f)) /\ Cardinality(Lower(f)) \in Nat /\ Cardinality(Lower(e)) \in Nat BY <1>5
  <2> HIDE DEF Lower
  <2>3. Cardinality(Lower(e)) <= Cardinality(Lower(f)) /\ Cardinality(Lower(e)) # Cardinality(Lower(f))
    BY <2>1, <2>2, FS_Subset
  <2> QED BY <2>2, <2>3
<1>7. ASSUME NEW e \in F, NEW f \in F, SeqFor(e, ToSend) = SeqFor(f, ToSend) PROVE e = f
  <2>0. /\ SeqFor(e, ToSend) = Device.next + Cardinality(Lower(e))
        /\ SeqFor(f, ToSend) = Device.next + Cardinality(Lower(f))
        /\ Cardinality(Lower(e)) \in Nat /\ Cardinality(Lower(f)) \in Nat
        /\ outbox[e].op < outbox[f].op => Cardinality(Lower(e)) < Cardinality(Lower(f))
        /\ outbox[f].op < outbox[e].op => Cardinality(Lower(f)) < Cardinality(Lower(e))
    BY <1>4, <1>5, <1>6
  <2> HIDE DEF Lower
  <2>1. Cardinality(Lower(e)) = Cardinality(Lower(f))
    <3>1. \A n, a, b \in Nat : n + a = n + b => a = b OBVIOUS
    <3>2. Device.next + Cardinality(Lower(e)) = Device.next + Cardinality(Lower(f)) BY <1>7, <2>0, Zenon
    <3> QED BY <1>3, <2>0, <3>1, <3>2, Zenon
  <2>2. outbox[e].op = outbox[f].op BY <1>2, <2>0, <2>1
  <2> QED BY <1>2, <2>2 DEF OneOp
<1>8. ASSUME NEW e \in F
      PROVE  /\ SeqFor(e, ToSend) \in Nat /\ Device.next <= SeqFor(e, ToSend)
             /\ SeqFor(e, ToSend) < Device.next + Count
  <2> HIDE DEF Lower
  <2> QED BY <1>1, <1>3, <1>4, <1>5, <1>8
<1> QED BY <1>7, <1>8 DEF F

\* What starting a push makes of one row.
NewId(e) == [dev |-> Device.dev, seq |-> SeqFor(e, ToSend)]

LEMMA AllocatedRow ==
  ASSUME TypeOK, OneOp, Devices, NEW e \in Entity
  PROVE  /\ e \in Orphans =>
              Allocated(ToSend)[e] = [outbox[e] EXCEPT !.retries = MaxRetries, !.blocked = "identity lost"]
         /\ e \in Fresh(ToSend) =>
              /\ Allocated(ToSend)[e] = [outbox[e] EXCEPT !.id = NewId(e), !.sent = DigestOf(outbox[e])]
              /\ NewId(e) \in Ident
         /\ e \notin Orphans \cup Fresh(ToSend) => Allocated(ToSend)[e] = outbox[e]
         /\ Allocated(ToSend)[e] \in Row \cup {None}
         /\ e \in Pending => Allocated(ToSend)[e] \in Row
         /\ e \notin Pending => Allocated(ToSend)[e] = None
<1>0. Orphans \cap Fresh(ToSend) = {} BY ToSendFacts
<1>1. CASE e \in Orphans
  <2>1. Allocated(ToSend)[e] = [outbox[e] EXCEPT !.retries = MaxRetries, !.blocked = "identity lost"]
    BY <1>1 DEF Allocated
  <2>2. e \in Pending /\ outbox[e] \in Row BY <1>1, ToSendFacts
  <2>3. MaxRetries \in 0..MaxRetries BY PushConstants
  <2>4. [outbox[e] EXCEPT !.retries = MaxRetries, !.blocked = "identity lost"] \in Row BY <2>2, <2>3 DEF Row
  <2> QED BY <1>0, <1>1, <2>1, <2>2, <2>4
<1>2. CASE e \in Fresh(ToSend)
  <2>1. Allocated(ToSend)[e] = [outbox[e] EXCEPT !.id = NewId(e), !.sent = DigestOf(outbox[e])]
    BY <1>0, <1>2 DEF Allocated, NewId
  <2>2. e \in Pending /\ outbox[e] \in Row BY <1>2, ToSendFacts
  <2>3. NewId(e) \in Ident BY <1>2, SeqForNumbers, DeviceType DEF NewId, Ident
  <2>4. DigestOf(outbox[e]) \in Digest BY <2>2 DEF DigestOf, Row, Digest
  <2> DEFINE id == NewId(e)
             sent == DigestOf(outbox[e])
  <2> HIDE DEF id, sent
  <2>5. [outbox[e] EXCEPT !.id = id, !.sent = sent] \in Row BY <2>2, <2>3, <2>4 DEF Row, id, sent
  <2> QED BY <1>0, <1>2, <2>1, <2>2, <2>3, <2>5 DEF id, sent
<1>3. CASE e \notin Orphans \cup Fresh(ToSend)
  <2>1. Allocated(ToSend)[e] = outbox[e] BY <1>3 DEF Allocated
  <2>2. outbox[e] \in Row \cup {None} BY DEF TypeOK
  <2> QED BY <1>3, <2>1, <2>2 DEF Pending
<1> QED BY <1>1, <1>2, <1>3

\* The floor is a number below every identity that is left, and not above next.
LEMMA FloorOverLow ==
  ASSUME NEW rows, NEW next \in Nat, \A e \in Entity : rows[e] \in Row \cup {None}
  PROVE  /\ FloorOver(rows, next) \in Nat
         /\ \A e \in Entity : rows[e] # None /\ rows[e].id # None /\ rows[e].blocked # "identity lost" =>
              rows[e].id \in Ident /\ rows[e].id.seq \in Nat /\ FloorOver(rows, next) <= rows[e].id.seq
<1> DEFINE Live == {x \in Entity : rows[x] # None /\ rows[x].id # None /\ rows[x].blocked # "identity lost"}
           seqs == {rows[e].id.seq : e \in Live}
<1>1. \A e \in Live : rows[e].id \in Ident BY DEF Row
<1>2. \A e \in Live : rows[e].id.seq \in Nat BY <1>1 DEF Ident
<1>3. seqs \in SUBSET Nat BY <1>2
<1>4. FloorOver(rows, next) = IF seqs = {} THEN next ELSE CHOOSE n \in seqs : \A m \in seqs : n <= m
  BY DEF FloorOver
<1>5. \A e \in Live : rows[e].id.seq \in seqs OBVIOUS
<1>6. CASE seqs = {}
  <2>1. \A e \in Entity : e \notin Live BY <1>5, <1>6
  <2> QED BY <1>4, <1>6, <2>1
<1>7. CASE seqs # {}
  <2> HIDE DEF seqs
  <2>1. \E n \in seqs : \A m \in seqs : n <= m BY <1>3, <1>7, LeastNumber
  <2>2. FloorOver(rows, next) \in seqs /\ \A m \in seqs : FloorOver(rows, next) <= m BY <1>4, <1>7, <2>1
  <2>3. \A e \in Entity : rows[e] # None /\ rows[e].id # None /\ rows[e].blocked # "identity lost" => e \in Live
    OBVIOUS
  <2> HIDE DEF Live
  <2> QED BY <1>1, <1>2, <1>3, <1>5, <2>2, <2>3
<1> QED BY <1>6, <1>7

LEMMA StartV3Type == ASSUME TypeOK, OneOp, Devices, StartV3 PROVE TypeOK'
<1>1. \A e \in Entity : Allocated(ToSend)[e] \in Row \cup {None} BY AllocatedRow
<1>2. outbox' \in [Entity -> Row \cup {None}] BY <1>1, StartV3Facts DEF Allocated
<1>3. device' \in [dev : Nat, next : Nat, known : BOOLEAN] BY DeviceType, ToSendFacts, StartV3Facts
<1>4. batch' \in [Entity -> Row \cup {None}]
  <2>1. batch' = [e \in Entity |-> CASE e \in ToSend -> Allocated(ToSend)[e]
                                    [] \E h \in Replayed : h.e = e -> outbox[e]
                                    [] OTHER -> None]
    BY StartV3Facts
  <2>2. \A e \in Entity : outbox[e] \in Row \cup {None} BY DEF TypeOK
  <2>3. ASSUME NEW e \in Entity
        PROVE  (CASE e \in ToSend -> Allocated(ToSend)[e]
                  [] \E h \in Replayed : h.e = e -> outbox[e]
                  [] OTHER -> None) \in Row \cup {None}
    <3>1. Allocated(ToSend)[e] \in Row \cup {None} /\ outbox[e] \in Row \cup {None} BY <1>1, <2>2
    <3> QED BY <3>1
  <2> QED BY <2>1, <2>3
<1>5. floor' \in Nat
  <2>1. Device.next + Count \in Nat BY DeviceType, ToSendFacts
  <2>2. FloorOver(Allocated(ToSend), Device.next + Count) \in Nat BY <1>1, <2>1, FloorOverLow
  <2> QED BY <2>2, StartV3Facts
<1>6. /\ answers' \in [Entity -> Answer \cup {None}]
      /\ toSettle' \subseteq {e \in Entity : answers'[e] # None}
  <2>1. answers' = [e \in Entity |->
          IF \E h \in Replayed : h.e = e THEN (CHOOSE h \in Replayed : h.e = e).result ELSE None]
    BY StartV3Facts
  <2>2. \A h \in Replayed : h.e \in Entity /\ h.result \in Answer
    BY DEF Replayed, Kept, TypeOK, Hold
  <2>3. ASSUME NEW h \in Replayed PROVE (CHOOSE g \in Replayed : g.e = h.e).result \in Answer
    <3>1. (CHOOSE g \in Replayed : g.e = h.e) \in Replayed OBVIOUS
    <3> QED BY <2>2, <3>1
  <2>4. ASSUME NEW e \in Entity PROVE answers'[e] \in Answer \cup {None}
    <3>1. CASE \E h \in Replayed : h.e = e BY <2>1, <2>3, <3>1
    <3>2. CASE ~\E h \in Replayed : h.e = e BY <2>1, <3>2
    <3> QED BY <3>1, <3>2
  <2>5. ASSUME NEW h \in Replayed PROVE answers'[h.e] # None
    <3>1. answers'[h.e] = (CHOOSE g \in Replayed : g.e = h.e).result BY <2>1, <2>2
    <3> QED BY <2>3, <3>1, Sentinels
  <2>6. toSettle' = {h.e : h \in Replayed} BY StartV3Facts
  <2> QED BY <2>1, <2>2, <2>4, <2>5, <2>6
<1>7. /\ holds' \subseteq Hold /\ unsent' \subseteq Entity /\ sealed' \subseteq Entity
      /\ fromV2' \subseteq Entity /\ toBlock' = {}
  <2>1. \A h \in Replayed : h.e \in Entity BY DEF Replayed, Kept, TypeOK, Hold
  <2> QED BY <2>1, StartV3Facts, ToSendFacts DEF Kept, TypeOK
<1>8. /\ pc' \in {"settle", "send"} /\ current' = None
      /\ posted' \subseteq posted /\ unanswered' \subseteq unanswered
      /\ UNCHANGED <<server, late, made, dropped, landed>>
  BY StartV3Facts DEF TypeOK
<1> QED BY <1>2, <1>3, <1>4, <1>5, <1>6, <1>7, <1>8 DEF TypeOK, server

-----------------------------------------------------------------------------
(* The steps that allocate nothing: identities stay where they are. *)

\* A row goes away, keeps its operation and its identity, or is born without one.
Stays(e) ==
  /\ outbox[e] # None /\ outbox'[e] # None
  /\ outbox'[e].op = outbox[e].op /\ outbox'[e].id = outbox[e].id /\ outbox'[e].sent = outbox[e].sent
  /\ outbox'[e].blocked \in {"no", "identity lost"} => outbox'[e].blocked = outbox[e].blocked
Born(e) ==
  /\ outbox'[e] # None /\ outbox'[e].id = None /\ outbox'[e].sent = None
  /\ outbox'[e].op = made' /\ made' = made + 1
  /\ \A f \in Entity \ {e} : outbox'[f] = outbox[f]
RowFrame ==
  /\ \A e \in Entity : outbox'[e] = None \/ Stays(e) \/ Born(e)
  /\ made' \in Nat /\ made <= made'
  /\ device'.dev = device.dev /\ device'.next = device.next
  /\ ~device'.known => ~device.known \/ device.dev < MaxDevices

\* Nothing is sent or decided but what was claimed before.
NetFrame ==
  /\ \A q \in V3Requests' : FloorFor(q.dev, q.floor) \in Floors /\ \A o \in q.todo : Claim(o) \in Claims
  /\ \A r \in decided' : Claim(r) \in Claims
  /\ \A d \in 0..MaxDevices : serverFloor'[d] > 0 => FloorFor(d, serverFloor'[d]) \in Floors
  /\ unsent' \subseteq unsent
  /\ \A e \in unsent' : batch'[e] = batch[e]
  /\ unsent' # {} => floor' = floor

LEMMA KeptRows ==
  ASSUME TypeOK, RowFrame, NEW e \in Numbered'
  PROVE  e \in Entity /\ e \in Numbered /\ Stays(e)
BY DEF Numbered, Pending, RowFrame, Stays, Born

LEMMA FramedClaims == ASSUME TypeOK, OneClaim, RowFrame, NetFrame PROVE OneClaim'
<1>1. ASSUME NEW x \in Sent' PROVE Claim(x) \in Claims BY <1>1 DEF Sent, NetFrame
<1>2. ASSUME NEW e \in unsent' PROVE Claim(batch'[e]) \in Claims BY <1>2 DEF NetFrame, Claims
<1>3. ASSUME NEW e \in Numbered' PROVE Seal(outbox'[e]) \in Claims
  <2>1. e \in Numbered /\ Seal(outbox'[e]) = Seal(outbox[e]) BY <1>3, KeptRows DEF Stays, Seal
  <2> QED BY <2>1 DEF Claims
<1>4. Claims' \subseteq Claims
  <2> DEFINE A == {Claim(x) : x \in Sent'}
             B == {Claim(batch'[e]) : e \in unsent'}
             C == {Seal(outbox'[e]) : e \in Numbered'}
  <2>1. Claims' = A \cup B \cup C BY DEF Claims, Claim, Seal, DigestOf
  <2>2. A \subseteq Claims BY <1>1
  <2>3. B \subseteq Claims BY <1>2
  <2>4. C \subseteq Claims BY <1>3
  <2> HIDE DEF A, B, C
  <2> QED BY <2>1, <2>2, <2>3, <2>4
<1>5. device'.dev = device.dev /\ device'.next = device.next BY DEF RowFrame
<1>6. \A c \in Claims : Used(c.id)' BY <1>5 DEF OneClaim, Used
<1> QED BY <1>4, <1>6 DEF OneClaim

LEMMA FramedFloors == ASSUME TypeOK, FloorsLow, RowFrame, NetFrame PROVE FloorsLow'
<1>1. device'.dev = device.dev /\ device'.next = device.next BY DEF RowFrame
<1>2. ASSUME NEW p \in Floors' PROVE p \in Floors
  <2>1. CASE \E q \in V3Requests' : p = FloorFor(q.dev, q.floor) BY <2>1 DEF NetFrame
  <2>2. CASE \E d \in 0..MaxDevices : serverFloor'[d] > 0 /\ p = FloorFor(d, serverFloor'[d]) BY <2>2 DEF NetFrame
  <2>3. CASE unsent' # {} /\ p = FloorFor(device'.dev, floor')
    <3>1. unsent # {} /\ p = FloorFor(device.dev, floor) BY <1>1, <2>3 DEF NetFrame
    <3> QED BY <3>1 DEF Floors
  <2>4. \/ \E q \in V3Requests' : p = FloorFor(q.dev, q.floor)
        \/ \E d \in 0..MaxDevices : serverFloor'[d] > 0 /\ p = FloorFor(d, serverFloor'[d])
        \/ unsent' # {} /\ p = FloorFor(device'.dev, floor')
    BY <1>2 DEF Floors, FloorFor
  <2> QED BY <2>1, <2>2, <2>3, <2>4
<1>3. ASSUME NEW e \in Numbered' PROVE e \in Numbered /\ outbox'[e].id = outbox[e].id
  BY <1>3, KeptRows DEF Stays
<1> QED BY <1>1, <1>2, <1>3 DEF FloorsLow

LEMMA FramedRows ==
  ASSUME TypeOK, OwnDevice, OneOp, Batched, Devices, RowFrame, NetFrame
  PROVE  OwnDevice' /\ OneOp' /\ Batched' /\ Devices'
<1>1. device'.dev = device.dev /\ device'.next = device.next BY DEF RowFrame
<1>2. OwnDevice'
  <2> SUFFICES ASSUME NEW e \in Numbered'
               PROVE  /\ outbox'[e].blocked = "no" => outbox'[e].id.dev = device'.dev
                      /\ outbox'[e].blocked = "identity lost" => outbox'[e].id.dev < device'.dev
    BY DEF OwnDevice
  <2>1. e \in Numbered /\ Stays(e) BY KeptRows
  <2> QED BY <1>1, <2>1 DEF OwnDevice, Stays
<1>3. OneOp'
  <2> SUFFICES ASSUME NEW e \in Pending', NEW f \in Pending'
               PROVE  outbox'[e].op <= made' /\ (outbox'[e].op = outbox'[f].op => e = f)
    BY DEF OneOp
  <2>1. e \in Entity /\ f \in Entity /\ outbox'[e] # None /\ outbox'[f] # None BY DEF Pending
  <2>2. made \in Nat /\ made <= made' BY PushConstants DEF RowFrame, TypeOK
  <2>3. ASSUME NEW g \in Entity, Stays(g)
        PROVE  g \in Pending /\ outbox'[g].op = outbox[g].op /\ outbox[g].op \in Nat /\ outbox[g].op <= made
    <3>1. g \in Pending /\ outbox[g] \in Row BY <2>3 DEF Stays, Pending, TypeOK
    <3>2. outbox[g].op \in Nat BY <3>1 DEF Row
    <3> QED BY <2>3, <3>1, <3>2 DEF Stays, OneOp
  <2>4. ASSUME NEW g \in Entity, NEW h \in Entity, g # h, Born(g) PROVE ~Born(h)
    <3>1. SUFFICES ASSUME Born(h) PROVE FALSE OBVIOUS
    <3>2. outbox'[g] # None /\ outbox'[g].op = made + 1 BY <2>4 DEF Born
    <3>3. outbox'[g] = outbox[g] BY <2>4, <3>1 DEF Born
    <3>4. g \in Pending BY <3>2, <3>3 DEF Pending
    <3>5. outbox[g].op <= made BY <3>4 DEF OneOp
    <3> QED BY <2>2, <3>2, <3>3, <3>5
  <2>5. Stays(e) \/ Born(e) BY <2>1 DEF RowFrame
  <2>6. Stays(f) \/ Born(f) BY <2>1 DEF RowFrame
  <2>7. \A g \in Entity : Born(g) => outbox'[g].op = made + 1 /\ made' = made + 1 BY DEF Born
  <2>8. CASE Stays(e) /\ Stays(f)
    <3>1. /\ outbox'[e].op = outbox[e].op /\ outbox[e].op \in Nat /\ outbox[e].op <= made
          /\ outbox'[f].op = outbox[f].op /\ e \in Pending /\ f \in Pending
      BY <2>1, <2>3, <2>8
    <3>2. outbox[e].op = outbox[f].op => e = f BY <3>1 DEF OneOp
    <3>3. made' \in Nat BY DEF RowFrame
    <3> QED BY <2>2, <3>1, <3>2, <3>3
  <2>9. CASE Stays(e) /\ Born(f)
    <3>1. outbox'[e].op \in Nat /\ outbox'[e].op <= made BY <2>1, <2>3, <2>9
    <3>2. outbox'[f].op = made + 1 /\ made' = made + 1 BY <2>1, <2>7, <2>9
    <3> QED BY <2>2, <3>1, <3>2
  <2>10. CASE Born(e) /\ Stays(f)
    <3>1. outbox'[f].op \in Nat /\ outbox'[f].op <= made BY <2>1, <2>3, <2>10
    <3>2. outbox'[e].op = made + 1 /\ made' = made + 1 BY <2>1, <2>7, <2>10
    <3> QED BY <2>2, <3>1, <3>2
  <2>11. CASE Born(e) /\ Born(f) BY <2>1, <2>2, <2>4, <2>7, <2>11
  <2> QED BY <2>5, <2>6, <2>8, <2>9, <2>10, <2>11
<1>4. Batched' BY DEF Batched, NetFrame, DigestOf
<1>5. Devices' BY <1>1 DEF Devices, RowFrame
<1> QED BY <1>2, <1>3, <1>4, <1>5

\* Steps that touch neither the rows nor what is sent.
LEMMA QuietRows == ASSUME TypeOK, UNCHANGED <<outbox, device, made>> PROVE RowFrame
<1>1. made' \in Nat /\ made <= made' BY PushConstants DEF TypeOK
<1>2. \A e \in Entity : outbox'[e] = None \/ Stays(e) BY DEF Stays
<1> QED BY <1>1, <1>2 DEF RowFrame

LEMMA QuietNet ==
  ASSUME UNCHANGED <<current, late, decided, serverFloor, unsent, batch, floor>>
  PROVE  NetFrame
<1>1. V3Requests' = V3Requests BY DEF V3Requests
<1>2. \A q \in V3Requests : FloorFor(q.dev, q.floor) \in Floors /\ \A o \in q.todo : Claim(o) \in Claims
  BY DEF Floors, Claims, Sent
<1>3. \A r \in decided : Claim(r) \in Claims BY DEF Claims, Sent
<1>4. \A d \in 0..MaxDevices : serverFloor[d] > 0 => FloorFor(d, serverFloor[d]) \in Floors BY DEF Floors
<1> QED BY <1>1, <1>2, <1>3, <1>4 DEF NetFrame

\* The push ends, a request is over, or the server answers: nothing is added.
LEMMA LessNet ==
  ASSUME /\ \A q \in V3Requests' : \E r \in V3Requests :
              q.dev = r.dev /\ q.floor = r.floor /\ q.todo \subseteq r.todo,
         \A r \in decided' : Claim(r) \in Claims,
         \A d \in 0..MaxDevices : serverFloor'[d] = serverFloor[d] \/ FloorFor(d, serverFloor'[d]) \in Floors,
         unsent' \subseteq unsent, unsent' # {} => UNCHANGED <<batch, floor>>
  PROVE  NetFrame
<1>1. \A q \in V3Requests : FloorFor(q.dev, q.floor) \in Floors /\ \A o \in q.todo : Claim(o) \in Claims
  BY DEF Floors, Claims, Sent
<1>2. \A d \in 0..MaxDevices : serverFloor[d] > 0 => FloorFor(d, serverFloor[d]) \in Floors BY DEF Floors
<1>3. ASSUME NEW q \in V3Requests'
      PROVE  FloorFor(q.dev, q.floor) \in Floors /\ \A o \in q.todo : Claim(o) \in Claims
  BY <1>1, <1>3
<1> QED BY <1>2, <1>3 DEF NetFrame

\* A decision is about an identity that was claimed.
LEMMA ClaimedDecisions == \A r \in decided : Claim(r) \in Claims
BY DEF Claims, Sent

LEMMA EnqueueFrame == ASSUME TypeOK, NEW e \in Entity, Enqueue(e) PROVE RowFrame /\ NetFrame
<1>1. /\ made' = made + 1 /\ made \in Nat
      /\ UNCHANGED <<holds, device, push, server, late, history>>
  BY PushConstants DEF Enqueue, TypeOK
<1>2. outbox \in [Entity -> Row \cup {None}] BY DEF TypeOK
<1>3. \A f \in Entity \ {e} : outbox'[f] = outbox[f] BY <1>2 DEF Enqueue
<1>4. Stays(e) \/ Born(e)
  <2>1. CASE outbox[e] # None
    <3>1. outbox[e] \in Row BY <1>2, <2>1
    <3>2. outbox'[e] = [outbox[e] EXCEPT !.edits = @ \cup {made'}, !.error = "none", !.retries = 0]
      BY <1>2, <2>1 DEF Enqueue
    <3>3. /\ outbox'[e].op = outbox[e].op /\ outbox'[e].id = outbox[e].id
          /\ outbox'[e].sent = outbox[e].sent /\ outbox'[e].blocked = outbox[e].blocked
      BY <3>1, <3>2 DEF Row
    <3>4. outbox'[e] # None
      <4>1. outbox' \in [Entity -> Row \cup {None}] BY EnqueueType DEF TypeOK
      <4>2. [outbox[e] EXCEPT !.edits = @ \cup {made'}, !.error = "none", !.retries = 0] \in Row
        <5>0. made' \in Nat BY <1>1
        <5>1. outbox[e].edits \cup {made'} \in SUBSET Nat BY <5>0, <3>1 DEF Row
        <5>2. 0 \in 0..MaxRetries BY PushConstants
        <5> QED BY <3>1, <5>1, <5>2 DEF Row
      <4> QED BY <3>2, <4>2, Sentinels
    <3> QED BY <2>1, <3>3, <3>4 DEF Stays
  <2>2. CASE outbox[e] = None
    <3>1. PICK base \in {version[e], NoBase} :
            outbox' = [outbox EXCEPT ![e] =
               [op |-> made', edits |-> {made'}, base |-> base, id |-> None, sent |-> None,
                retries |-> 0, error |-> "none", blocked |-> "no"]]
      BY <2>2 DEF Enqueue
    <3> DEFINE row == [op |-> made', edits |-> {made'}, base |-> base, id |-> None, sent |-> None,
                       retries |-> 0, error |-> "none", blocked |-> "no"]
    <3>2. outbox'[e] = row BY <1>2, <3>1
    <3>3. row.id = None /\ row.sent = None /\ row.op = made' OBVIOUS
    <3>4. row \in Row
      <4>1. version[e] \in Nat BY DEF TypeOK
      <4> QED BY <1>1, <4>1, PushConstants DEF Row
    <3> HIDE DEF row
    <3>5. outbox'[e] # None /\ outbox'[e].id = None /\ outbox'[e].sent = None /\ outbox'[e].op = made'
      BY <3>2, <3>3, <3>4, Sentinels
    <3> QED BY <1>1, <1>3, <3>5 DEF Born
  <2> QED BY <2>1, <2>2
<1>5. \A f \in Entity \ {e} : outbox'[f] = None \/ Stays(f) BY <1>3 DEF Stays
<1>6. RowFrame BY <1>1, <1>4, <1>5 DEF RowFrame
<1>7. NetFrame BY <1>1, QuietNet DEF push, server
<1> QED BY <1>6, <1>7

\* One row changes, and keeps its operation and its identity, or goes away.
LEMMA OneRowFrame ==
  ASSUME TypeOK, NEW e \in Entity, outbox' = [outbox EXCEPT ![e] = outbox'[e]],
         outbox'[e] = None \/ Stays(e), UNCHANGED <<device, made>>
  PROVE  RowFrame
<1>1. made' \in Nat /\ made <= made' BY PushConstants DEF TypeOK
<1>2. \A f \in Entity \ {e} : outbox'[f] = outbox[f] BY DEF TypeOK
<1>3. \A f \in Entity : outbox'[f] = None \/ Stays(f) BY <1>2 DEF Stays
<1> QED BY <1>1, <1>3 DEF RowFrame

LEMMA RevokeFrame == ASSUME TypeOK, NEW e \in Entity, Revoke(e) PROVE RowFrame /\ NetFrame
<1> DEFINE row == [outbox[e] EXCEPT !.retries = MaxRetries, !.error = "error", !.blocked = "revoked"]
<1>1. outbox[e] # None /\ outbox[e] \in Row BY DEF Revoke, TypeOK
<1>2. outbox' = [outbox EXCEPT ![e] = row] /\ outbox'[e] = row BY DEF Revoke, TypeOK
<1>3. /\ row.op = outbox[e].op /\ row.id = outbox[e].id /\ row.sent = outbox[e].sent
      /\ row.blocked = "revoked"
  BY <1>1 DEF Row
<1>4. row # None
  <2>1. MaxRetries \in 0..MaxRetries BY PushConstants
  <2>2. row \in Row BY <1>1, <2>1 DEF Row
  <2> QED BY <2>2, Sentinels
<1> HIDE DEF row
<1>5. Stays(e) BY <1>1, <1>2, <1>3, <1>4 DEF Stays
<1>6. RowFrame BY <1>2, <1>5, OneRowFrame DEF Revoke
<1>7. NetFrame BY QuietNet DEF Revoke, push, server
<1> QED BY <1>6, <1>7

LEMMA AutoResolveFrame == ASSUME TypeOK, NEW e \in Entity, AutoResolve(e) PROVE RowFrame /\ NetFrame
<1>1. outbox' = [outbox EXCEPT ![e] = None] /\ outbox'[e] = None BY DEF AutoResolve, TypeOK
<1>2. RowFrame BY <1>1, OneRowFrame DEF AutoResolve
<1>3. NetFrame BY QuietNet DEF AutoResolve, push, server
<1> QED BY <1>2, <1>3

LEMMA LoseDeviceFrame == ASSUME TypeOK, LoseDevice PROVE RowFrame /\ NetFrame
<1>1. device'.dev = device.dev /\ device'.next = device.next BY DEF LoseDevice, TypeOK
<1>2. device.dev < MaxDevices BY PushConstants DEF LoseDevice, TypeOK
<1>3. made' \in Nat /\ made <= made' /\ outbox' = outbox BY PushConstants DEF LoseDevice, TypeOK
<1>4. \A e \in Entity : outbox'[e] = None \/ Stays(e) BY <1>3 DEF Stays
<1>5. RowFrame BY <1>1, <1>2, <1>3, <1>4 DEF RowFrame
<1>6. NetFrame BY QuietNet DEF LoseDevice, push, server
<1> QED BY <1>5, <1>6

LEMMA SettleFrame == ASSUME TypeOK, NEW e \in Entity, Settle(e) PROVE RowFrame /\ NetFrame
<1>0. e \in toSettle /\ (SettleOk(e) \/ SettleConflict(e) \/ SettleError(e)) /\ UNCHANGED <<device, made>>
  BY DEF Settle
<1>1. \/ outbox' = outbox
      \/ outbox' = [outbox EXCEPT ![e] = None]
      \/ /\ outbox[e] # None
         /\ \E base \in Nat \cup {NoBase}, retries \in 0..MaxRetries, error \in {"none", "error", "conflict"} :
              outbox' = [outbox EXCEPT ![e] = [outbox[e] EXCEPT !.base = base, !.retries = retries, !.error = error]]
  BY <1>0, SettleRow
<1>2. RowFrame
  <2>1. CASE outbox' = outbox BY <1>0, <2>1, QuietRows
  <2>2. CASE outbox' = [outbox EXCEPT ![e] = None]
    <3>1. outbox'[e] = None BY <2>2 DEF TypeOK
    <3> QED BY <1>0, <2>2, <3>1, OneRowFrame
  <2>3. ASSUME outbox[e] # None, NEW base \in Nat \cup {NoBase}, NEW retries \in 0..MaxRetries,
               NEW error \in {"none", "error", "conflict"},
               outbox' = [outbox EXCEPT ![e] = [outbox[e] EXCEPT !.base = base, !.retries = retries, !.error = error]]
        PROVE  RowFrame
    <3> DEFINE row == [outbox[e] EXCEPT !.base = base, !.retries = retries, !.error = error]
    <3>1. outbox' = [outbox EXCEPT ![e] = row] /\ outbox'[e] = row BY <2>3 DEF TypeOK
    <3>2. outbox[e] \in Row BY <2>3 DEF TypeOK
    <3>3. /\ row.op = outbox[e].op /\ row.id = outbox[e].id /\ row.sent = outbox[e].sent
          /\ row.blocked = outbox[e].blocked
      BY <3>2 DEF Row
    <3>4. row \in Row BY <2>3, <3>2 DEF Row
    <3> HIDE DEF row
    <3>5. Stays(e) BY <2>3, <3>1, <3>3, <3>4, Sentinels DEF Stays
    <3> QED BY <1>0, <3>1, <3>5, OneRowFrame
  <2> QED BY <1>1, <2>1, <2>2, <2>3
<1>3. NetFrame BY QuietNet DEF Settle, server
<1> QED BY <1>2, <1>3

LEMMA QuarantineFrame == ASSUME TypeOK, NEW e \in Entity, Quarantine(e) PROVE RowFrame /\ NetFrame
<1>0. UNCHANGED <<device, made>> BY DEF Quarantine
<1>1. RowFrame
  <2>1. CASE outbox' = outbox BY <1>0, <2>1, QuietRows
  <2>2. CASE outbox' # outbox
    <3> DEFINE row == [outbox[e] EXCEPT !.retries = MaxRetries, !.blocked = "rejected"]
    <3>1. outbox[e] # None /\ outbox' = [outbox EXCEPT ![e] = row]
      BY <2>2 DEF Quarantine, SameSnapshot
    <3>2. outbox[e] \in Row /\ outbox'[e] = row BY <3>1 DEF TypeOK
    <3>3. /\ row.op = outbox[e].op /\ row.id = outbox[e].id /\ row.sent = outbox[e].sent
          /\ row.blocked = "rejected"
      BY <3>2 DEF Row
    <3>4. row \in Row
      <4>1. MaxRetries \in 0..MaxRetries BY PushConstants
      <4> QED BY <3>2, <4>1 DEF Row
    <3> HIDE DEF row
    <3>5. Stays(e) BY <3>1, <3>2, <3>3, <3>4, Sentinels DEF Stays
    <3> QED BY <1>0, <3>1, <3>2, <3>5, OneRowFrame
  <2> QED BY <2>1, <2>2
<1>2. NetFrame BY QuietNet DEF Quarantine, server
<1> QED BY <1>1, <1>2

LEMMA StartV2Frame == ASSUME TypeOK, Idle, StartV2 PROVE RowFrame /\ NetFrame
<1>1. /\ unsent' = {} /\ current'.via = "v2" /\ current' # None
      /\ UNCHANGED <<client, server, late, made>>
  <2>1. current' = [via |-> "v2", dev |-> 0, floor |-> 0, begun |-> TRUE,
                    todo |-> {AsOp(e, outbox[e]) : e \in {e \in Pending : Sendable(e) /\ outbox[e].sent = None}}]
    BY DEF StartV2
  <2>2. current'.via = "v2" BY <2>1
  <2>3. current' # None BY StartV2Type DEF StartV2, TypeOK
  <2> QED BY <2>2, <2>3 DEF StartV2, Idle
<1>2. RowFrame BY <1>1, QuietRows DEF client
<1>3. \A q \in V3Requests' : q \in V3Requests BY <1>1 DEF V3Requests
<1>4. UNCHANGED <<decided, serverFloor>> BY <1>1 DEF server
<1>5. NetFrame BY <1>1, <1>3, <1>4, ClaimedDecisions, LessNet
<1> QED BY <1>2, <1>5

LEMMA SendChunkFrame == ASSUME TypeOK, Batched, SendChunk PROVE RowFrame /\ NetFrame
<1>1. UNCHANGED <<client, batch, unsent, floor, server, late, made>> BY DEF SendChunk
<1>2. RowFrame BY <1>1, QuietRows DEF client
<1>3. PICK chunk \in (SUBSET unsent) \ {{}} :
        current' = [via |-> "v3", dev |-> device.dev, floor |-> floor, begun |-> FALSE, todo |-> Ops(chunk)]
  BY DEF SendChunk
<1>4. FloorFor(current'.dev, current'.floor) \in Floors
  <2>1. current'.dev = device.dev /\ current'.floor = floor BY <1>3
  <2>2. unsent # {} BY Zenon
  <2> QED BY <2>1, <2>2 DEF Floors
<1>5. ASSUME NEW o \in current'.todo PROVE Claim(o) \in Claims
  <2>1. PICK e \in chunk : o = AsOp(e, batch[e]) BY <1>3, <1>5 DEF Ops
  <2>2. e \in unsent BY <2>1
  <2>3. Claim(o) = Claim(batch[e]) BY <2>1 DEF Claim, AsOp, DigestOf
  <2> QED BY <2>2, <2>3 DEF Claims
<1>6. \A q \in V3Requests' : q \in V3Requests \/ q = current' BY <1>1 DEF V3Requests
<1>7. \A q \in V3Requests : FloorFor(q.dev, q.floor) \in Floors /\ \A o \in q.todo : Claim(o) \in Claims
  BY DEF Floors, Claims, Sent
<1>8. \A d \in 0..MaxDevices : serverFloor[d] > 0 => FloorFor(d, serverFloor[d]) \in Floors BY DEF Floors
<1>9. NetFrame BY <1>1, <1>4, <1>5, <1>6, <1>7, <1>8, ClaimedDecisions DEF NetFrame, server
<1> QED BY <1>2, <1>9

\* The request that was waited for is over, or one that carries no identity is sent.
LEMMA OverNet ==
  ASSUME current' = None \/ current'.via # "v3", UNCHANGED <<late, server>>,
         unsent' \subseteq unsent, unsent' # {} => UNCHANGED <<batch, floor>>
  PROVE  NetFrame
<1>1. \A q \in V3Requests' : q \in V3Requests BY DEF V3Requests
<1>2. UNCHANGED <<decided, serverFloor>> BY DEF server
<1> QED BY <1>1, <1>2, ClaimedDecisions, LessNet

LEMMA SendFallbackFrame == ASSUME TypeOK, SendFallback PROVE RowFrame /\ NetFrame
<1>1. UNCHANGED <<client, batch, unsent, floor, server, late, made>> BY DEF SendFallback
<1>2. current'.via # "v3" BY DEF SendFallback
<1>3. RowFrame BY <1>1, QuietRows DEF client
<1>4. NetFrame BY <1>1, <1>2, OverNet
<1> QED BY <1>3, <1>4

LEMMA DisabledFrame == ASSUME TypeOK, Disabled PROVE RowFrame /\ NetFrame
<1>1. UNCHANGED <<outbox, device, batch, floor, server, late, made>> /\ current' = None /\ unsent' \subseteq unsent
  BY DEF Disabled
<1> QED BY <1>1, QuietRows, OverNet

LEMMA ReceiveFrame ==
  ASSUME TypeOK, ReceiveV3 \/ ReceiveFallback \/ ReceiveV2 PROVE RowFrame /\ NetFrame
<1>1. UNCHANGED <<outbox, device, late, server, made>> /\ current' = None
  BY DEF ReceiveV3, ReceiveFallback, ReceiveV2, client
<1>2. unsent' \subseteq unsent /\ (unsent' # {} => UNCHANGED <<batch, floor>>)
  BY DEF ReceiveV3, ReceiveFallback, ReceiveV2
<1>3. RowFrame BY <1>1, QuietRows
<1>4. NetFrame BY <1>1, <1>2, OverNet
<1> QED BY <1>3, <1>4

LEMMA InterruptFrame == ASSUME TypeOK, Interrupt PROVE RowFrame /\ NetFrame
<1>1. UNCHANGED <<client, server, made>> /\ current' = None /\ unsent' = {} BY DEF Interrupt, PushEnds
<1>2. late' \subseteq late \cup (IF current = None THEN {} ELSE {current})
  BY DEF Interrupt, TypeOK
<1>3. \A q \in V3Requests' : q \in V3Requests BY <1>1, <1>2 DEF V3Requests
<1>4. RowFrame BY <1>1, QuietRows DEF client
<1>5. UNCHANGED <<decided, serverFloor>> BY <1>1 DEF server
<1>6. NetFrame BY <1>1, <1>3, <1>5, ClaimedDecisions, LessNet
<1> QED BY <1>4, <1>6

LEMMA FinishFrame == ASSUME TypeOK, Finish PROVE RowFrame /\ NetFrame
<1>1. UNCHANGED <<outbox, device, server, late, made>> /\ current' = None /\ unsent' = {}
  BY DEF Finish, PushEnds
<1> QED BY <1>1, QuietRows, OverNet

\* A request begins.
LEMMA BeginNet ==
  ASSUME TypeOK, FloorsLow, Devices, NEW r \in V3Requests,
         \A q \in V3Requests' : q \in V3Requests \/ q = Begun(r),
         decided' = decided, serverFloor' = Raised(r), UNCHANGED <<unsent, batch, floor>>
  PROVE  NetFrame
<1>1. \A q \in V3Requests : FloorFor(q.dev, q.floor) \in Floors /\ \A o \in q.todo : Claim(o) \in Claims
  BY DEF Floors, Claims, Sent
<1>2. \A d \in 0..MaxDevices : serverFloor[d] > 0 => FloorFor(d, serverFloor[d]) \in Floors BY DEF Floors
<1>3. r \in Request BY DEF V3Requests, TypeOK
<1>4. r.dev \in 0..MaxDevices BY RequestDevice
<1>5. FloorFor(r.dev, Begun(r).floor) \in Floors BY <1>1, <1>2, <1>3, <1>4, BegunFloor
<1>6. Begun(r).dev = r.dev /\ Begun(r).todo = r.todo BY <1>3, BegunFields
<1>7. \A q \in V3Requests' : FloorFor(q.dev, q.floor) \in Floors /\ \A o \in q.todo : Claim(o) \in Claims
  BY <1>1, <1>5, <1>6
<1>8. \A d \in 0..MaxDevices : serverFloor'[d] > 0 => FloorFor(d, serverFloor'[d]) \in Floors
  <2> TAKE d \in 0..MaxDevices
  <2>1. serverFloor'[d] = serverFloor[d] \/ (d = r.dev /\ serverFloor'[d] = r.floor)
    BY <1>4 DEF Raised, TypeOK
  <2> QED BY <1>1, <1>2, <2>1
<1> QED BY <1>7, <1>8, ClaimedDecisions DEF NetFrame

LEMMA BeginFrame == ASSUME TypeOK, FloorsLow, Devices, Begin PROVE RowFrame /\ NetFrame
<1>1. current \in Request /\ current # None /\ current.via = "v3" BY Sentinels DEF Begin, TypeOK
<1>2. current' = Begun(current) /\ UNCHANGED <<client, unsent, batch, floor, late, made, decided>>
      /\ serverFloor' = Raised(current)
  BY DEF Begin
<1>3. current \in V3Requests BY <1>1 DEF V3Requests
<1>4. \A q \in V3Requests' : q \in V3Requests \/ q = Begun(current) BY <1>2 DEF V3Requests
<1>5. RowFrame BY <1>2, QuietRows DEF client
<1>6. NetFrame BY <1>2, <1>3, <1>4, BeginNet
<1> QED BY <1>5, <1>6

LEMMA BeginLateFrame ==
  ASSUME TypeOK, FloorsLow, Devices, BegunUnlessV3, NEW q \in late, BeginLate(q)
  PROVE  RowFrame /\ NetFrame
<1>1. late' = (late \ {q}) \cup {Begun(q)} /\ UNCHANGED <<client, push, made, decided>>
      /\ serverFloor' = Raised(q)
  BY DEF BeginLate
<1>2. q \in V3Requests BY DEF BeginLate, BegunUnlessV3, UnderWay, V3Requests
<1>3. \A p \in V3Requests' : p \in V3Requests \/ p = Begun(q) BY <1>1 DEF V3Requests, push
<1>4. RowFrame BY <1>1, QuietRows DEF client
<1>5. NetFrame BY <1>1, <1>2, <1>3, BeginNet DEF push
<1> QED BY <1>4, <1>5

\* A decision is about the identity of the operation that is handled.
LEMMA ProcessClaims ==
  ASSUME NEW q, NEW o \in q.todo, q.via = "v3" => q \in V3Requests, NEW verdict, Process(q, o, verdict)
  PROVE  \A r \in decided' : Claim(r) \in Claims
<1>1. CASE decided' = decided BY <1>1, ClaimedDecisions
<1>2. CASE q.via = "v3" /\ (Decide(q, o, verdict) \/ RefuseRetired(q, o, verdict))
  <2>1. decided' \subseteq decided \cup {Outcome(o, verdict)} BY <1>2 DEF Decide, RefuseRetired
  <2>2. Claim(Outcome(o, verdict)) = Claim(o) BY DEF Claim, DigestOf, Outcome
  <2>3. o \in Sent BY <1>2 DEF Sent
  <2>4. Claim(Outcome(o, verdict)) \in Claims BY <2>2, <2>3 DEF Claims
  <2> QED BY <2>1, <2>4, ClaimedDecisions
<1> QED BY <1>1, <1>2 DEF Process, ReplayReceipt, RollBack, DispatchV2

LEMMA HandleFrame ==
  ASSUME TypeOK, NEW o, pc = "wait", o \in current.todo, Handle(o) PROVE RowFrame /\ NetFrame
<1>1. current \in Request /\ current # None BY DEF TypeOK
<1>2. current' = [current EXCEPT !.todo = @ \ {o}]
      /\ UNCHANGED <<client, unsent, batch, floor, late, made, serverFloor>>
  BY DEF Handle
<1>3. /\ current'.dev = current.dev /\ current'.floor = current.floor /\ current'.via = current.via
      /\ current'.todo \subseteq current.todo
  BY <1>1, <1>2 DEF Request
<1>4. current.via = "v3" => current \in V3Requests BY <1>1 DEF V3Requests
<1>5. ASSUME NEW q \in V3Requests'
      PROVE  \E r \in V3Requests : q.dev = r.dev /\ q.floor = r.floor /\ q.todo \subseteq r.todo
  <2>1. q.via = "v3" /\ (q = current' \/ q \in V3Requests) BY <1>2 DEF V3Requests
  <2> QED BY <1>3, <1>4, <2>1
<1>6. \A r \in decided' : Claim(r) \in Claims
  <2>1. PICK verdict : Process(current, o, verdict) BY DEF Handle
  <2> QED BY <1>4, <2>1, ProcessClaims
<1>7. RowFrame BY <1>2, QuietRows DEF client
<1>8. NetFrame BY <1>2, <1>5, <1>6, LessNet
<1> QED BY <1>7, <1>8

LEMMA HandleLateFrame ==
  ASSUME TypeOK, NEW q \in late, NEW o \in q.todo, HandleLate(q, o) PROVE RowFrame /\ NetFrame
<1>1. q \in Request BY DEF TypeOK
<1> DEFINE left == [q EXCEPT !.todo = @ \ {o}]
<1>2. late' \subseteq late \cup {left} /\ UNCHANGED <<client, push, made, serverFloor>> BY DEF HandleLate
<1>3. left.dev = q.dev /\ left.floor = q.floor /\ left.via = q.via /\ left.todo \subseteq q.todo
  BY <1>1 DEF Request
<1> HIDE DEF left
<1>4. q.via = "v3" => q \in V3Requests BY DEF V3Requests
<1>5. ASSUME NEW r \in V3Requests'
      PROVE  \E s \in V3Requests : r.dev = s.dev /\ r.floor = s.floor /\ r.todo \subseteq s.todo
  <2>1. r.via = "v3" /\ (r = left \/ r \in V3Requests) BY <1>2 DEF V3Requests, push
  <2> QED BY <1>3, <1>4, <2>1
<1>6. \A r \in decided' : Claim(r) \in Claims
  <2>1. PICK verdict : Process(q, o, verdict) BY DEF HandleLate
  <2> QED BY <1>4, <2>1, ProcessClaims
<1>7. RowFrame BY <1>2, QuietRows DEF client
<1>8. NetFrame BY <1>2, <1>5, <1>6, LessNet DEF push
<1> QED BY <1>7, <1>8

LEMMA OtherWriteFrame == ASSUME TypeOK, NEW e \in Entity, OtherWrite(e) PROVE RowFrame /\ NetFrame
<1>1. UNCHANGED <<client, push, decided, serverFloor, late, made>> BY DEF OtherWrite
<1>2. RowFrame BY <1>1, QuietRows DEF client
<1>3. NetFrame BY <1>1, QuietNet DEF push
<1> QED BY <1>2, <1>3

LEMMA StutterFrame == ASSUME TypeOK, UNCHANGED vars PROVE RowFrame /\ NetFrame
<1>1. UNCHANGED <<client, push, server, late, made>> BY DEF vars
<1>2. RowFrame BY <1>1, QuietRows DEF client
<1>3. NetFrame BY <1>1, QuietNet DEF push, server
<1> QED BY <1>2, <1>3

\* No step but StartV3 allocates.
LEMMA Frames ==
  ASSUME TypeOK, OneClaim, FloorsLow, Devices, Batched, Idle, BegunUnlessV3, [Next]_vars, ~StartV3
  PROVE  RowFrame /\ NetFrame
<1>1. CASE LoseDevice BY <1>1, LoseDeviceFrame
<1>2. ASSUME NEW e \in Entity, Enqueue(e) PROVE RowFrame /\ NetFrame BY <1>2, EnqueueFrame
<1>3. ASSUME NEW e \in Entity, Revoke(e) PROVE RowFrame /\ NetFrame BY <1>3, RevokeFrame
<1>4. CASE StartV2 BY <1>4, StartV2Frame
<1>5. CASE SendChunk BY <1>5, SendChunkFrame
<1>6. CASE SendFallback BY <1>6, SendFallbackFrame
<1>7. CASE ReceiveV3 \/ ReceiveFallback \/ ReceiveV2 BY <1>7, ReceiveFrame
<1>8. CASE Finish BY <1>8, FinishFrame
<1>9. ASSUME NEW e \in Entity, Settle(e) PROVE RowFrame /\ NetFrame BY <1>9, SettleFrame
<1>10. ASSUME NEW e \in Entity, Quarantine(e) PROVE RowFrame /\ NetFrame BY <1>10, QuarantineFrame
<1>11. ASSUME NEW e \in Entity, AutoResolve(e) PROVE RowFrame /\ NetFrame BY <1>11, AutoResolveFrame
<1>12. CASE Begin BY <1>12, BeginFrame
<1>13. CASE Disabled BY <1>13, DisabledFrame
<1>14. ASSUME pc = "wait", NEW o \in current.todo, Handle(o) PROVE RowFrame /\ NetFrame BY <1>14, HandleFrame
<1>15. ASSUME NEW q \in late, BeginLate(q) PROVE RowFrame /\ NetFrame BY <1>15, BeginLateFrame
<1>16. ASSUME NEW q \in late, NEW o \in q.todo, HandleLate(q, o) PROVE RowFrame /\ NetFrame
  BY <1>16, HandleLateFrame
<1>17. ASSUME NEW e \in Entity, OtherWrite(e) PROVE RowFrame /\ NetFrame BY <1>17, OtherWriteFrame
<1>18. CASE Interrupt BY <1>18, InterruptFrame
<1>19. CASE UNCHANGED vars BY <1>19, StutterFrame
<1> QED
  BY <1>1, <1>2, <1>3, <1>4, <1>5, <1>6, <1>7, <1>8, <1>9, <1>10, <1>11, <1>12, <1>13, <1>14, <1>15,
     <1>16, <1>17, <1>18, <1>19 DEF Next, User, Push, Server

-----------------------------------------------------------------------------
(* Starting a push: the new identities are above everything claimed before,  *)
(* and the floor of the push is below every identity that is left.            *)

\* What a claim says of a row that is sent is what its seal says.
LEMMA SealIsClaim ==
  ASSUME NEW row, row.sent = DigestOf(row) PROVE Claim(row) = Seal(row)
BY DEF Claim, Seal

\* An identity of a row is its old one, or a new one.
LEMMA RowIdentity ==
  ASSUME TypeOK, OneOp, Devices, StartV3, NEW e \in Numbered'
  PROVE  /\ e \in Pending /\ outbox'[e] \in Row /\ outbox'[e].id \in Ident
         /\ \/ /\ e \in Numbered /\ e \notin Fresh(ToSend)
               /\ Seal(outbox'[e]) = Seal(outbox[e]) /\ outbox'[e].id = outbox[e].id
            \/ /\ e \in Fresh(ToSend) /\ outbox'[e].id = NewId(e)
               /\ outbox'[e].sent = DigestOf(outbox'[e]) /\ outbox'[e].blocked = "no"
<1>1. e \in Entity /\ outbox'[e] # None /\ outbox'[e].id # None BY DEF Numbered, Pending
<1>2. outbox'[e] = Allocated(ToSend)[e] BY StartV3Facts
<1>3. e \in Pending /\ outbox'[e] \in Row BY <1>1, <1>2, AllocatedRow
<1>4. outbox'[e].id \in Ident BY <1>1, <1>3 DEF Row
<1>5. outbox[e] \in Row BY <1>3, ToSendFacts
<1>6. CASE e \in Orphans
  <2>1. outbox'[e] = [outbox[e] EXCEPT !.retries = MaxRetries, !.blocked = "identity lost"]
    BY <1>1, <1>2, <1>6, AllocatedRow
  <2>2. outbox'[e].id = outbox[e].id /\ outbox'[e].sent = outbox[e].sent BY <1>5, <2>1 DEF Row
  <2>3. e \in Numbered BY <1>1, <1>3, <2>2 DEF Numbered
  <2>4. e \notin Fresh(ToSend) BY <1>6, ToSendFacts
  <2> QED BY <1>3, <1>4, <2>2, <2>3, <2>4 DEF Seal
<1>7. CASE e \in Fresh(ToSend)
  <2>1. outbox'[e] = [outbox[e] EXCEPT !.id = NewId(e), !.sent = DigestOf(outbox[e])]
    BY <1>1, <1>2, <1>7, AllocatedRow
  <2>2. outbox[e].blocked = "no" BY <1>7, ToSendFacts
  <2> DEFINE sent == DigestOf(outbox[e])
             id == NewId(e)
  <2>3. outbox'[e] = [outbox[e] EXCEPT !.id = id, !.sent = sent] BY <2>1
  <2> HIDE DEF sent, id
  <2>4. /\ outbox'[e].id = id /\ outbox'[e].sent = sent /\ outbox'[e].blocked = outbox[e].blocked
        /\ outbox'[e].edits = outbox[e].edits /\ outbox'[e].base = outbox[e].base
    BY <1>5, <2>3 DEF Row
  <2>5. sent = DigestOf(outbox'[e]) BY <2>4 DEF sent, DigestOf
  <2> QED BY <1>3, <1>4, <1>7, <2>2, <2>4, <2>5 DEF id
<1>8. CASE e \notin Orphans \cup Fresh(ToSend)
  <2>1. outbox'[e] = outbox[e] BY <1>1, <1>2, <1>8, AllocatedRow
  <2>2. e \in Numbered BY <1>1, <1>3, <2>1 DEF Numbered
  <2> QED BY <1>3, <1>4, <1>8, <2>1, <2>2
<1> QED BY <1>6, <1>7, <1>8

\* A row that is sent carries an identity and the digest of what it says.
LEMMA SentRow ==
  ASSUME TypeOK, OneOp, Devices, StartV3, NEW e \in unsent'
  PROVE  e \in Numbered' /\ batch'[e] = outbox'[e] /\ outbox'[e].sent = DigestOf(outbox'[e])
<1>1. e \in ToSend /\ e \in Entity BY StartV3Facts, ToSendFacts
<1>2. outbox' = Allocated(ToSend) /\ batch'[e] = Allocated(ToSend)[e]
  <2>1. batch' = [f \in Entity |-> CASE f \in ToSend -> Allocated(ToSend)[f]
                                    [] \E h \in Replayed : h.e = f -> outbox[f]
                                    [] OTHER -> None]
    BY StartV3Facts
  <2>2. batch'[e] = CASE e \in ToSend -> Allocated(ToSend)[e]
                      [] \E h \in Replayed : h.e = e -> outbox[e]
                      [] OTHER -> None
    BY <1>1, <2>1
  <2>3. ~\E h \in Replayed : h.e = e
    <3>1. \A h \in Replayed : h \in Kept /\ outbox[h.e].op = h.op BY DEF Replayed, Matches
    <3>2. \A h \in Kept : h.op # outbox[e].op BY <1>1 DEF ToSend
    <3> QED BY <3>1, <3>2
  <2>5. batch'[e] = Allocated(ToSend)[e] BY <1>1, <2>2, <2>3
  <2> QED BY <2>5, StartV3Facts
<1>3. outbox'[e] \in Row /\ outbox[e] \in Row /\ e \in Pending BY <1>1, <1>2, AllocatedRow, ToSendFacts
<1>4. outbox'[e] # None BY <1>3, Sentinels
<1>5. CASE e \in Fresh(ToSend)
  <2>1. outbox'[e] = [outbox[e] EXCEPT !.id = NewId(e), !.sent = DigestOf(outbox[e])] /\ NewId(e) \in Ident
    BY <1>1, <1>2, <1>5, AllocatedRow
  <2> DEFINE id == NewId(e)
  <2>2. outbox'[e].id = id
    <3> DEFINE sent == DigestOf(outbox[e])
    <3>1. outbox'[e] = [outbox[e] EXCEPT !.id = id, !.sent = sent] BY <2>1
    <3> HIDE DEF id, sent
    <3> QED BY <1>3, <3>1 DEF Row
  <2>3. e \in Numbered' BY <1>1, <1>4, <2>1, <2>2, Sentinels DEF Numbered, Pending
  <2>4. e \in Fresh(ToSend) /\ outbox'[e].sent = DigestOf(outbox'[e]) BY <1>5, <2>3, RowIdentity
  <2> QED BY <1>2, <2>3, <2>4
<1>6. CASE e \notin Fresh(ToSend)
  <2>1. Sealed(outbox[e]) /\ e \notin Orphans BY <1>1, <1>6, ToSendFacts
  <2>2. outbox'[e] = outbox[e] BY <1>1, <1>2, <1>6, <2>1, AllocatedRow
  <2>3. outbox[e].id # None /\ outbox[e].sent = DigestOf(outbox[e]) BY <2>1 DEF Sealed
  <2>4. e \in Numbered' BY <1>1, <1>4, <2>2, <2>3 DEF Numbered, Pending
  <2> QED BY <1>2, <2>2, <2>3, <2>4
<1> QED BY <1>5, <1>6

\* The device after the step, and the identities used before.
LEMMA NextDevice ==
  ASSUME TypeOK, Devices, StartV3
  PROVE  /\ device'.dev = Device.dev /\ device'.next = Device.next + Count /\ device'.known
         /\ device'.dev \in Nat /\ device'.next \in Nat /\ device.dev \in Nat /\ device.next \in Nat
         /\ device.dev <= device'.dev /\ device'.dev <= MaxDevices
         /\ device'.dev = device.dev => Device.next = device.next /\ device.next <= device'.next
         /\ \A i : Used(i) => Used(i)' /\ (i.dev = device'.dev => i.seq < Device.next)
<1>1. device' = [Device EXCEPT !.next = Device.next + Count] BY StartV3Facts
<1>2. device \in [dev : Nat, next : Nat, known : BOOLEAN] BY DEF TypeOK
<1>3. Device \in [dev : Nat, next : Nat, known : BOOLEAN] /\ Count \in Nat BY DeviceType, ToSendFacts
<1>4. device'.dev = Device.dev /\ device'.next = Device.next + Count /\ device'.known = Device.known
  BY <1>1, <1>3
<1>5. Device.known /\ Device.dev <= MaxDevices BY DeviceType
<1>6. \/ Device.dev = device.dev /\ Device.next = device.next
      \/ Device.dev = device.dev + 1 /\ Device.next = 0
  BY DeviceType
<1>7. device.dev <= device'.dev /\ (device'.dev = device.dev => Device.next = device.next)
  BY <1>2, <1>3, <1>4, <1>6
<1>8. ASSUME NEW i, Used(i) PROVE Used(i)' /\ (i.dev = device'.dev => i.seq < Device.next)
  <2>1. i \in Ident /\ i.dev \in Nat /\ i.seq \in Nat BY <1>8 DEF Used, Ident
  <2>2. i.dev < device.dev \/ (i.dev = device.dev /\ i.seq < device.next) BY <1>8 DEF Used
  <2>3. i.dev = device'.dev => i.seq < Device.next BY <1>2, <1>3, <1>4, <1>6, <2>1, <2>2
  <2>4. i.dev < device'.dev \/ (i.dev = device'.dev /\ i.seq < device'.next)
    BY <1>2, <1>3, <1>4, <1>6, <2>1, <2>2
  <2> QED BY <2>1, <2>3, <2>4 DEF Used
<1> QED BY <1>2, <1>3, <1>4, <1>5, <1>7, <1>8

LEMMA StartV3Claims == ASSUME TypeOK, OneClaim, OneOp, Devices, StartV3 PROVE OneClaim'
<1> DEFINE New == {e \in Numbered' : e \in Fresh(ToSend) /\ outbox'[e].id = NewId(e)}
<1>1. ASSUME NEW e \in Numbered'
      PROVE  Seal(outbox'[e]) \in Claims \/ e \in New
  <2>1. CASE e \in Numbered /\ Seal(outbox'[e]) = Seal(outbox[e]) BY <2>1 DEF Claims
  <2> QED BY <2>1, RowIdentity
<1>2. ASSUME NEW e \in unsent' PROVE e \in Numbered' /\ Claim(batch'[e]) = Seal(outbox'[e])
  BY <1>2, SentRow, SealIsClaim
<1>3. Sent' = Sent
  <2>1. current' = current /\ late' = late /\ decided' = decided BY StartV3Facts DEF server
  <2>2. V3Requests' = V3Requests BY <2>1 DEF V3Requests
  <2> QED BY <2>1, <2>2 DEF Sent
<1>4. ASSUME NEW c \in Claims' PROVE c \in Claims \/ \E e \in New : c = Seal(outbox'[e])
  <2> DEFINE A == {Claim(x) : x \in Sent'}
             B == {Claim(batch'[e]) : e \in unsent'}
             C == {Seal(outbox'[e]) : e \in Numbered'}
  <2>1. Claims' = A \cup B \cup C BY DEF Claims, Claim, Seal, DigestOf
  <2>2. CASE c \in A BY <1>3, <2>2 DEF Claims
  <2>3. ASSUME NEW e \in Numbered', c = Seal(outbox'[e])
        PROVE  c \in Claims \/ \E f \in New : c = Seal(outbox'[f])
    BY <1>1, <2>3
  <2>4. CASE c \in B BY <1>2, <2>3, <2>4
  <2>5. CASE c \in C BY <2>3, <2>5
  <2> HIDE DEF A, B, C
  <2> QED BY <2>1, <2>2, <2>4, <2>5
<1>5. ASSUME NEW e \in New
      PROVE  /\ e \in Fresh(ToSend) /\ Seal(outbox'[e]).id = NewId(e)
             /\ NewId(e) \in Ident /\ NewId(e).dev = device'.dev /\ NewId(e).seq \in Nat
             /\ NewId(e).seq = SeqFor(e, ToSend)
             /\ Device.next <= NewId(e).seq /\ NewId(e).seq < device'.next
  <2>1. NewId(e).seq = SeqFor(e, ToSend) /\ NewId(e).dev = Device.dev BY DEF NewId
  <2>2. e \in Entity BY DEF Numbered, Pending
  <2>3. NewId(e) \in Ident BY <2>2, AllocatedRow
  <2>4. Device.next <= SeqFor(e, ToSend) /\ SeqFor(e, ToSend) < Device.next + Count /\ SeqFor(e, ToSend) \in Nat
    BY SeqForNumbers
  <2>5. device'.dev = Device.dev /\ device'.next = Device.next + Count BY NextDevice
  <2> QED BY <2>1, <2>3, <2>4, <2>5 DEF Seal
<1>6. ASSUME NEW c \in Claims' PROVE Used(c.id)'
  <2>1. CASE c \in Claims BY <2>1, NextDevice DEF OneClaim
  <2>2. ASSUME NEW e \in New, c = Seal(outbox'[e]) PROVE Used(c.id)'
    BY <1>5, <2>2 DEF Used
  <2> QED BY <1>4, <2>1, <2>2
<1>7. ASSUME NEW c \in Claims', NEW d \in Claims', c.id = d.id PROVE c.sent = d.sent
  <2>1. ASSUME NEW a \in Claims, NEW e \in New, a.id = Seal(outbox'[e]).id PROVE FALSE
    <3>1. Used(a.id) /\ a.id = NewId(e) BY <1>5, <2>1 DEF OneClaim
    <3>2. NewId(e).seq < Device.next BY <1>5, <3>1, NextDevice
    <3>3. Device.next \in Nat BY DeviceType
    <3> QED BY <1>5, <3>2, <3>3
  <2>2. ASSUME NEW e \in New, NEW f \in New, Seal(outbox'[e]).id = Seal(outbox'[f]).id PROVE e = f
    <3>1. SeqFor(e, ToSend) = SeqFor(f, ToSend) BY <1>5, <2>2
    <3> QED BY <1>5, <3>1, SeqForNumbers
  <2>3. CASE c \in Claims /\ d \in Claims BY <1>7, <2>3 DEF OneClaim
  <2>4. CASE c \in Claims /\ d \notin Claims BY <1>4, <1>7, <2>1, <2>4
  <2>5. CASE c \notin Claims /\ d \in Claims
    <3>1. PICK e \in New : c = Seal(outbox'[e]) BY <1>4, <2>5
    <3> QED BY <1>7, <2>1, <2>5, <3>1
  <2>6. CASE c \notin Claims /\ d \notin Claims
    <3>1. PICK e \in New : c = Seal(outbox'[e]) BY <1>4, <2>6
    <3>2. PICK f \in New : d = Seal(outbox'[f]) BY <1>4, <2>6
    <3>3. e = f BY <1>7, <2>2, <3>1, <3>2
    <3> QED BY <3>1, <3>2, <3>3
  <2> QED BY <2>3, <2>4, <2>5, <2>6
<1> QED BY <1>6, <1>7 DEF OneClaim

LEMMA StartV3OwnDevice == ASSUME TypeOK, OwnDevice, OneOp, Devices, StartV3 PROVE OwnDevice'
<1> SUFFICES ASSUME NEW e \in Numbered'
             PROVE  /\ outbox'[e].blocked = "no" => outbox'[e].id.dev = device'.dev
                    /\ outbox'[e].blocked = "identity lost" => outbox'[e].id.dev < device'.dev
  BY DEF OwnDevice
<1>0. e \in Pending /\ e \in Entity /\ outbox[e] \in Row BY RowIdentity, ToSendFacts
<1>1. device'.dev = Device.dev /\ device.dev \in Nat /\ device'.dev \in Nat /\ device.dev <= device'.dev
  BY NextDevice
<1>2. CASE e \in Fresh(ToSend)
  <2>1. outbox'[e].id = NewId(e) /\ outbox'[e].blocked = "no" BY <1>2, RowIdentity
  <2>2. NewId(e).dev = Device.dev BY DEF NewId
  <2> QED BY <1>1, <2>1, <2>2
<1>3. CASE e \notin Fresh(ToSend)
  <2>1. e \in Numbered /\ outbox'[e].id = outbox[e].id BY <1>3, RowIdentity
  <2>2. outbox[e].id \in Ident /\ outbox[e].id.dev \in Nat BY <1>0, <2>1 DEF Row, Numbered, Ident
  <2>3. outbox' = Allocated(ToSend) BY StartV3Facts
  <2>4. CASE e \in Orphans
    <3>1. ~device.known /\ outbox[e].blocked = "no" BY <2>4 DEF Orphans
    <3>2. device'.dev = device.dev + 1 BY <1>1, <3>1, DeviceType
    <3>3. outbox[e].id.dev = device.dev BY <2>1, <3>1 DEF OwnDevice
    <3>4. outbox'[e].blocked = "identity lost"
      <4>1. outbox'[e] = [outbox[e] EXCEPT !.retries = MaxRetries, !.blocked = "identity lost"]
        BY <1>0, <2>3, <2>4, AllocatedRow
      <4> QED BY <1>0, <4>1 DEF Row
    <3>5. device.dev < device'.dev BY <1>1, <3>2
    <3>6. outbox'[e].id.dev < device'.dev BY <2>1, <3>3, <3>5, Zenon
    <3> QED BY <3>4, <3>6
  <2>5. CASE e \notin Orphans
    <3>1. outbox'[e] = outbox[e] BY <1>0, <1>3, <2>3, <2>5, AllocatedRow
    <3>2. outbox[e].blocked = "no" => device.known
      BY <1>0, <2>1, <2>5 DEF Orphans, Numbered
    <3>3. device.known => device'.dev = device.dev BY <1>1, DeviceType
    <3>4. outbox[e].blocked = "no" => outbox[e].id.dev = device.dev BY <2>1 DEF OwnDevice
    <3>5. outbox[e].blocked = "identity lost" => outbox[e].id.dev < device.dev BY <2>1 DEF OwnDevice
    <3>6. outbox[e].id.dev < device.dev => outbox[e].id.dev < device'.dev BY <1>1, <2>2
    <3> QED BY <3>1, <3>2, <3>3, <3>4, <3>5, <3>6
  <2> QED BY <2>4, <2>5
<1> QED BY <1>2, <1>3

LEMMA StartV3Floors ==
  ASSUME TypeOK, OneClaim, FloorsLow, OwnDevice, OneOp, Devices, StartV3 PROVE FloorsLow'
<1>1. /\ device'.dev = Device.dev /\ device'.next = Device.next + Count
      /\ device'.dev \in Nat /\ device'.next \in Nat /\ device.dev \in Nat /\ device.next \in Nat
      /\ device.dev <= device'.dev /\ Device.next \in Nat
      /\ device'.dev = device.dev => Device.next = device.next /\ device.next <= device'.next
  BY NextDevice, DeviceType
<1>2. OwnDevice' BY StartV3OwnDevice
<1>3. ASSUME NEW e \in Numbered'
      PROVE  /\ e \in Entity /\ outbox'[e] # None /\ outbox'[e].id # None
             /\ outbox'[e].id \in Ident /\ outbox'[e].id.seq \in Nat /\ outbox'[e].id.dev \in Nat
  BY <1>3, RowIdentity DEF Numbered, Pending, Ident
<1>4. /\ floor' \in Nat
      /\ \A e \in Numbered' : outbox'[e].blocked # "identity lost" => floor' <= outbox'[e].id.seq
  <2>1. \A e \in Entity : Allocated(ToSend)[e] \in Row \cup {None} BY AllocatedRow
  <2>2. floor' = FloorOver(outbox', device'.next) /\ outbox' = Allocated(ToSend) BY <1>1, StartV3Facts
  <2>3. \A e \in Entity : outbox'[e] \in Row \cup {None} BY <2>1, <2>2
  <2> DEFINE rows == outbox'
             next == device'.next
  <2>4. floor' = FloorOver(rows, next) /\ next \in Nat /\ \A e \in Entity : rows[e] \in Row \cup {None}
    BY <1>1, <2>2, <2>3
  <2> HIDE DEF rows, next
  <2>5. /\ floor' \in Nat
        /\ \A e \in Entity : rows[e] # None /\ rows[e].id # None /\ rows[e].blocked # "identity lost" =>
             floor' <= rows[e].id.seq
    BY <2>4, FloorOverLow
  <2> QED BY <1>3, <2>5 DEF rows
<1>5. ASSUME unsent' # {} PROVE floor' <= device'.next
  <2>1. PICK e \in unsent' : TRUE BY <1>5
  <2>2. e \in Numbered' BY SentRow
  <2>3. e \in ToSend BY StartV3Facts
  <2>4. outbox'[e].blocked = "no"
    <3>1. CASE e \in Fresh(ToSend) BY <2>2, <3>1, RowIdentity
    <3>2. CASE e \notin Fresh(ToSend)
      <4>1. outbox'[e] = outbox[e] BY <1>3, <2>2, <2>3, <3>2, StartV3Facts, ToSendFacts, AllocatedRow
      <4> QED BY <2>3, <4>1, ToSendFacts
    <3> QED BY <3>1, <3>2
  <2>5. floor' <= outbox'[e].id.seq BY <1>4, <2>2, <2>4
  <2>6. outbox'[e].id.dev = device'.dev BY <1>2, <2>2, <2>4 DEF OwnDevice
  <2>7. outbox'[e].id.seq <= device'.next
    <3>1. PICK c \in Claims' : c = Seal(outbox'[e]) BY <2>2 DEF Claims, Seal
    <3>2. c.id = outbox'[e].id BY <3>1 DEF Seal
    <3>3. Used(c.id)' BY StartV3Claims DEF OneClaim
    <3>4. c.id.dev = device'.dev /\ c.id.seq \in Nat /\ c.id.dev \in Nat BY <1>3, <2>2, <2>6, <3>2
    <3>5. c.id.dev < device'.dev \/ c.id.seq < device'.next BY <3>3 DEF Used
    <3>6. c.id.seq <= device'.next BY <1>1, <3>4, <3>5
    <3> QED BY <3>2, <3>6
  <2>8. \A a, b, c \in Nat : a <= b /\ b <= c => a <= c OBVIOUS
  <2>9. floor' \in Nat /\ outbox'[e].id.seq \in Nat /\ device'.next \in Nat BY <1>1, <1>3, <1>4, <2>2
  <2> QED BY <2>5, <2>7, <2>8, <2>9, Zenon
<1>6. ASSUME NEW p \in Floors
      PROVE  /\ p.dev <= device'.dev
             /\ p.dev = device'.dev => p.floor <= device'.next
             /\ \A e \in Numbered' : outbox'[e].id.dev = p.dev => p.floor <= outbox'[e].id.seq
  <2>1. /\ p.dev <= device.dev /\ (p.dev = device.dev => p.floor <= device.next)
        /\ \A e \in Numbered : outbox[e].id.dev = p.dev => p.floor <= outbox[e].id.seq
    BY DEF FloorsLow
  <2>2. p.dev \in Nat /\ p.floor \in Nat
    <3>1. \A q \in V3Requests : q.dev \in Nat /\ q.floor \in Nat
      BY DEF V3Requests, TypeOK, Request
    <3>2. \A d \in 0..MaxDevices : serverFloor[d] \in Nat /\ d \in Nat
      <4>1. \A d \in 0..MaxDevices : serverFloor[d] \in Nat BY DEF TypeOK
      <4>2. MaxDevices \in Nat BY PushConstants
      <4> QED BY <4>1, <4>2
    <3>3. floor \in Nat BY DEF TypeOK
    <3> QED BY <1>1, <3>1, <3>2, <3>3 DEF Floors, FloorFor
  <2>3. p.dev <= device'.dev BY <1>1, <2>1, <2>2
  <2>4. p.dev = device'.dev => p.dev = device.dev /\ p.floor <= Device.next /\ p.floor <= device'.next
    BY <1>1, <2>1, <2>2
  <2>5. ASSUME NEW e \in Numbered', outbox'[e].id.dev = p.dev PROVE p.floor <= outbox'[e].id.seq
    <3>1. CASE e \in Numbered /\ outbox'[e].id = outbox[e].id BY <2>1, <2>5, <3>1
    <3>2. CASE e \in Fresh(ToSend) /\ outbox'[e].id = NewId(e)
      <4>1. NewId(e).dev = Device.dev /\ NewId(e).seq = SeqFor(e, ToSend) BY DEF NewId
      <4>2. SeqFor(e, ToSend) \in Nat /\ Device.next <= SeqFor(e, ToSend) BY <3>2, SeqForNumbers
      <4>3. p.floor <= Device.next BY <1>1, <2>4, <2>5, <3>2, <4>1
      <4> QED BY <1>1, <2>2, <3>2, <4>1, <4>2, <4>3
    <3> QED BY <3>1, <3>2, RowIdentity
  <2> QED BY <2>3, <2>4, <2>5
<1>7. ASSUME NEW p \in Floors', p \notin Floors
      PROVE  unsent' # {} /\ p.dev = device'.dev /\ p.floor = floor'
  <2>1. current' = current /\ late' = late /\ serverFloor' = serverFloor BY StartV3Facts DEF server
  <2>2. V3Requests' = V3Requests BY <2>1 DEF V3Requests
  <2> QED BY <1>7, <2>1, <2>2 DEF Floors, FloorFor
<1>8. ASSUME NEW p \in Floors', p \notin Floors
      PROVE  /\ p.dev <= device'.dev
             /\ p.dev = device'.dev => p.floor <= device'.next
             /\ \A e \in Numbered' : outbox'[e].id.dev = p.dev => p.floor <= outbox'[e].id.seq
  <2>1. unsent' # {} /\ p.dev = device'.dev /\ p.floor = floor' BY <1>7, <1>8
  <2>2. p.floor <= device'.next BY <1>5, <2>1
  <2>3. ASSUME NEW e \in Numbered', outbox'[e].id.dev = p.dev PROVE p.floor <= outbox'[e].id.seq
    <3>1. outbox'[e].blocked # "identity lost"
      <4>1. outbox'[e].blocked = "identity lost" => outbox'[e].id.dev < device'.dev BY <1>2 DEF OwnDevice
      <4>2. ~(device'.dev < device'.dev) BY <1>1
      <4> QED BY <2>1, <2>3, <4>1, <4>2, Zenon
    <3> QED BY <1>4, <2>1, <3>1
  <2> QED BY <1>1, <2>1, <2>2, <2>3
<1> QED BY <1>6, <1>8 DEF FloorsLow

LEMMA StartV3Rows ==
  ASSUME TypeOK, OneOp, Devices, StartV3 PROVE OneOp' /\ Batched' /\ Devices'
<1>1. OneOp'
  <2>1. \A e \in Pending' : e \in Pending /\ outbox'[e].op = outbox[e].op
    <3> SUFFICES ASSUME NEW e \in Pending' PROVE e \in Pending /\ outbox'[e].op = outbox[e].op
      OBVIOUS
    <3>1. e \in Entity /\ outbox'[e] # None /\ outbox'[e] = Allocated(ToSend)[e]
      BY StartV3Facts DEF Pending
    <3>2. e \in Pending /\ outbox[e] \in Row BY <3>1, AllocatedRow, ToSendFacts
    <3> DEFINE id == NewId(e)
               sent == DigestOf(outbox[e])
    <3>3. \/ outbox'[e] = [outbox[e] EXCEPT !.retries = MaxRetries, !.blocked = "identity lost"]
          \/ outbox'[e] = [outbox[e] EXCEPT !.id = id, !.sent = sent]
          \/ outbox'[e] = outbox[e]
      BY <3>1, AllocatedRow
    <3> HIDE DEF id, sent
    <3> QED BY <3>2, <3>3 DEF Row
  <2>2. made' = made BY StartV3Facts
  <2> QED BY <2>1, <2>2 DEF OneOp
<1>2. Batched'
  <2> SUFFICES ASSUME NEW e \in unsent'
               PROVE  batch'[e] # None /\ batch'[e].id \in Ident /\ batch'[e].sent = DigestOf(batch'[e])
    BY DEF Batched, DigestOf
  <2>1. e \in Numbered' /\ batch'[e] = outbox'[e] /\ outbox'[e].sent = DigestOf(outbox'[e]) BY SentRow
  <2>2. outbox'[e] # None /\ outbox'[e].id \in Ident BY <2>1, RowIdentity DEF Numbered, Pending
  <2> QED BY <2>1, <2>2
<1>3. Devices' BY NextDevice DEF Devices
<1> QED BY <1>1, <1>2, <1>3

-----------------------------------------------------------------------------
(* The parts of the invariant that are about control. *)

LEMMA IdleKept == ASSUME TypeOK, Idle, [Next]_vars PROVE Idle'
<1>1. ASSUME UNCHANGED <<pc, unsent>> PROVE Idle' BY <1>1 DEF Idle
<1>2. ASSUME pc' # "idle" \/ unsent' = {} PROVE Idle' BY <1>2 DEF Idle
<1>3. CASE User BY <1>1, <1>3 DEF User, LoseDevice, Enqueue, Revoke, push
<1>4. CASE Push
  <2>1. CASE StartV3 BY <1>2, <2>1, StartV3Facts
  <2>2. CASE StartV2 \/ SendChunk \/ SendFallback
    BY <1>2, <2>2 DEF StartV2, SendChunk, SendFallback
  <2>3. CASE ReceiveV3 \/ ReceiveFallback \/ ReceiveV2
    BY <1>2, <2>3 DEF ReceiveV3, ReceiveFallback, ReceiveV2
  <2>4. CASE Finish BY <1>2, <2>4 DEF Finish, PushEnds
  <2>5. ASSUME NEW e \in Entity, Settle(e) \/ Quarantine(e) \/ AutoResolve(e) PROVE Idle'
    BY <1>1, <2>5 DEF Settle, Quarantine, AutoResolve, push
  <2> QED BY <1>4, <2>1, <2>2, <2>3, <2>4, <2>5 DEF Push
<1>5. CASE Server
  <2>1. CASE Begin BY <1>1, <2>1 DEF Begin
  <2>2. CASE Disabled BY <1>2, <2>2 DEF Disabled
  <2>3. ASSUME NEW o, Handle(o) PROVE Idle' BY <1>1, <2>3 DEF Handle
  <2>4. ASSUME NEW q, BeginLate(q) PROVE Idle' BY <1>1, <2>4 DEF BeginLate, push
  <2>5. ASSUME NEW q, NEW o, HandleLate(q, o) PROVE Idle' BY <1>1, <2>5 DEF HandleLate, push
  <2>6. ASSUME NEW e, OtherWrite(e) PROVE Idle' BY <1>1, <2>6 DEF OtherWrite, push
  <2> QED BY <1>5, <2>1, <2>2, <2>3, <2>4, <2>5, <2>6 DEF Server
<1>6. CASE Interrupt BY <1>2, <1>6 DEF Interrupt, PushEnds
<1>7. CASE UNCHANGED vars BY <1>1, <1>7 DEF vars, push
<1> QED BY <1>3, <1>4, <1>5, <1>6, <1>7 DEF Next

LEMMA BegunKept == ASSUME TypeOK, BegunUnlessV3, [Next]_vars PROVE BegunUnlessV3'
<1>1. ASSUME \A q \in UnderWay' : q \in UnderWay \/ q.begun \/ q.via = "v3" PROVE BegunUnlessV3'
  BY <1>1 DEF BegunUnlessV3
<1>2. ASSUME UNCHANGED <<current, late>> PROVE BegunUnlessV3' BY <1>1, <1>2 DEF UnderWay
<1>3. ASSUME current' = None, UNCHANGED late PROVE BegunUnlessV3' BY <1>1, <1>3 DEF UnderWay
<1>4. ASSUME current'.begun \/ current'.via = "v3", UNCHANGED late PROVE BegunUnlessV3'
  BY <1>1, <1>4 DEF UnderWay
<1>5. CASE User BY <1>2, <1>5 DEF User, LoseDevice, Enqueue, Revoke, push
<1>6. CASE Push
  <2>1. CASE StartV3 BY <1>2, <2>1, StartV3Facts
  <2>2. CASE StartV2
    <3>1. current'.begun /\ UNCHANGED late BY <2>2 DEF StartV2
    <3> QED BY <1>4, <3>1
  <2>3. CASE SendChunk
    <3>1. current'.via = "v3" /\ UNCHANGED late BY <2>3 DEF SendChunk
    <3> QED BY <1>4, <3>1
  <2>4. CASE SendFallback
    <3>1. current'.begun /\ UNCHANGED late BY <2>4 DEF SendFallback
    <3> QED BY <1>4, <3>1
  <2>5. CASE ReceiveV3 \/ ReceiveFallback \/ ReceiveV2
    BY <1>3, <2>5 DEF ReceiveV3, ReceiveFallback, ReceiveV2
  <2>6. CASE Finish BY <1>3, <2>6 DEF Finish, PushEnds
  <2>7. ASSUME NEW e \in Entity, Settle(e) \/ Quarantine(e) \/ AutoResolve(e) PROVE BegunUnlessV3'
    BY <1>2, <2>7 DEF Settle, Quarantine, AutoResolve, push
  <2> QED BY <1>6, <2>1, <2>2, <2>3, <2>4, <2>5, <2>6, <2>7 DEF Push
<1>7. CASE Server
  <2>1. CASE Begin
    <3>1. current \in Request /\ current' = Begun(current) /\ UNCHANGED late
      BY <2>1 DEF Begin, TypeOK
    <3>2. current'.begun BY <3>1, BegunFields
    <3> QED BY <1>4, <3>1, <3>2
  <2>2. CASE Disabled BY <1>3, <2>2 DEF Disabled
  <2>3. ASSUME pc = "wait", NEW o \in current.todo, Handle(o) PROVE BegunUnlessV3'
    <3>1. current \in Request /\ current.begun /\ current' = [current EXCEPT !.todo = @ \ {o}] /\ UNCHANGED late
      BY <2>3 DEF Handle, TypeOK
    <3>2. current'.begun BY <3>1 DEF Request
    <3> QED BY <1>4, <3>1, <3>2
  <2>4. ASSUME NEW q \in late, BeginLate(q) PROVE BegunUnlessV3'
    <3>1. late' = (late \ {q}) \cup {Begun(q)} /\ current' = current BY <2>4 DEF BeginLate, push
    <3>2. Begun(q).begun BY BegunFields DEF TypeOK
    <3> QED BY <1>1, <3>1, <3>2 DEF UnderWay
  <2>5. ASSUME NEW q \in late, NEW o \in q.todo, HandleLate(q, o) PROVE BegunUnlessV3'
    <3> DEFINE left == [q EXCEPT !.todo = @ \ {o}]
    <3>1. late' \subseteq late \cup {left} /\ current' = current /\ q.begun BY <2>5 DEF HandleLate, push
    <3>2. left.begun = q.begun BY DEF TypeOK, Request
    <3> HIDE DEF left
    <3> QED BY <1>1, <3>1, <3>2 DEF UnderWay
  <2>6. ASSUME NEW e, OtherWrite(e) PROVE BegunUnlessV3' BY <1>2, <2>6 DEF OtherWrite, push
  <2> QED BY <1>7, <2>1, <2>2, <2>3, <2>4, <2>5, <2>6 DEF Server
<1>8. CASE Interrupt
  <2>1. current' = None /\ late' \subseteq UnderWay BY <1>8 DEF Interrupt, PushEnds, UnderWay, TypeOK
  <2> QED BY <1>1, <2>1 DEF UnderWay
<1>9. CASE UNCHANGED vars BY <1>2, <1>9 DEF vars, push
<1> QED BY <1>5, <1>6, <1>7, <1>8, <1>9 DEF Next

\* A row that goes over v2 as a fallback is answered or still to be handled.
LEMMA AwaitedKept == ASSUME TypeOK, OneClaim, Batched, Awaited, [Next]_vars PROVE Awaited'
<1>1. ASSUME UNCHANGED <<current, unsent, batch, answers>> PROVE Awaited' BY <1>1 DEF Awaited, AsOp
<1>2. ASSUME current' = None \/ current'.via # "fallback" PROVE Awaited' BY <1>2 DEF Awaited
<1>3. CASE User BY <1>1, <1>3 DEF User, LoseDevice, Enqueue, Revoke, push
<1>4. CASE Push
  <2>1. CASE StartV3 BY <1>2, <2>1, StartV3Facts DEF TypeOK
  <2>2. CASE StartV2
    <3>1. current'.via = "v2" BY <2>2 DEF StartV2
    <3> QED BY <1>2, <3>1
  <2>3. CASE SendChunk
    <3>1. current'.via = "v3" BY <2>3 DEF SendChunk
    <3> QED BY <1>2, <3>1
  <2>4. CASE SendFallback
    <3>1. current'.todo = Ops(unsent) /\ UNCHANGED <<unsent, batch>> BY <2>4 DEF SendFallback
    <3>2. \A e \in unsent' : AsOp(e, batch'[e]) \in current'.todo BY <3>1 DEF Ops, AsOp
    <3> QED BY <3>2 DEF Awaited, AsOp
  <2>5. CASE ReceiveV3 \/ ReceiveFallback \/ ReceiveV2
    BY <1>2, <2>5 DEF ReceiveV3, ReceiveFallback, ReceiveV2
  <2>6. CASE Finish BY <1>2, <2>6 DEF Finish, PushEnds
  <2>7. ASSUME NEW e \in Entity, Settle(e) \/ Quarantine(e) \/ AutoResolve(e) PROVE Awaited'
    BY <1>1, <2>7 DEF Settle, Quarantine, AutoResolve, push
  <2> QED BY <1>4, <2>1, <2>2, <2>3, <2>4, <2>5, <2>6, <2>7 DEF Push
<1>5. CASE Server
  <2>1. CASE Begin
    <3>1. current \in Request /\ current.via = "v3" /\ current' = Begun(current)
      BY <2>1 DEF Begin, TypeOK
    <3>2. current'.via = "v3" BY <3>1, BegunFields
    <3> QED BY <1>2, <3>2
  <2>2. CASE Disabled BY <1>2, <2>2 DEF Disabled
  <2>3. ASSUME pc = "wait", NEW o \in current.todo, Handle(o) PROVE Awaited'
    <3>1. /\ current \in Request /\ current # None /\ UNCHANGED <<unsent, batch>>
          /\ current' = [current EXCEPT !.todo = @ \ {o}]
      BY <2>3 DEF Handle, TypeOK
    <3>2. current'.via = current.via /\ current'.todo = current.todo \ {o} BY <3>1 DEF Request
    <3>3. PICK answer : answers' = [answers EXCEPT ![o.e] = answer] BY <2>3 DEF Handle
    <3>4. answers'[o.e] # None
      <4>1. PICK said, via : answers' = [answers EXCEPT ![o.e] = AnswerTo(said, o.e, via)]
        BY <2>3 DEF Handle
      <4>2. answers' \in [Entity -> Answer \cup {None}] BY <2>3, HandleType DEF TypeOK
      <4>3. o.e \in Entity BY <3>1 DEF Request, Op
      <4>4. version'[o.e] \in Nat
        <5>1. TypeOK' BY <2>3, HandleType
        <5> QED BY <4>3, <5>1 DEF TypeOK
      <4>5. AnswerTo(said, o.e, via) \in Answer BY <4>4 DEF AnswerTo, Answer
      <4>6. answers'[o.e] = AnswerTo(said, o.e, via) BY <4>1, <4>3 DEF TypeOK
      <4> QED BY <4>5, <4>6, Sentinels
    <3>5. ASSUME current.via = "fallback", NEW e \in unsent
          PROVE  answers'[e] # None \/ AsOp(e, batch[e]) \in current'.todo
      <4>1. answers[e] # None \/ AsOp(e, batch[e]) \in current.todo BY <3>1, <3>5 DEF Awaited
      <4>2. CASE e = o.e BY <3>4, <4>2
      <4>3. CASE e # o.e
        <5>1. answers'[e] = answers[e] BY <3>3, <4>3 DEF TypeOK
        <5>2. AsOp(e, batch[e]).e = e BY DEF AsOp
        <5> QED BY <3>2, <4>1, <4>3, <5>1, <5>2
      <4> QED BY <4>2, <4>3
    <3> QED BY <3>1, <3>2, <3>5 DEF Awaited, AsOp
  <2>4. ASSUME NEW q, BeginLate(q) PROVE Awaited' BY <1>1, <2>4 DEF BeginLate, push
  <2>5. ASSUME NEW q, NEW o, HandleLate(q, o) PROVE Awaited' BY <1>1, <2>5 DEF HandleLate, push
  <2>6. ASSUME NEW e, OtherWrite(e) PROVE Awaited' BY <1>1, <2>6 DEF OtherWrite, push
  <2> QED BY <1>5, <2>1, <2>2, <2>3, <2>4, <2>5, <2>6 DEF Server
<1>6. CASE Interrupt BY <1>2, <1>6 DEF Interrupt, PushEnds
<1>7. CASE UNCHANGED vars BY <1>1, <1>7 DEF vars, push
<1> QED BY <1>3, <1>4, <1>5, <1>6, <1>7 DEF Next

-----------------------------------------------------------------------------
(* The theorems. *)

IInv == TypeOK /\ PushInv

LEMMA InitIInv == ASSUME Init PROVE IInv
<1>1. \A e \in Entity : outbox[e] = None BY DEF Init, NoAnswers
<1>2. Pending = {} /\ Numbered = {} BY <1>1 DEF Pending, Numbered
<1>3. V3Requests = {} BY DEF Init, V3Requests
<1>4. Sent = {} BY <1>3 DEF Init, Sent
<1>5. Claims = {} BY <1>2, <1>4 DEF Init, Claims
<1>6. {d \in 0..MaxDevices : serverFloor[d] > 0} = {} BY DEF Init
<1>7. Floors = {} BY <1>3, <1>6 DEF Init, Floors
<1>8. TypeOK
  <2>1. MaxEdits \in Nat /\ MaxDevices \in Nat BY PushConstants
  <2> QED BY <2>1 DEF Init, NoAnswers, TypeOK
<1>9. Devices BY PushConstants DEF Init, Devices
<1> QED BY <1>2, <1>5, <1>7, <1>8, <1>9
  DEF Init, IInv, PushInv, OneClaim, FloorsLow, OwnDevice, OneOp, Batched, Awaited, Idle, BegunUnlessV3, UnderWay

LEMMA NextType == ASSUME IInv, [Next]_vars PROVE TypeOK'
<1> USE DEF IInv, PushInv
<1>1. CASE LoseDevice BY <1>1, LoseDeviceType
<1>2. ASSUME NEW e \in Entity, Enqueue(e) PROVE TypeOK' BY <1>2, EnqueueType
<1>3. ASSUME NEW e \in Entity, Revoke(e) PROVE TypeOK' BY <1>3, RevokeType
<1>4. CASE StartV3 BY <1>4, StartV3Type
<1>5. CASE StartV2 BY <1>5, StartV2Type
<1>6. CASE SendChunk BY <1>6, SendChunkType
<1>7. CASE SendFallback BY <1>7, SendFallbackType
<1>8. CASE ReceiveV3 BY <1>8, ReceiveV3Type
<1>9. CASE ReceiveFallback BY <1>9, ReceiveFallbackType
<1>10. CASE ReceiveV2 BY <1>10, ReceiveV2Type
<1>11. CASE Finish BY <1>11, FinishType
<1>12. ASSUME NEW e \in Entity, Settle(e) PROVE TypeOK' BY <1>12, SettleType
<1>13. ASSUME NEW e \in Entity, Quarantine(e) PROVE TypeOK' BY <1>13, QuarantineType
<1>14. ASSUME NEW e \in Entity, AutoResolve(e) PROVE TypeOK' BY <1>14, AutoResolveType
<1>15. CASE Begin BY <1>15, BeginType
<1>16. CASE Disabled BY <1>16, DisabledType
<1>17. ASSUME pc = "wait", NEW o \in current.todo, Handle(o) PROVE TypeOK' BY <1>17, HandleType
<1>18. ASSUME NEW q \in late, BeginLate(q) PROVE TypeOK' BY <1>18, BeginLateType
<1>19. ASSUME NEW q \in late, NEW o \in q.todo, HandleLate(q, o) PROVE TypeOK' BY <1>19, HandleLateType
<1>20. ASSUME NEW e \in Entity, OtherWrite(e) PROVE TypeOK' BY <1>20, OtherWriteType
<1>21. CASE Interrupt BY <1>21, InterruptType
<1>22. CASE UNCHANGED vars BY <1>22 DEF vars, client, push, server, history, TypeOK
<1> QED
  BY <1>1, <1>2, <1>3, <1>4, <1>5, <1>6, <1>7, <1>8, <1>9, <1>10, <1>11, <1>12, <1>13, <1>14, <1>15,
     <1>16, <1>17, <1>18, <1>19, <1>20, <1>21, <1>22 DEF Next, User, Push, Server

LEMMA NextIInv == ASSUME IInv, [Next]_vars PROVE IInv'
<1>1. TypeOK' BY NextType
<1>2. Awaited' /\ Idle' /\ BegunUnlessV3' BY AwaitedKept, IdleKept, BegunKept DEF IInv, PushInv
<1>3. CASE StartV3
  <2>1. OneClaim' /\ FloorsLow' /\ OwnDevice' /\ OneOp' /\ Batched' /\ Devices'
    BY <1>3, StartV3Claims, StartV3Floors, StartV3OwnDevice, StartV3Rows DEF IInv, PushInv
  <2> QED BY <1>1, <1>2, <2>1 DEF IInv, PushInv
<1>4. CASE ~StartV3
  <2>1. RowFrame /\ NetFrame BY <1>4, Frames DEF IInv, PushInv
  <2>2. OneClaim' /\ FloorsLow' /\ OwnDevice' /\ OneOp' /\ Batched' /\ Devices'
    BY <2>1, FramedClaims, FramedFloors, FramedRows DEF IInv, PushInv
  <2> QED BY <1>1, <1>2, <2>2 DEF IInv, PushInv
<1> QED BY <1>3, <1>4

\* The inductive invariant of a push: identities and floors, in the outbox, in
\* memory, on their way and on the server, belong together.
THEOREM PushInvariant == Spec => []IInv
<1>1. Init => IInv BY InitIInv
<1>2. IInv /\ [Next]_vars => IInv' BY NextIInv
<1> QED BY <1>1, <1>2, PTL DEF Spec

\* Every variable has its type.
THEOREM TypeCorrect == Spec => []TypeOK
<1>1. IInv => TypeOK BY DEF IInv
<1> QED BY <1>1, PushInvariant, PTL

LEMMA ClaimsGiveRequests == ASSUME IInv PROVE OneRequestPerIdentity
<1> SUFFICES ASSUME NEW x \in Sent, NEW y \in Sent, x.id = y.id PROVE x.edits = y.edits /\ x.base = y.base
  BY DEF OneRequestPerIdentity
<1>1. Claim(x) \in Claims /\ Claim(y) \in Claims BY DEF Claims
<1>2. Claim(x).id = Claim(y).id /\ Claim(x).sent = DigestOf(x) /\ Claim(y).sent = DigestOf(y) BY DEF Claim
<1>3. DigestOf(x) = DigestOf(y) BY <1>1, <1>2 DEF IInv, PushInv, OneClaim
<1>4. /\ DigestOf(x).edits = x.edits /\ DigestOf(x).base = x.base
      /\ DigestOf(y).edits = y.edits /\ DigestOf(y).base = y.base
  BY DEF DigestOf
<1> QED BY <1>3, <1>4

\* The requests sent over v3, lost and late ones included, and the decisions of
\* the server never use an identity (allocateV3OpIdentitiesInWriter) for two contents.
THEOREM OneRequestPerIdentityHolds == Spec => []OneRequestPerIdentity
<1>1. IInv => OneRequestPerIdentity BY ClaimsGiveRequests
<1> QED BY <1>1, PushInvariant, PTL

LEMMA FloorsSpare == ASSUME IInv PROVE FloorSparesPending
<1> SUFFICES ASSUME NEW e \in Pending, outbox[e].id # None
             PROVE  serverFloor[outbox[e].id.dev] <= outbox[e].id.seq
  BY DEF FloorSparesPending
<1>1. e \in Numbered BY DEF Numbered
<1>2. Seal(outbox[e]) \in Claims BY <1>1 DEF Claims
<1>3. Used(outbox[e].id) BY <1>2 DEF IInv, PushInv, OneClaim, Seal
<1>4. outbox[e].id.dev \in 0..MaxDevices /\ outbox[e].id.seq \in Nat
  <2>1. outbox[e].id.dev \in Nat /\ outbox[e].id.seq \in Nat BY <1>3 DEF Used, Ident
  <2>2. MaxDevices \in Nat /\ device.dev \in Nat /\ device.dev <= MaxDevices
    BY PushConstants DEF IInv, PushInv, Devices, TypeOK
  <2>3. outbox[e].id.dev <= device.dev BY <1>3, <2>1, <2>2 DEF Used
  <2> QED BY <2>1, <2>2, <2>3
<1>5. serverFloor[outbox[e].id.dev] \in Nat BY <1>4 DEF IInv, TypeOK
<1>6. CASE serverFloor[outbox[e].id.dev] > 0
  <2> DEFINE p == FloorFor(outbox[e].id.dev, serverFloor[outbox[e].id.dev])
  <2>1. p \in Floors BY <1>4, <1>6 DEF Floors
  <2>2. p.dev = outbox[e].id.dev /\ p.floor = serverFloor[outbox[e].id.dev] BY DEF FloorFor
  <2> HIDE DEF p
  <2> QED BY <1>1, <2>1, <2>2 DEF IInv, PushInv, FloorsLow
<1>7. CASE ~(serverFloor[outbox[e].id.dev] > 0) BY <1>4, <1>5, <1>7
<1> QED BY <1>6, <1>7

\* The floor of the server (raise_floor, from the floor the client computes over
\* its rows) never passes an identity that is still in the outbox.
THEOREM FloorSparesPendingHolds == Spec => []FloorSparesPending
<1>1. IInv => FloorSparesPending BY FloorsSpare
<1> QED BY <1>1, PushInvariant, PTL

-----------------------------------------------------------------------------
(* Edits: SyncPush implements EditDelivery. *)

\* Every edit that was made waits, has landed or was given up.
Accounted ==
  /\ \A n \in 1..made : n \in landed \cup dropped \/ \E e \in Pending : n \in outbox[e].edits
  /\ landed \subseteq 1..made /\ dropped \subseteq 1..made
  /\ \A e \in Pending : outbox[e].edits \subseteq 1..made

\* The rows that were read to be sent, and the requests, carry edits that were made.
Known ==
  /\ \A e \in Entity : batch[e] # None => batch[e].edits \subseteq 1..made
  /\ \A q \in UnderWay : \A o \in q.todo : o.edits \subseteq 1..made

\* What a receipt, the result of a hold or an answer says was applied, was applied.
Effective ==
  /\ \A r \in decided : r.verdict = "applied" => r.edits \subseteq landed
  /\ \A h \in holds : h.result # None /\ h.result.status = "ok" => h.sent.edits \subseteq landed
  /\ \A e \in Entity : answers[e] # None /\ answers[e].status = "ok" =>
       batch[e] # None /\ batch[e].edits \subseteq landed

\* The push remembers what it sent, and the holds it wrote are those of its rows.
FallingBack == pc = "fallback" \/ (pc = "wait" /\ current.via = "fallback")
Remembered ==
  /\ pc = "idle" => \A e \in Entity : answers[e] = None
  /\ \A e, f \in unsent : batch[e].op = batch[f].op => e = f
  /\ pc = "wait" => \A o \in current.todo : batch[o.e] # None /\ batch[o.e].edits = o.edits
  /\ FallingBack => \A e \in unsent : \A h \in holds : h.op = batch[e].op => h.e = e /\ h.sent = batch[e].sent

Memory == Known /\ Effective /\ Remembered
EditInv == Accounted /\ Memory

\* What a step does with edits: some land, one is made, or a row is taken away
\* whose edits have landed or are given up.
SameEdits == Pending' = Pending /\ \A e \in Pending : outbox'[e].edits = outbox[e].edits
Lands ==
  /\ SameEdits /\ UNCHANGED <<made, dropped>>
  /\ \E some \in SUBSET (1..made) : landed' = landed \cup some
Makes ==
  /\ made < MaxEdits /\ made' = made + 1 /\ UNCHANGED <<landed, dropped>>
  /\ \E e \in Entity :
       /\ Pending' = Pending \cup {e}
       /\ outbox'[e].edits = (IF e \in Pending THEN outbox[e].edits ELSE {}) \cup {made'}
       /\ \A f \in Pending \ {e} : outbox'[f].edits = outbox[f].edits
Removes ==
  /\ UNCHANGED <<made, landed>>
  /\ \E e \in Pending :
       /\ Pending' = Pending \ {e} /\ \A f \in Pending' : outbox'[f].edits = outbox[f].edits
       /\ \/ dropped' = dropped \cup outbox[e].edits
          \/ dropped' = dropped /\ outbox[e].edits \subseteq landed
EditStep == Lands \/ Makes \/ Removes

LEMMA MadeType == ASSUME TypeOK PROVE made \in Nat /\ MaxEdits \in Nat /\ made <= MaxEdits
BY PushConstants DEF TypeOK

LEMMA StepAccounted == ASSUME TypeOK, Accounted, EditStep PROVE Accounted'
<1>0. made \in Nat BY MadeType
<1>1. CASE Lands
  <2>1. PICK some \in SUBSET (1..made) : landed' = landed \cup some BY <1>1 DEF Lands
  <2>2. \A n \in 1..made : (\E e \in Pending : n \in outbox[e].edits) => \E e \in Pending' : n \in outbox'[e].edits
    BY <1>1 DEF Lands, SameEdits
  <2>3. \A e \in Pending' : outbox'[e].edits \subseteq 1..made' BY <1>1 DEF Lands, SameEdits, Accounted
  <2> QED BY <1>1, <2>1, <2>2, <2>3 DEF Lands, Accounted
<1>2. CASE Makes
  <2>1. PICK e \in Entity :
          /\ Pending' = Pending \cup {e}
          /\ outbox'[e].edits = (IF e \in Pending THEN outbox[e].edits ELSE {}) \cup {made'}
          /\ \A f \in Pending \ {e} : outbox'[f].edits = outbox[f].edits
    BY <1>2 DEF Makes
  <2>2. made' = made + 1 /\ UNCHANGED <<landed, dropped>> BY <1>2 DEF Makes
  <2>3. \A n : n \in 1..made' <=> n \in 1..made \/ n = made' BY <1>0, <2>2
  <2>4. ASSUME NEW n \in 1..made' PROVE n \in landed' \cup dropped' \/ \E f \in Pending' : n \in outbox'[f].edits
    <3>1. CASE n = made' BY <2>1, <3>1
    <3>2. CASE n \in 1..made
      <4>1. CASE n \in landed \cup dropped BY <2>2, <4>1
      <4>2. ASSUME NEW f \in Pending, n \in outbox[f].edits PROVE n \in outbox'[f].edits /\ f \in Pending'
        BY <2>1, <4>2
      <4> QED BY <3>2, <4>1, <4>2 DEF Accounted
    <3> QED BY <2>3, <3>1, <3>2
  <2>5. ASSUME NEW f \in Pending' PROVE outbox'[f].edits \subseteq 1..made'
    <3>1. f \in Pending => outbox[f].edits \subseteq 1..made' BY <2>3 DEF Accounted
    <3>2. CASE f = e BY <2>1, <2>3, <3>1, <3>2, <1>0, <2>2
    <3>3. CASE f # e BY <2>1, <3>1, <3>3
    <3> QED BY <3>2, <3>3
  <2> QED BY <2>2, <2>3, <2>4, <2>5 DEF Accounted
<1>3. CASE Removes
  <2>1. PICK e \in Pending :
          /\ Pending' = Pending \ {e} /\ \A f \in Pending' : outbox'[f].edits = outbox[f].edits
          /\ \/ dropped' = dropped \cup outbox[e].edits
             \/ dropped' = dropped /\ outbox[e].edits \subseteq landed
    BY <1>3 DEF Removes
  <2>2. UNCHANGED <<made, landed>> BY <1>3 DEF Removes
  <2>3. ASSUME NEW n \in 1..made PROVE n \in landed' \cup dropped' \/ \E f \in Pending' : n \in outbox'[f].edits
    <3>1. CASE n \in landed \cup dropped BY <2>1, <2>2, <3>1
    <3>2. ASSUME NEW f \in Pending, n \in outbox[f].edits
          PROVE  n \in landed' \cup dropped' \/ \E g \in Pending' : n \in outbox'[g].edits
      <4>1. CASE f = e BY <2>1, <2>2, <3>2, <4>1
      <4>2. CASE f # e BY <2>1, <3>2, <4>2
      <4> QED BY <4>1, <4>2
    <3> QED BY <3>1, <3>2 DEF Accounted
  <2>4. dropped' \subseteq 1..made BY <2>1 DEF Accounted
  <2>5. \A f \in Pending' : outbox'[f].edits \subseteq 1..made BY <2>1 DEF Accounted
  <2> QED BY <2>2, <2>3, <2>4, <2>5 DEF Accounted
<1> QED BY <1>1, <1>2, <1>3 DEF EditStep

-----------------------------------------------------------------------------
(* The abstract steps. *)

LEMMA FateIs ==
  ASSUME TypeOK, Accounted, NEW n \in 1..MaxEdits
  PROVE  /\ n \in landed => Fate(n) = "landed"
         /\ n \in dropped \ landed => Fate(n) = "dropped"
         /\ n \notin 1..made => Fate(n) = "unmade"
         /\ n \in (1..made) \ (landed \cup dropped) => Fate(n) = "pending"
         /\ n \in 1..made => Fate(n) \in {"pending", "landed", "dropped"}
<1>1. n \in 1..made <=> ~(n > made) BY MadeType
<1> QED BY <1>1 DEF Fate, Accounted

LEMMA FateWillBe ==
  ASSUME TypeOK', Accounted', NEW n \in 1..MaxEdits
  PROVE  /\ n \in landed' => Fate(n)' = "landed"
         /\ n \in dropped' \ landed' => Fate(n)' = "dropped"
         /\ n \notin 1..made' => Fate(n)' = "unmade"
         /\ n \in (1..made') \ (landed' \cup dropped') => Fate(n)' = "pending"
<1>1. n \in 1..made' <=> ~(n > made') BY PushConstants DEF TypeOK
<1> QED BY <1>1 DEF Fate, Accounted

Fates == [n \in 1..MaxEdits |-> Fate(n)]

LEMMA LandsMaps ==
  ASSUME TypeOK, TypeOK', Accounted, Accounted', Lands
  PROVE  \E some \in SUBSET (1..MaxEdits) : Delivery!Land(some)
<1>1. PICK some \in SUBSET (1..made) : landed' = landed \cup some BY DEF Lands
<1>2. made' = made /\ dropped' = dropped BY DEF Lands
<1>3. some \in SUBSET (1..MaxEdits) BY MadeType
<1>4. \A n \in some : Fates[n] \in {"pending", "landed", "dropped"} BY <1>3, FateIs DEF Fates
<1>5. ASSUME NEW n \in 1..MaxEdits PROVE Fates'[n] = IF n \in some THEN "landed" ELSE Fates[n]
  <2>1. Fates'[n] = Fate(n)' /\ Fates[n] = Fate(n) BY DEF Fates
  <2>2. CASE n \in some BY <1>1, <2>1, <2>2, FateWillBe
  <2>3. CASE n \notin some
    <3>1. n \in landed' <=> n \in landed BY <1>1, <2>3
    <3> QED BY <1>2, <2>1, <2>3, <3>1, FateIs, FateWillBe
  <2> QED BY <2>2, <2>3
<1>6. Fates' = [n \in 1..MaxEdits |-> IF n \in some THEN "landed" ELSE Fates[n]] BY <1>5 DEF Fates
<1> QED BY <1>3, <1>4, <1>6 DEF Delivery!Land, Fates

LEMMA MakesMaps ==
  ASSUME TypeOK, TypeOK', Accounted, Accounted', Makes
  PROVE  \E n \in 1..MaxEdits : Delivery!Make(n)
<1>1. made' = made + 1 /\ made < MaxEdits /\ UNCHANGED <<landed, dropped>> BY DEF Makes
<1>2. made' \in 1..MaxEdits /\ made' \notin 1..made BY <1>1, MadeType
<1>3. made' \notin landed \cup dropped BY <1>2 DEF Accounted
<1>4. Fates[made'] = "unmade" BY <1>2, FateIs DEF Fates
<1>5. ASSUME NEW n \in 1..MaxEdits PROVE Fates'[n] = IF n = made' THEN "pending" ELSE Fates[n]
  <2>1. Fates'[n] = Fate(n)' /\ Fates[n] = Fate(n) BY DEF Fates
  <2>2. n \in 1..made' <=> n \in 1..made \/ n = made' BY <1>1, MadeType
  <2> QED BY <1>1, <1>3, <2>1, <2>2, FateIs, FateWillBe
<1>6. Fates' = [Fates EXCEPT ![made'] = "pending"] BY <1>5 DEF Fates
<1>7. Delivery!Make(made') BY <1>4, <1>6 DEF Delivery!Make, Delivery!Move, Fates
<1> QED BY <1>2, <1>7

LEMMA RemovesMaps ==
  ASSUME TypeOK, TypeOK', Accounted, Accounted', Removes
  PROVE  \E some \in SUBSET (1..MaxEdits) : Delivery!Drop(some)
<1>1. PICK e \in Pending : \/ dropped' = dropped \cup outbox[e].edits
                           \/ dropped' = dropped /\ outbox[e].edits \subseteq landed
  BY DEF Removes
<1>2. made' = made /\ landed' = landed BY DEF Removes
<1> DEFINE some == outbox[e].edits
<1>3. some \subseteq 1..made /\ some \in SUBSET (1..MaxEdits) BY MadeType DEF Accounted
<1>4. \A n \in some : Fates[n] # "unmade" BY <1>3, FateIs DEF Fates
<1> HIDE DEF some
<1>5. ASSUME NEW n \in 1..MaxEdits
      PROVE  Fates'[n] = IF n \in some /\ Fates[n] = "pending" THEN "dropped" ELSE Fates[n]
  <2>1. Fates'[n] = Fate(n)' /\ Fates[n] = Fate(n) BY DEF Fates
  <2>2. CASE n \in some
    <3>1. n \in 1..made BY <1>3, <2>2
    <3>2. CASE n \in landed BY <1>2, <2>1, <3>2, FateIs, FateWillBe
    <3>3. CASE n \in dropped \ landed BY <1>1, <1>2, <2>1, <3>3, FateIs, FateWillBe
    <3>4. CASE n \notin landed \cup dropped
      <4>1. n \in dropped' /\ n \notin landed' BY <1>1, <1>2, <2>2, <3>4 DEF some
      <4> QED BY <2>1, <2>2, <3>1, <3>4, <4>1, FateIs, FateWillBe
    <3> QED BY <3>2, <3>3, <3>4
  <2>3. CASE n \notin some
    <3>1. n \in dropped' <=> n \in dropped BY <1>1, <2>3 DEF some
    <3> QED BY <1>2, <2>1, <2>3, <3>1, FateIs, FateWillBe
  <2> QED BY <2>2, <2>3
<1>6. Fates' = [n \in 1..MaxEdits |-> IF n \in some /\ Fates[n] = "pending" THEN "dropped" ELSE Fates[n]]
  BY <1>5 DEF Fates
<1> QED BY <1>3, <1>4, <1>6 DEF Delivery!Drop, Fates

LEMMA StepMaps ==
  ASSUME TypeOK, TypeOK', Accounted, Accounted', EditStep
  PROVE  Delivery!Next
BY LandsMaps, MakesMaps, RemovesMaps DEF EditStep, Delivery!Next

-----------------------------------------------------------------------------
(* Every step is one of these. *)

LEMMA QuietEdits == ASSUME UNCHANGED <<outbox, landed, dropped, made>> PROVE Lands
<1>1. SameEdits BY DEF SameEdits, Pending
<1>2. landed' = landed \cup {} /\ {} \in SUBSET (1..made) OBVIOUS
<1> QED BY <1>1, <1>2 DEF Lands

\* A row whose edits stay.
LEMMA OneRowEdits ==
  ASSUME TypeOK, NEW e \in Pending, NEW row \in Row, row.edits = outbox[e].edits,
         outbox' = [outbox EXCEPT ![e] = row]
  PROVE  SameEdits
<1>1. row # None BY Sentinels
<1>2. outbox \in [Entity -> Row \cup {None}] BY DEF TypeOK
<1> QED BY <1>1, <1>2 DEF SameEdits, Pending

LEMMA EnqueueEdits == ASSUME TypeOK, NEW e \in Entity, Enqueue(e) PROVE Makes
<1>0. outbox \in [Entity -> Row \cup {None}] BY DEF TypeOK
<1>1. made < MaxEdits /\ made' = made + 1 /\ UNCHANGED <<landed, dropped>> BY DEF Enqueue, history
<1>2. TypeOK' BY EnqueueType
<1>3. /\ \A f \in Entity \ {e} : outbox'[f] = outbox[f]
      /\ outbox'[e] # None
      /\ outbox'[e].edits = (IF e \in Pending THEN outbox[e].edits ELSE {}) \cup {made'}
  <2>1. CASE outbox[e] # None
    <3>1. outbox' = [outbox EXCEPT ![e].edits = @ \cup {made'}, ![e].error = "none", ![e].retries = 0]
      BY <2>1 DEF Enqueue
    <3> DEFINE row == [outbox[e] EXCEPT !.edits = @ \cup {made'}, !.error = "none", !.retries = 0]
    <3>2. outbox' = [outbox EXCEPT ![e] = row] BY <3>1
    <3>3. outbox[e] \in Row BY <1>0, <2>1
    <3>4. row.edits = outbox[e].edits \cup {made'} BY <3>3 DEF Row
    <3>5. row \in Row
      <4>1. made' \in Nat BY <1>2, PushConstants DEF TypeOK
      <4>2. outbox[e].edits \cup {made'} \in SUBSET Nat BY <3>3, <4>1 DEF Row
      <4>3. 0 \in 0..MaxRetries BY PushConstants
      <4> QED BY <3>3, <4>2, <4>3 DEF Row
    <3> HIDE DEF row
    <3>6. row # None BY <3>5, Sentinels
    <3> QED BY <1>0, <2>1, <3>2, <3>4, <3>6 DEF Pending
  <2>2. CASE outbox[e] = None
    <3>1. PICK base \in {version[e], NoBase} : outbox' = [outbox EXCEPT ![e] =
               [op |-> made', edits |-> {made'}, base |-> base, id |-> None, sent |-> None,
                retries |-> 0, error |-> "none", blocked |-> "no"]]
      BY <2>2 DEF Enqueue
    <3> DEFINE row == [op |-> made', edits |-> {made'}, base |-> base, id |-> None, sent |-> None,
                       retries |-> 0, error |-> "none", blocked |-> "no"]
    <3>2. row.edits = {made'} /\ outbox' = [outbox EXCEPT ![e] = row] BY <3>1
    <3>3. row \in Row
      <4>1. version[e] \in Nat /\ made' \in Nat /\ 0 \in 0..MaxRetries BY <1>2, PushConstants DEF TypeOK
      <4> QED BY <4>1 DEF Row
    <3> HIDE DEF row
    <3>4. row # None BY <3>3, Sentinels
    <3> QED BY <1>0, <2>2, <3>2, <3>4 DEF Pending
  <2> QED BY <2>1, <2>2
<1>4. Pending' = Pending \cup {e} BY <1>3 DEF Pending
<1>5. \A f \in Pending \ {e} : outbox'[f].edits = outbox[f].edits BY <1>3 DEF Pending
<1> QED BY <1>1, <1>3, <1>4, <1>5 DEF Makes

LEMMA RevokeEdits == ASSUME TypeOK, NEW e \in Entity, Revoke(e) PROVE Lands
<1> DEFINE row == [outbox[e] EXCEPT !.retries = MaxRetries, !.error = "error", !.blocked = "revoked"]
<1>1. e \in Pending /\ outbox[e] \in Row /\ outbox' = [outbox EXCEPT ![e] = row] BY DEF Revoke, Pending, TypeOK
<1>2. MaxRetries \in 0..MaxRetries BY PushConstants
<1>3. row \in Row /\ row.edits = outbox[e].edits BY <1>1, <1>2 DEF Row
<1> HIDE DEF row
<1>4. SameEdits BY <1>1, <1>3, OneRowEdits
<1>5. UNCHANGED <<landed, dropped, made>> BY DEF Revoke, history
<1>6. landed' = landed \cup {} /\ {} \in SUBSET (1..made) BY <1>5
<1> QED BY <1>4, <1>5, <1>6 DEF Lands

\* A row goes away.
LEMMA GoneEdits ==
  ASSUME TypeOK, NEW e \in Pending, outbox' = [outbox EXCEPT ![e] = None]
  PROVE  Pending' = Pending \ {e} /\ \A f \in Pending' : outbox'[f].edits = outbox[f].edits
BY DEF TypeOK, Pending

LEMMA AutoResolveEdits == ASSUME TypeOK, NEW e \in Entity, AutoResolve(e) PROVE Removes
<1>1. e \in Pending /\ outbox' = [outbox EXCEPT ![e] = None] BY DEF AutoResolve, Pending
<1>2. UNCHANGED <<made, landed>> /\ dropped' = dropped \cup outbox[e].edits BY DEF AutoResolve
<1> QED BY <1>1, <1>2, GoneEdits DEF Removes

LEMMA QuarantineEdits == ASSUME TypeOK, NEW e \in Entity, Quarantine(e) PROVE Lands
<1>1. UNCHANGED <<landed, dropped, made>> BY DEF Quarantine, history
<1>2. CASE outbox' = outbox BY <1>1, <1>2, QuietEdits
<1>3. CASE outbox' # outbox
  <2> DEFINE row == [outbox[e] EXCEPT !.retries = MaxRetries, !.blocked = "rejected"]
  <2>1. outbox[e] # None /\ outbox' = [outbox EXCEPT ![e] = row] BY <1>3 DEF Quarantine, SameSnapshot
  <2>2. e \in Pending /\ outbox[e] \in Row /\ MaxRetries \in 0..MaxRetries BY <2>1, PushConstants DEF TypeOK, Pending
  <2>3. row \in Row /\ row.edits = outbox[e].edits BY <2>2 DEF Row
  <2> HIDE DEF row
  <2>4. SameEdits BY <2>1, <2>2, <2>3, OneRowEdits
  <2>5. landed' = landed \cup {} /\ {} \in SUBSET (1..made) BY <1>1
  <2> QED BY <1>1, <2>4, <2>5 DEF Lands
<1> QED BY <1>2, <1>3

\* A row is settled away only when its edits took effect.
LEMMA SettledAway ==
  ASSUME TypeOK, Effective, NEW e \in Entity, e \in toSettle, outbox[e] # None,
         SettleOk(e) \/ SettleConflict(e) \/ SettleError(e), outbox' = [outbox EXCEPT ![e] = None]
  PROVE  outbox[e].edits \subseteq landed
<1>1. answers[e] # None BY DEF TypeOK
<1>2. outbox'[e] = None BY DEF TypeOK
<1>3. ASSUME Unchanged(e) PROVE outbox[e].edits = batch[e].edits BY <1>3 DEF Unchanged, SameSnapshot
<1>4. ASSUME Rebase(e) PROVE FALSE
  <2> DEFINE row == [outbox[e] EXCEPT !.base = answers[e].version, !.error = "none", !.retries = 0]
  <2>1. outbox[e] \in Row BY DEF TypeOK
  <2>2. answers[e].version \in Nat /\ 0 \in 0..MaxRetries BY <1>1, PushConstants DEF TypeOK, Answer
  <2>3. row \in Row BY <2>1, <2>2 DEF Row
  <2>4. outbox' = outbox \/ outbox' = [outbox EXCEPT ![e] = row] BY <1>4 DEF Rebase
  <2> HIDE DEF row
  <2> QED BY <1>2, <2>3, <2>4, Sentinels DEF TypeOK
<1>5. ASSUME NEW error \in {"error", "conflict"}, Mark(e, error) PROVE FALSE
  <2> DEFINE row == [outbox[e] EXCEPT !.retries = OneMore(@), !.error = error]
  <2>1. outbox[e] \in Row BY DEF TypeOK
  <2>2. OneMore(outbox[e].retries) \in 0..MaxRetries BY <2>1, OneMoreType DEF Row
  <2>3. row \in Row BY <2>1, <2>2 DEF Row
  <2>4. outbox' = [outbox EXCEPT ![e] = row] BY <1>5 DEF Mark
  <2> HIDE DEF row
  <2> QED BY <1>2, <2>3, <2>4, Sentinels DEF TypeOK
<1>6. CASE SettleOk(e)
  <2>1. answers[e].status = "ok" BY <1>6 DEF SettleOk
  <2>2. Unchanged(e) BY <1>2, <1>4, <1>6 DEF SettleOk
  <2> QED BY <1>1, <1>3, <2>1, <2>2 DEF Effective
<1>7. CASE SettleConflict(e)
  <2>1. Unchanged(e) BY <1>2, <1>4, <1>7 DEF SettleConflict
  <2>2. batch[e].edits \subseteq landed BY <1>4, <1>5, <1>7, <2>1 DEF SettleConflict
  <2> QED BY <1>3, <2>1, <2>2
<1>8. CASE SettleError(e) BY <1>2, <1>5, <1>8 DEF SettleError
<1> QED BY <1>6, <1>7, <1>8

LEMMA SettleEdits == ASSUME TypeOK, Effective, NEW e \in Entity, Settle(e) PROVE EditStep
<1>1. UNCHANGED <<landed, dropped, made>> BY DEF Settle, history
<1>2. e \in toSettle /\ (SettleOk(e) \/ SettleConflict(e) \/ SettleError(e)) BY DEF Settle
<1>3. CASE outbox' = outbox BY <1>1, <1>3, QuietEdits DEF EditStep
<1>4. CASE outbox' = [outbox EXCEPT ![e] = None] /\ outbox' # outbox
  <2>1. e \in Pending BY <1>4 DEF Pending, TypeOK
  <2>2. outbox[e].edits \subseteq landed BY <1>2, <1>4, <2>1, SettledAway DEF Pending
  <2> QED BY <1>1, <1>4, <2>1, <2>2, GoneEdits DEF Removes, EditStep
<1>5. ASSUME outbox[e] # None, NEW base \in Nat \cup {NoBase}, NEW retries \in 0..MaxRetries,
             NEW error \in {"none", "error", "conflict"},
             outbox' = [outbox EXCEPT ![e] = [outbox[e] EXCEPT !.base = base, !.retries = retries, !.error = error]]
      PROVE  EditStep
  <2> DEFINE row == [outbox[e] EXCEPT !.base = base, !.retries = retries, !.error = error]
  <2>1. outbox[e] \in Row /\ e \in Pending BY <1>5 DEF TypeOK, Pending
  <2>2. row \in Row /\ row.edits = outbox[e].edits BY <2>1, <1>5 DEF Row
  <2>3. outbox' = [outbox EXCEPT ![e] = row] BY <1>5
  <2> HIDE DEF row
  <2>4. SameEdits BY <2>1, <2>2, <2>3, OneRowEdits
  <2>5. landed' = landed \cup {} /\ {} \in SUBSET (1..made) BY <1>1
  <2> QED BY <1>1, <2>4, <2>5 DEF Lands, EditStep
<1>6. \/ outbox' = outbox
      \/ outbox' = [outbox EXCEPT ![e] = None]
      \/ /\ outbox[e] # None
         /\ \E base \in Nat \cup {NoBase}, retries \in 0..MaxRetries, error \in {"none", "error", "conflict"} :
              outbox' = [outbox EXCEPT ![e] = [outbox[e] EXCEPT !.base = base, !.retries = retries, !.error = error]]
  BY <1>2, SettleRow
<1> QED BY <1>3, <1>4, <1>5, <1>6

\* Starting a push changes no edits.
LEMMA AllocatedEdits ==
  ASSUME TypeOK, OneOp, Devices, StartV3
  PROVE  /\ SameEdits
         /\ \A e \in Pending : /\ outbox'[e] \in Row /\ outbox'[e].op = outbox[e].op
                               /\ outbox'[e].edits = outbox[e].edits
<1>1. outbox' = Allocated(ToSend) BY StartV3Facts
<1>2. Pending' = Pending
  <2>1. \A e \in Entity : outbox'[e] # None <=> e \in Pending BY <1>1, AllocatedRow, Sentinels
  <2> QED BY <2>1 DEF Pending
<1>3. ASSUME NEW e \in Pending
      PROVE  outbox'[e] \in Row /\ outbox'[e].op = outbox[e].op /\ outbox'[e].edits = outbox[e].edits
  <2>1. e \in Entity /\ outbox[e] \in Row BY ToSendFacts
  <2> DEFINE id == NewId(e)
             sent == DigestOf(outbox[e])
  <2>2. \/ outbox'[e] = [outbox[e] EXCEPT !.retries = MaxRetries, !.blocked = "identity lost"]
        \/ outbox'[e] = [outbox[e] EXCEPT !.id = id, !.sent = sent]
        \/ outbox'[e] = outbox[e]
    BY <1>1, <2>1, AllocatedRow
  <2>3. outbox'[e] \in Row BY <1>1, <2>1, AllocatedRow
  <2> HIDE DEF id, sent
  <2> QED BY <2>1, <2>2, <2>3 DEF Row
<1> QED BY <1>2, <1>3 DEF SameEdits

LEMMA StartV3Edits == ASSUME TypeOK, OneOp, Devices, StartV3 PROVE Lands
<1>1. UNCHANGED <<landed, dropped, made>> BY StartV3Facts
<1>2. landed' = landed \cup {} /\ {} \in SUBSET (1..made) BY <1>1
<1> QED BY <1>1, <1>2, AllocatedEdits DEF Lands

\* What handling an operation lands; "applied" is said of what has landed.
LEMMA ProcessEdits ==
  ASSUME Effective, NEW q, NEW o, NEW verdict, Process(q, o, verdict)
  PROVE  /\ landed' = landed \/ landed' = landed \cup o.edits
         /\ verdict = "applied" => o.edits \subseteq landed'
         /\ \A r \in decided' : r.verdict = "applied" => r.edits \subseteq landed'
<1>1. CASE ReplayReceipt(q, o, verdict)
  <2>1. UNCHANGED <<decided, landed>> BY <1>1 DEF ReplayReceipt
  <2>2. PICK r \in Receipt(o) : verdict = IF r.edits = o.edits /\ r.base = o.base THEN r.verdict ELSE "invalid"
    BY <1>1 DEF ReplayReceipt
  <2>3. verdict = "applied" => r.edits = o.edits /\ r.verdict = "applied" BY <2>2
  <2> QED BY <2>1, <2>3 DEF Receipt, Effective
<1>2. CASE RefuseRetired(q, o, verdict)
  <2>1. verdict = "retired" /\ landed' = landed /\ decided' = (decided \ Receipt(o)) \cup {Outcome(o, verdict)}
    BY <1>2 DEF RefuseRetired
  <2>2. Outcome(o, verdict).verdict = verdict BY DEF Outcome
  <2> QED BY <2>1, <2>2 DEF Effective
<1>3. ASSUME TakeEffect(o, verdict)
      PROVE  /\ landed' = landed \/ landed' = landed \cup o.edits
             /\ verdict = "applied" => o.edits \subseteq landed'
             /\ landed \subseteq landed'
  BY <1>3 DEF TakeEffect
<1>4. CASE Decide(q, o, verdict)
  <2>1. decided' = decided \cup {Outcome(o, verdict)} /\ TakeEffect(o, verdict) BY <1>4 DEF Decide
  <2>2. Outcome(o, verdict).edits = o.edits /\ Outcome(o, verdict).verdict = verdict BY DEF Outcome
  <2> QED BY <1>3, <2>1, <2>2 DEF Effective
<1>5. CASE DispatchV2(q, o, verdict) BY <1>3, <1>5 DEF DispatchV2, Effective
<1>6. CASE RollBack(verdict) BY <1>6 DEF RollBack, Effective
<1> QED BY <1>1, <1>2, <1>4, <1>5, <1>6 DEF Process

LEMMA HandleEdits ==
  ASSUME Accounted, Known, Effective, NEW q \in UnderWay, NEW o \in q.todo, NEW verdict, Process(q, o, verdict),
         UNCHANGED <<outbox, dropped, made>>
  PROVE  Lands
<1>1. SameEdits BY DEF SameEdits, Pending
<1>2. o.edits \in SUBSET (1..made) BY DEF Known
<1>3. landed' = landed \/ landed' = landed \cup o.edits BY ProcessEdits
<1>4. landed' = landed \cup {} \/ landed' = landed \cup o.edits BY <1>3
<1>5. {} \in SUBSET (1..made) OBVIOUS
<1> QED BY <1>1, <1>2, <1>4, <1>5 DEF Lands

LEMMA StepEdits == ASSUME IInv, EditInv, [Next]_vars PROVE EditStep
<1> USE DEF IInv, PushInv, EditInv, Memory
<1>1. CASE LoseDevice BY <1>1, QuietEdits DEF LoseDevice, history, EditStep
<1>2. ASSUME NEW e \in Entity, Enqueue(e) PROVE EditStep BY <1>2, EnqueueEdits DEF EditStep
<1>3. ASSUME NEW e \in Entity, Revoke(e) PROVE EditStep BY <1>3, RevokeEdits DEF EditStep
<1>4. CASE StartV3 BY <1>4, StartV3Edits DEF EditStep
<1>5. CASE StartV2 \/ SendChunk \/ SendFallback
  BY <1>5, QuietEdits DEF StartV2, SendChunk, SendFallback, client, history, EditStep
<1>6. CASE ReceiveV3 \/ ReceiveFallback \/ ReceiveV2
  BY <1>6, QuietEdits DEF ReceiveV3, ReceiveFallback, ReceiveV2, client, history, EditStep
<1>7. CASE Finish BY <1>7, QuietEdits DEF Finish, history, EditStep
<1>8. ASSUME NEW e \in Entity, Settle(e) PROVE EditStep BY <1>8, SettleEdits
<1>9. ASSUME NEW e \in Entity, Quarantine(e) PROVE EditStep BY <1>9, QuarantineEdits DEF EditStep
<1>10. ASSUME NEW e \in Entity, AutoResolve(e) PROVE EditStep BY <1>10, AutoResolveEdits DEF EditStep
<1>11. CASE Begin \/ Disabled BY <1>11, QuietEdits DEF Begin, Disabled, client, history, EditStep
<1>12. ASSUME pc = "wait", NEW o \in current.todo, Handle(o) PROVE EditStep
  <2>1. current \in UnderWay BY <1>12 DEF UnderWay, TypeOK
  <2>2. PICK verdict : Process(current, o, verdict) BY <1>12 DEF Handle
  <2>3. UNCHANGED <<outbox, dropped, made>> BY <1>12 DEF Handle, client
  <2> QED BY <2>1, <2>2, <2>3, HandleEdits DEF EditStep
<1>13. ASSUME NEW q \in late, BeginLate(q) PROVE EditStep
  BY <1>13, QuietEdits DEF BeginLate, client, history, EditStep
<1>14. ASSUME NEW q \in late, NEW o \in q.todo, HandleLate(q, o) PROVE EditStep
  <2>1. q \in UnderWay BY DEF UnderWay
  <2>2. PICK verdict : Process(q, o, verdict) BY <1>14 DEF HandleLate
  <2>3. UNCHANGED <<outbox, dropped, made>> BY <1>14 DEF HandleLate, client
  <2> QED BY <2>1, <2>2, <2>3, HandleEdits DEF EditStep
<1>15. ASSUME NEW e \in Entity, OtherWrite(e) PROVE EditStep
  BY <1>15, QuietEdits DEF OtherWrite, client, history, EditStep
<1>16. CASE Interrupt BY <1>16, QuietEdits DEF Interrupt, client, EditStep
<1>17. CASE UNCHANGED vars BY <1>17, QuietEdits DEF vars, client, history, EditStep
<1> QED
  BY <1>1, <1>2, <1>3, <1>4, <1>5, <1>6, <1>7, <1>8, <1>9, <1>10, <1>11, <1>12, <1>13, <1>14, <1>15,
     <1>16, <1>17 DEF Next, User, Push, Server

-----------------------------------------------------------------------------
(* What the push remembers, step by step. *)

Grows == 1..made \subseteq 1..made' /\ landed \subseteq landed'

LEMMA EditsGrow == ASSUME TypeOK, EditStep PROVE Grows
BY MadeType DEF EditStep, Lands, Makes, Removes, Grows

\* Steps after which the push still has its rows and answers, and no new holds.
LEMMA KeptMemory ==
  ASSUME Memory, Grows, UNCHANGED <<holds, batch, answers>>, unsent' \subseteq unsent,
         pc' = "idle" => pc = "idle", FallingBack' => FallingBack,
         pc' = "wait" => \A o \in current'.todo : batch[o.e] # None /\ batch[o.e].edits = o.edits,
         \A q \in UnderWay' : \A o \in q.todo : o.edits \subseteq 1..made,
         \A r \in decided' : r.verdict = "applied" => r.edits \subseteq landed'
  PROVE  Memory'
<1>1. Known' BY DEF Memory, Known, Grows
<1>2. Effective' BY DEF Memory, Effective, Grows
<1>3. Remembered' BY DEF Memory, Remembered
<1> QED BY <1>1, <1>2, <1>3 DEF Memory

\* Steps that are not the push's own.
LEMMA AsideMemory ==
  ASSUME Memory, Grows, UNCHANGED <<holds, pc, batch, unsent, current, answers>>,
         \A q \in late' : \A o \in q.todo : \E p \in late : o \in p.todo,
         \A r \in decided' : r.verdict = "applied" => r.edits \subseteq landed'
  PROVE  Memory'
<1>1. FallingBack' => FallingBack BY DEF FallingBack
<1>2. pc' = "wait" => \A o \in current'.todo : batch[o.e] # None /\ batch[o.e].edits = o.edits
  BY DEF Memory, Remembered
<1>3. \A q \in UnderWay' : \A o \in q.todo : o.edits \subseteq 1..made BY DEF UnderWay, Memory, Known
<1> QED BY <1>1, <1>2, <1>3, KeptMemory

\* The end of a push.
LEMMA EndsMemory ==
  ASSUME Memory, Grows, PushEnds, holds' \subseteq holds, decided' = decided, late' \subseteq UnderWay
  PROVE  Memory'
<1>1. \A e \in Entity : batch'[e] = None /\ answers'[e] = None BY DEF PushEnds, NoAnswers
<1>2. unsent' = {} /\ pc' = "idle" /\ UnderWay' \subseteq UnderWay BY DEF PushEnds, UnderWay
<1>3. Known' BY <1>1, <1>2 DEF Memory, Known, Grows
<1>4. Effective' BY <1>1 DEF Memory, Effective, Grows
<1>5. Remembered' BY <1>1, <1>2 DEF Remembered, FallingBack
<1> QED BY <1>3, <1>4, <1>5 DEF Memory

LEMMA StartV3Memory == ASSUME IInv, EditInv, Grows, StartV3 PROVE Memory'
<1> USE DEF IInv, PushInv, EditInv, Memory
<1>1. /\ holds' \subseteq holds /\ current' = None /\ pc' \in {"settle", "send"}
      /\ unsent' = ToSend /\ decided' = decided /\ late' = late /\ UnderWay' \subseteq UnderWay
  BY StartV3Facts DEF Kept, TypeOK, server, UnderWay
<1>2. batch' = [e \in Entity |-> CASE e \in ToSend -> Allocated(ToSend)[e]
                                   [] \E h \in Replayed : h.e = e -> outbox[e]
                                   [] OTHER -> None]
  BY StartV3Facts
<1>3. outbox' = Allocated(ToSend) BY StartV3Facts
<1>4. ASSUME NEW e \in ToSend
      PROVE  e \in Pending /\ batch'[e] # None /\ batch'[e].edits = outbox[e].edits /\ batch'[e].op = outbox[e].op
  <2>1. e \in Pending /\ e \in Entity BY ToSendFacts
  <2>2. batch'[e] = outbox'[e] BY StartV3Facts, SentRow
  <2>3. outbox'[e] \in Row /\ outbox'[e].op = outbox[e].op /\ outbox'[e].edits = outbox[e].edits
    BY <2>1, AllocatedEdits
  <2> QED BY <2>1, <2>2, <2>3, Sentinels
<1>5. ASSUME NEW e \in Entity, batch'[e] # None PROVE e \in Pending /\ batch'[e].edits = outbox[e].edits
  <2>1. CASE e \in ToSend BY <1>4, <2>1
  <2>2. CASE e \notin ToSend
    <3>1. batch'[e] = outbox[e] \/ batch'[e] = None BY <1>2, <2>2
    <3> QED BY <1>5, <3>1 DEF Pending
  <2> QED BY <2>1, <2>2
<1>6. ASSUME NEW e \in Entity, answers'[e] # None, answers'[e].status = "ok"
      PROVE  batch'[e] # None /\ batch'[e].edits \subseteq landed
  <2>1. answers'[e] = IF \E h \in Replayed : h.e = e THEN (CHOOSE h \in Replayed : h.e = e).result ELSE None
    BY StartV3Facts
  <2>2. PICK g \in Replayed : g.e = e /\ answers'[e] = g.result BY <1>6, <2>1
  <2>3. g \in holds /\ g.result # None /\ g.result.status = "ok" /\ Matches(outbox[e], g)
    BY <1>6, <2>2 DEF Replayed, Kept
  <2>4. g.sent.edits \subseteq landed BY <2>3 DEF Effective
  <2>5. outbox[e] # None /\ g.sent = DigestOf(outbox[e]) BY <2>3 DEF Matches
  <2>6. outbox[e].edits \subseteq landed BY <2>4, <2>5 DEF DigestOf
  <2>7. CASE e \in ToSend BY <1>4, <2>6, <2>7
  <2>8. CASE e \notin ToSend
    <3>1. batch'[e] = outbox[e] BY <1>2, <2>2, <2>8
    <3> QED BY <2>5, <2>6, <3>1
  <2> QED BY <2>7, <2>8
<1>7. Known'
  <2>1. \A e \in Entity : batch'[e] # None => batch'[e].edits \subseteq 1..made BY <1>5 DEF Accounted
  <2>2. \A q \in UnderWay' : \A o \in q.todo : o.edits \subseteq 1..made BY <1>1 DEF Known
  <2> QED BY <2>1, <2>2 DEF Known, Grows
<1>8. Effective'
  <2>1. \A h \in holds' : h.result # None /\ h.result.status = "ok" => h.sent.edits \subseteq landed'
    BY <1>1 DEF Effective, Grows
  <2>2. \A r \in decided' : r.verdict = "applied" => r.edits \subseteq landed' BY <1>1 DEF Effective, Grows
  <2>3. \A e \in Entity : answers'[e] # None /\ answers'[e].status = "ok" =>
          batch'[e] # None /\ batch'[e].edits \subseteq landed'
    BY <1>6 DEF Grows
  <2> QED BY <2>1, <2>2, <2>3 DEF Effective
<1>9. Remembered'
  <2>1. \A e, f \in unsent' : batch'[e].op = batch'[f].op => e = f
    BY <1>1, <1>4 DEF OneOp
  <2> QED BY <1>1, <2>1 DEF Remembered, FallingBack
<1> QED BY <1>7, <1>8, <1>9

LEMMA StartV2Memory == ASSUME IInv, EditInv, Grows, StartV2 PROVE Memory'
<1> USE DEF IInv, PushInv, EditInv, Memory
<1> DEFINE send == {e \in Pending : Sendable(e) /\ outbox[e].sent = None}
           todo == {AsOp(e, outbox[e]) : e \in send}
<1>1. /\ pc = "idle" /\ pc' = "wait"
      /\ UNCHANGED <<holds, unsent, answers, decided, late>>
      /\ batch' = [e \in Entity |-> IF e \in send THEN outbox[e] ELSE None]
      /\ current' = [via |-> "v2", dev |-> 0, floor |-> 0, begun |-> TRUE, todo |-> todo]
  BY DEF StartV2, client, server
<1>2. send \subseteq Pending /\ send \subseteq Entity BY DEF Pending
<1>3. ASSUME NEW o \in todo
      PROVE  o.e \in send /\ batch'[o.e] # None /\ batch'[o.e].edits = o.edits /\ o.edits \subseteq 1..made
  <2>1. PICK e \in send : o = AsOp(e, outbox[e]) OBVIOUS
  <2>2. o.e = e /\ o.edits = outbox[e].edits BY <2>1 DEF AsOp
  <2>3. batch'[e] = outbox[e] BY <1>1, <1>2
  <2> HIDE DEF send, todo
  <2> QED BY <1>2, <2>2, <2>3 DEF Pending, Accounted
<1> HIDE DEF send, todo
<1>4. current'.todo = todo /\ current'.via = "v2" BY <1>1
<1>5. UnderWay' \subseteq late \cup {current'} /\ late \subseteq UnderWay BY <1>1 DEF UnderWay
<1>6. unsent' = {} /\ \A e \in Entity : answers'[e] = None BY <1>1 DEF Idle, Remembered
<1>7. Known'
  <2>1. \A e \in Entity : batch'[e] # None => batch'[e].edits \subseteq 1..made
    BY <1>1, <1>2 DEF Accounted
  <2>2. \A q \in UnderWay' : \A o \in q.todo : o.edits \subseteq 1..made BY <1>3, <1>4, <1>5 DEF Known
  <2> QED BY <2>1, <2>2 DEF Known, Grows
<1>8. Effective' BY <1>1, <1>6 DEF Effective, Grows
<1>9. Remembered' BY <1>1, <1>3, <1>4, <1>6 DEF Remembered, FallingBack
<1> QED BY <1>7, <1>8, <1>9

\* What is sent was read.
LEMMA OpsRead ==
  ASSUME TypeOK, Batched, Known, NEW some \in SUBSET unsent
  PROVE  \A o \in Ops(some) : batch[o.e] # None /\ batch[o.e].edits = o.edits /\ o.edits \subseteq 1..made
<1> SUFFICES ASSUME NEW o \in Ops(some)
             PROVE  batch[o.e] # None /\ batch[o.e].edits = o.edits /\ o.edits \subseteq 1..made
  OBVIOUS
<1>1. PICK e \in some : o = AsOp(e, batch[e]) BY DEF Ops
<1>2. o.e = e /\ o.edits = batch[e].edits BY <1>1 DEF AsOp
<1>3. e \in unsent /\ e \in Entity BY DEF TypeOK
<1> QED BY <1>2, <1>3 DEF Batched, Known

LEMMA SendMemory == ASSUME IInv, EditInv, Grows, SendChunk \/ SendFallback PROVE Memory'
<1> USE DEF IInv, PushInv, EditInv, Memory
<1>1. /\ pc' = "wait" /\ UNCHANGED <<holds, batch, answers, unsent, decided, late>>
  BY DEF SendChunk, SendFallback, client, server
<1>2. PICK some \in SUBSET unsent : current'.todo = Ops(some) BY DEF SendChunk, SendFallback
<1>3. FallingBack' => FallingBack
  <2>1. CASE SendChunk
    <3>1. current'.via = "v3" BY <2>1 DEF SendChunk
    <3> QED BY <1>1, <3>1 DEF FallingBack
  <2>2. CASE SendFallback BY <2>2 DEF SendFallback, FallingBack
  <2> QED BY <2>1, <2>2
<1>4. \A o \in current'.todo : batch[o.e] # None /\ batch[o.e].edits = o.edits /\ o.edits \subseteq 1..made
  BY <1>2, OpsRead
<1>5. UnderWay' \subseteq late \cup {current'} /\ late \subseteq UnderWay BY <1>1 DEF UnderWay
<1>6. \A q \in UnderWay' : \A o \in q.todo : o.edits \subseteq 1..made BY <1>4, <1>5 DEF Known
<1>7. \A r \in decided' : r.verdict = "applied" => r.edits \subseteq landed' BY <1>1 DEF Effective, Grows
<1> QED BY <1>1, <1>3, <1>4, <1>6, <1>7, KeptMemory

LEMMA BeginMemory == ASSUME IInv, EditInv, Grows, Begin PROVE Memory'
<1> USE DEF IInv, PushInv, EditInv, Memory
<1>1. /\ pc = "wait" /\ UNCHANGED <<holds, pc, batch, answers, unsent, late>>
      /\ current' = Begun(current) /\ decided' = decided
  BY DEF Begin, client
<1>2. current \in Request /\ current \in UnderWay BY <1>1 DEF TypeOK, UnderWay
<1>3. current'.todo = current.todo /\ current'.via = current.via BY <1>1, <1>2, BegunFields
<1>4. UnderWay' \subseteq late \cup {current'} /\ late \subseteq UnderWay BY <1>1 DEF UnderWay
<1>5. \A q \in UnderWay' : \A o \in q.todo : o.edits \subseteq 1..made BY <1>2, <1>3, <1>4 DEF Known
<1>6. FallingBack' => FallingBack BY <1>1, <1>3 DEF FallingBack
<1>7. \A o \in current'.todo : batch[o.e] # None /\ batch[o.e].edits = o.edits BY <1>1, <1>3 DEF Remembered
<1>8. \A r \in decided' : r.verdict = "applied" => r.edits \subseteq landed' BY <1>1 DEF Effective, Grows
<1> QED BY <1>1, <1>5, <1>6, <1>7, <1>8, KeptMemory

LEMMA DisabledMemory == ASSUME IInv, EditInv, Grows, Disabled PROVE Memory'
<1> USE DEF IInv, PushInv, EditInv, Memory
<1> DEFINE rows == unsent \ sealed
           Fallback(e) == [e |-> e, op |-> batch[e].op, id |-> batch[e].id, sent |-> batch[e].sent,
                           retries |-> batch[e].retries, result |-> None]
<1>1. /\ unsent' = rows /\ pc' \in {"settle", "fallback"} /\ current' = None
      /\ UNCHANGED <<batch, answers, decided, late>>
      /\ holds' = {h \in holds : \A e \in rows : h.op # batch[e].op} \cup {Fallback(e) : e \in rows}
  BY DEF Disabled, server
<1>2. rows \subseteq unsent OBVIOUS
<1>3. \A e : /\ Fallback(e).e = e /\ Fallback(e).op = batch[e].op
             /\ Fallback(e).sent = batch[e].sent /\ Fallback(e).result = None
  OBVIOUS
<1> HIDE DEF rows, Fallback
<1>4. UnderWay' \subseteq UnderWay BY <1>1 DEF UnderWay
<1>5. Known' BY <1>1, <1>4 DEF Known, Grows
<1>6. Effective'
  <2>1. \A h \in holds' : h \in holds \/ h.result = None BY <1>1, <1>3
  <2> QED BY <1>1, <2>1 DEF Effective, Grows
<1>7. ASSUME NEW e \in unsent', NEW h \in holds', h.op = batch'[e].op
      PROVE  h.e = e /\ h.sent = batch'[e].sent
  <2>1. e \in rows /\ batch' = batch BY <1>1
  <2>2. PICK f \in rows : h = Fallback(f) BY <1>1, <1>7, <2>1
  <2>3. batch[f].op = batch[e].op BY <1>3, <1>7, <2>1, <2>2
  <2>4. f = e BY <1>2, <2>1, <2>3 DEF Remembered
  <2> QED BY <1>3, <2>1, <2>2, <2>4
<1>8. Remembered'
  <2>1. \A e, f \in unsent' : batch'[e].op = batch'[f].op => e = f BY <1>1, <1>2 DEF Remembered
  <2> QED BY <1>1, <1>7, <2>1 DEF Remembered
<1> QED BY <1>5, <1>6, <1>8

LEMMA ReceiveMemory == ASSUME IInv, EditInv, Grows, ReceiveV3 \/ ReceiveV2 PROVE Memory'
<1> USE DEF IInv, PushInv, EditInv, Memory
<1>1. /\ pc' \in {"settle", "send"} /\ current' = None /\ unsent' \subseteq unsent
      /\ UNCHANGED <<holds, batch, answers, decided, late>>
  BY DEF ReceiveV3, ReceiveV2, client, server
<1>2. UnderWay' \subseteq UnderWay BY <1>1 DEF UnderWay
<1>3. ~FallingBack' /\ pc' # "idle" /\ pc' # "wait" BY <1>1 DEF FallingBack
<1>4. \A q \in UnderWay' : \A o \in q.todo : o.edits \subseteq 1..made BY <1>2 DEF Known
<1>5. \A r \in decided' : r.verdict = "applied" => r.edits \subseteq landed' BY <1>1 DEF Effective, Grows
<1> QED BY <1>1, <1>3, <1>4, <1>5, KeptMemory

\* The results that are persisted are those of the rows the holds are for.
LEMMA ReceiveFallbackMemory == ASSUME IInv, EditInv, Grows, ReceiveFallback PROVE Memory'
<1> USE DEF IInv, PushInv, EditInv, Memory
<1>1. /\ pc' = "settle" /\ current' = None /\ unsent' = {}
      /\ UNCHANGED <<batch, answers, decided, late>>
      /\ holds' = {IF \E e \in unsent : h.op = batch[e].op
                   THEN [h EXCEPT !.result = answers[h.e]] ELSE h : h \in holds}
  BY DEF ReceiveFallback, server
<1>2. UnderWay' \subseteq UnderWay BY <1>1 DEF UnderWay
<1>3. FallingBack BY DEF ReceiveFallback, FallingBack
<1>4. ASSUME NEW h \in holds', h.result # None, h.result.status = "ok" PROVE h.sent.edits \subseteq landed
  <2>1. PICK g \in holds : h = IF \E e \in unsent : g.op = batch[e].op
                               THEN [g EXCEPT !.result = answers[g.e]] ELSE g
    BY <1>1
  <2>2. CASE ~\E e \in unsent : g.op = batch[e].op BY <1>4, <2>1, <2>2 DEF Effective
  <2>3. ASSUME NEW e \in unsent, g.op = batch[e].op PROVE h.sent.edits \subseteq landed
    <3>1. g.e = e /\ g.sent = batch[e].sent BY <1>3, <2>3 DEF Remembered
    <3>2. g \in Hold /\ e \in Entity BY DEF TypeOK
    <3>3. h = [g EXCEPT !.result = answers[g.e]] BY <2>1, <2>3
    <3>4. h.result = answers[e] /\ h.sent = g.sent BY <3>1, <3>2, <3>3 DEF Hold
    <3>5. batch[e].edits \subseteq landed BY <1>4, <3>2, <3>4 DEF Effective
    <3>6. g.sent = DigestOf(batch[e]) BY <3>1 DEF Batched
    <3> QED BY <3>4, <3>5, <3>6 DEF DigestOf
  <2> QED BY <2>2, <2>3
<1>5. Known' BY <1>1, <1>2 DEF Known, Grows
<1>6. Effective' BY <1>1, <1>4 DEF Effective, Grows
<1>7. Remembered' BY <1>1 DEF Remembered, FallingBack
<1> QED BY <1>5, <1>6, <1>7

\* An answer says "ok" of what has landed.
LEMMA HandleMemory ==
  ASSUME IInv, EditInv, Grows, pc = "wait", NEW o \in current.todo, Handle(o) PROVE Memory'
<1> USE DEF IInv, PushInv, EditInv, Memory
<1>1. /\ UNCHANGED <<holds, pc, batch, unsent, late>> /\ current' = [current EXCEPT !.todo = @ \ {o}]
  BY DEF Handle, client
<1>2. current \in Request /\ current \in UnderWay BY DEF TypeOK, UnderWay
<1>3. current'.todo = current.todo \ {o} /\ current'.via = current.via BY <1>1, <1>2 DEF Request
<1>4. PICK verdict \in Verdict :
        /\ Process(current, o, verdict)
        /\ \E said \in {verdict} \cup IF current.via = "v3" THEN {"retry"} ELSE {} :
             answers' = [answers EXCEPT ![o.e] = AnswerTo(said, o.e, current.via)]
  BY DEF Handle
<1>5. PICK said \in {verdict, "retry"} : answers' = [answers EXCEPT ![o.e] = AnswerTo(said, o.e, current.via)]
  BY <1>4
<1>6. /\ verdict = "applied" => o.edits \subseteq landed'
      /\ \A r \in decided' : r.verdict = "applied" => r.edits \subseteq landed'
  BY <1>4, ProcessEdits
<1>7. batch[o.e] # None /\ batch[o.e].edits = o.edits BY DEF Remembered
<1>8. AnswerTo(said, o.e, current.via).status = "ok" => said = "applied" BY DEF AnswerTo
<1>9. Known'
  <2>1. UnderWay' \subseteq late \cup {current'} /\ late \subseteq UnderWay BY <1>1 DEF UnderWay
  <2>2. \A q \in UnderWay' : \A p \in q.todo : p.edits \subseteq 1..made BY <1>2, <1>3, <2>1 DEF Known
  <2> QED BY <1>1, <2>2 DEF Known, Grows
<1>10. ASSUME NEW e \in Entity, answers'[e] # None, answers'[e].status = "ok"
       PROVE  batch[e] # None /\ batch[e].edits \subseteq landed'
  <2>1. CASE e = o.e
    <3>1. answers'[e] = AnswerTo(said, o.e, current.via) BY <1>5, <2>1 DEF TypeOK
    <3>2. verdict = "applied" BY <1>5, <1>8, <1>10, <3>1
    <3> QED BY <1>6, <1>7, <2>1, <3>2
  <2>2. CASE e # o.e
    <3>1. answers'[e] = answers[e] BY <1>5, <2>2 DEF TypeOK
    <3> QED BY <1>10, <3>1 DEF Effective, Grows
  <2> QED BY <2>1, <2>2
<1>11. Effective' BY <1>1, <1>6, <1>10 DEF Effective, Grows
<1>12. Remembered' BY <1>1, <1>3 DEF Remembered, FallingBack
<1> QED BY <1>9, <1>11, <1>12

LEMMA StepMemory == ASSUME IInv, EditInv, Grows, [Next]_vars PROVE Memory'
<1> USE DEF IInv, PushInv, EditInv, Memory
<1>0. \A r \in decided : r.verdict = "applied" => r.edits \subseteq landed' BY DEF Effective, Grows
<1>1. ASSUME UNCHANGED <<holds, pc, batch, unsent, current, answers, late, decided>> PROVE Memory'
  BY <1>0, <1>1, AsideMemory
<1>2. CASE User BY <1>1, <1>2 DEF User, LoseDevice, Enqueue, Revoke, push, server
<1>3. CASE Push
  <2>1. CASE Finish
    <3>1. PushEnds /\ holds' \subseteq holds /\ decided' = decided /\ late' \subseteq UnderWay
      BY <2>1 DEF Finish, server, UnderWay
    <3> QED BY <3>1, EndsMemory
  <2>2. ASSUME NEW e \in Entity, Settle(e) \/ Quarantine(e) \/ AutoResolve(e) PROVE Memory'
    BY <1>1, <2>2 DEF Settle, Quarantine, AutoResolve, push, server
  <2> QED BY <1>3, <2>1, <2>2, StartV3Memory, StartV2Memory, SendMemory, ReceiveMemory, ReceiveFallbackMemory
    DEF Push
<1>4. CASE Server
  <2>1. ASSUME NEW q \in late, BeginLate(q) PROVE Memory'
    <3>1. /\ late' \subseteq late \cup {Begun(q)} /\ decided' = decided
          /\ UNCHANGED <<holds, pc, batch, unsent, current, answers>>
      BY <2>1 DEF BeginLate, client, push
    <3>2. Begun(q).todo = q.todo BY BegunFields DEF TypeOK
    <3>3. \A p \in late' : \A o \in p.todo : \E r \in late : o \in r.todo BY <3>1, <3>2
    <3> QED BY <1>0, <3>1, <3>3, AsideMemory
  <2>2. ASSUME NEW q \in late, NEW o \in q.todo, HandleLate(q, o) PROVE Memory'
    <3> DEFINE left == [q EXCEPT !.todo = @ \ {o}]
    <3>1. /\ late' \subseteq late \cup {left}
          /\ UNCHANGED <<holds, pc, batch, unsent, current, answers>>
      BY <2>2 DEF HandleLate, client, push
    <3>2. left.todo \subseteq q.todo BY DEF TypeOK, Request
    <3> HIDE DEF left
    <3>3. \A p \in late' : \A x \in p.todo : \E r \in late : x \in r.todo BY <3>1, <3>2
    <3>4. \A r \in decided' : r.verdict = "applied" => r.edits \subseteq landed'
      <4>1. PICK verdict : Process(q, o, verdict) BY <2>2 DEF HandleLate
      <4> QED BY <4>1, ProcessEdits
    <3> QED BY <3>1, <3>3, <3>4, AsideMemory
  <2>3. ASSUME NEW e \in Entity, OtherWrite(e) PROVE Memory' BY <1>1, <2>3 DEF OtherWrite, client, push
  <2> QED BY <1>4, <2>1, <2>2, <2>3, BeginMemory, DisabledMemory, HandleMemory DEF Server
<1>5. CASE Interrupt
  <2>1. PushEnds /\ holds' = holds /\ decided' = decided BY <1>5 DEF Interrupt, client, server
  <2>2. late' \subseteq UnderWay BY <1>5 DEF Interrupt, UnderWay, TypeOK
  <2> QED BY <2>1, <2>2, EndsMemory
<1>6. CASE UNCHANGED vars BY <1>1, <1>6 DEF vars, client, push, server
<1> QED BY <1>2, <1>3, <1>4, <1>5, <1>6 DEF Next

LEMMA InitEdits == ASSUME Init PROVE EditInv /\ Delivery!Init
<1>1. Pending = {} BY DEF Init, NoAnswers, Pending
<1>2. made = 0 /\ landed = {} /\ dropped = {} /\ 1..made = {} BY DEF Init
<1>3. Accounted BY <1>1, <1>2 DEF Accounted
<1>4. Memory BY DEF Init, NoAnswers, Memory, Known, Effective, Remembered, FallingBack, UnderWay
<1>5. \A n \in 1..MaxEdits : Fate(n) = "unmade" BY <1>2, PushConstants DEF Fate
<1> QED BY <1>3, <1>4, <1>5 DEF EditInv, Delivery!Init

LEMMA NextEdits == ASSUME IInv, EditInv, [Next]_vars PROVE EditInv' /\ Delivery!Next
<1>1. EditStep BY StepEdits
<1>2. TypeOK' BY NextType
<1>3. Accounted' BY <1>1, StepAccounted DEF IInv, EditInv
<1>4. Memory' BY <1>1, EditsGrow, StepMemory DEF IInv
<1>5. Delivery!Next BY <1>1, <1>2, <1>3, StepMaps DEF IInv, EditInv
<1> QED BY <1>3, <1>4, <1>5 DEF EditInv

\* No edit disappears: every step of the push, of the server and of the user is a
\* step of EditDelivery, or none.
THEOREM EditsDeliveredHolds == Spec => EditsDelivered
<1>1. Init => EditInv /\ Delivery!Init BY InitEdits
<1>2. IInv /\ EditInv /\ [Next]_vars => EditInv' /\ Delivery!Next BY NextEdits
<1> QED BY <1>1, <1>2, PushInvariant, PTL DEF Spec, EditsDelivered, Delivery!Spec

-----------------------------------------------------------------------------
(* Transports: what the server may have over v3 is not sent over v2, and what  *)
(* v2 has not answered is not sent again.                                      *)

\* Rows, and the rows that were read, are told apart by their edits.
Distinct ==
  /\ \A e \in Pending : outbox[e].id = None <=> outbox[e].sent = None
  /\ \A e, f \in Pending : outbox[e].edits = outbox[f].edits => e = f
  /\ \A e, f \in unsent : batch[e].edits = batch[f].edits => e = f

\* A row with the edits, or the operation, that were read still has their digest.
Read ==
  \A f \in unsent :
    /\ batch[f].op <= made
    /\ \A e \in Pending :
         /\ outbox[e].edits = batch[f].edits => outbox[e].sent = batch[f].sent
         /\ outbox[e].op = batch[f].op => e = f /\ outbox[e].sent = batch[f].sent

\* What the server may have over v3 is what the row was sealed with, and a row
\* that this push was the first to seal was not answered yet.
PostedSealed ==
  /\ \A d \in posted : d.edits \subseteq 1..made
  /\ \A e \in Pending : \A d \in posted : d.edits = outbox[e].edits => outbox[e].sent = d
  /\ \A e \in unsent \ sealed : DigestOf(batch[e]) \notin posted

\* A row whose fallback was not answered has a hold without a result.
HeldFor(e, n) == \E h \in holds : h.e = e /\ h.op = n /\ h.result = None
Fell == unsent \cap sealed = {} /\ \A e \in unsent : HeldFor(e, batch[e].op)
UnansweredHeld ==
  /\ \A n \in unanswered : n <= made
  /\ \A e \in Pending : outbox[e].op \in unanswered => outbox[e].sent # None /\ HeldFor(e, outbox[e].op)
  /\ IF FallingBack THEN Fell ELSE \A e \in unsent : batch[e].op \notin unanswered

\* The request that is waited for carries rows that this push still has to settle.
Carried ==
  pc = "wait" => \A o \in current.todo :
    IF current.via = "v2" THEN DigestOf(o) \notin posted /\ o.op \notin unanswered
    ELSE o.e \in unsent /\ o = AsOp(o.e, batch[o.e])

TransportInv == Distinct /\ Read /\ PostedSealed /\ UnansweredHeld /\ Carried

\* A row after a step that allocates nothing: as it was, but for its base, its
\* retries and its marks, or with the edit that was just made.
Linked(e) == Stays(e) /\ outbox'[e].edits = outbox[e].edits
Touched(e) == made' = made + 1 /\ made' \in outbox'[e].edits /\ (Stays(e) \/ Born(e))

\* What is noted as sent over v3 was to be sent and is not any more; what is sent
\* as a fallback is held.
PostFrame ==
  /\ posted' \subseteq posted \cup {DigestOf(batch[f]) : f \in unsent \ unsent'}
  /\ unsent' # {} => sealed' = sealed
HoldFrame ==
  /\ \/ unanswered' \subseteq unanswered
     \/ /\ FallingBack /\ holds' = holds
        /\ unanswered' \subseteq unanswered \cup {batch[f].op : f \in unsent}
  /\ \A e \in Entity : \A n \in unanswered' : HeldFor(e, n) => HeldFor(e, n)'
  /\ IF FallingBack' THEN (FallingBack /\ holds' = holds) \/ Fell'
     ELSE unsent' = {} \/ (~FallingBack /\ unanswered' \subseteq unanswered)

LEMMA RowCases ==
  ASSUME TypeOK, Accounted, RowFrame, EditStep
  PROVE  /\ \A e \in Pending' : e \in Entity /\ (Linked(e) \/ Touched(e))
         /\ \A e, f \in Pending' : Touched(e) /\ Touched(f) => e = f
<1>0. made \in Nat BY MadeType
<1>1. Pending' \subseteq Entity BY DEF Pending
<1>2. \A e \in Pending' : Stays(e) \/ Born(e) BY <1>1 DEF RowFrame, Pending
<1>3. CASE Lands \/ Removes
  <2>1. made' = made /\ \A e \in Pending' : e \in Pending /\ outbox'[e].edits = outbox[e].edits
    BY <1>3 DEF Lands, Removes, SameEdits
  <2>2. \A e : ~Born(e) /\ ~Touched(e) BY <1>0, <2>1 DEF Born, Touched
  <2> QED BY <1>1, <1>2, <2>1, <2>2 DEF Linked
<1>4. CASE Makes
  <2>1. PICK g \in Entity :
          /\ Pending' = Pending \cup {g}
          /\ outbox'[g].edits = (IF g \in Pending THEN outbox[g].edits ELSE {}) \cup {made'}
          /\ \A f \in Pending \ {g} : outbox'[f].edits = outbox[f].edits
    BY <1>4 DEF Makes
  <2>2. made' = made + 1 BY <1>4 DEF Makes
  <2>3. \A f \in Pending : made' \notin outbox[f].edits BY <1>0, <2>2 DEF Accounted
  <2>4. Touched(g) BY <1>2, <2>1, <2>2 DEF Touched
  <2>5. ASSUME NEW e \in Pending', e # g PROVE Linked(e) /\ ~Touched(e)
    <3>1. e \in Pending /\ outbox'[e].edits = outbox[e].edits BY <2>1, <2>5
    <3>2. ~Born(e)
      <4>1. SUFFICES ASSUME Born(e) PROVE FALSE OBVIOUS
      <4>2. outbox'[g] = outbox[g] BY <2>5, <4>1 DEF Born
      <4>3. g \in Pending' BY <2>1
      <4>4. g \in Pending BY <4>2, <4>3 DEF Pending
      <4> QED BY <2>1, <2>3, <4>2, <4>4
    <3> QED BY <1>2, <2>3, <2>5, <3>1, <3>2 DEF Linked, Touched
  <2> QED BY <1>1, <2>1, <2>4, <2>5
<1> QED BY <1>3, <1>4 DEF EditStep

\* A row that was touched is none of the old ones.
LEMMA TouchedNew ==
  ASSUME TypeOK, Accounted, NEW e, Touched(e), NEW S, S \subseteq 1..made
  PROVE  outbox'[e].edits # S
BY MadeType DEF Touched

LEMMA LinkedPending == ASSUME NEW e \in Entity, Linked(e) PROVE e \in Pending
BY DEF Linked, Stays, Pending

LEMMA FramedRead ==
  ASSUME TypeOK, Accounted, Known, Batched, Distinct, Read, RowFrame, NetFrame, EditStep
  PROVE  Distinct' /\ Read'
<1>0. made \in Nat /\ made' \in Nat /\ made <= made' BY MadeType DEF RowFrame
<1>1. unsent' \subseteq unsent /\ \A f \in unsent' : batch'[f] = batch[f] BY DEF NetFrame
<1>2. \A f \in unsent : batch[f].edits \subseteq 1..made BY DEF TypeOK, Batched, Known
<1>3. \A e \in Pending : outbox[e].edits \subseteq 1..made BY DEF Accounted
<1>4. Distinct'
  <2>1. \A e \in Pending' : outbox'[e].id = None <=> outbox'[e].sent = None
    BY RowCases, LinkedPending DEF Linked, Touched, Stays, Born, Distinct, Pending
  <2>2. ASSUME NEW e \in Pending', NEW f \in Pending', outbox'[e].edits = outbox'[f].edits PROVE e = f
    <3>1. e \in Entity /\ f \in Entity BY RowCases
    <3>2. CASE Linked(e) /\ Linked(f) BY <2>2, <3>1, <3>2, LinkedPending DEF Linked, Distinct
    <3>3. CASE Linked(e) /\ Touched(f)
      <4>1. outbox'[e].edits \subseteq 1..made BY <1>3, <3>1, <3>3, LinkedPending DEF Linked
      <4> QED BY <2>2, <3>3, <4>1, TouchedNew
    <3>4. CASE Touched(e) /\ Linked(f)
      <4>1. outbox'[f].edits \subseteq 1..made BY <1>3, <3>1, <3>4, LinkedPending DEF Linked
      <4> QED BY <2>2, <3>4, <4>1, TouchedNew
    <3> QED BY <3>2, <3>3, <3>4, RowCases
  <2>3. \A e, f \in unsent' : batch'[e].edits = batch'[f].edits => e = f BY <1>1 DEF Distinct
  <2> QED BY <2>1, <2>2, <2>3 DEF Distinct
<1>5. Read'
  <2> SUFFICES ASSUME NEW f \in unsent'
               PROVE  /\ batch'[f].op <= made'
                      /\ \A e \in Pending' :
                           /\ outbox'[e].edits = batch'[f].edits => outbox'[e].sent = batch'[f].sent
                           /\ outbox'[e].op = batch'[f].op => e = f /\ outbox'[e].sent = batch'[f].sent
    BY DEF Read
  <2>1. f \in unsent /\ batch'[f] = batch[f] /\ batch[f].op <= made /\ batch[f].op \in Nat
    BY <1>1 DEF Read, Batched, TypeOK, Row
  <2>2. ASSUME NEW e \in Pending', outbox'[e].edits = batch[f].edits PROVE outbox'[e].sent = batch[f].sent
    <3>1. ~Touched(e) BY <1>2, <2>1, <2>2, TouchedNew
    <3>2. Linked(e) /\ e \in Pending BY <3>1, RowCases, LinkedPending
    <3> QED BY <2>1, <2>2, <3>2 DEF Linked, Stays, Read
  <2>3. ASSUME NEW e \in Pending', outbox'[e].op = batch[f].op PROVE e = f /\ outbox'[e].sent = batch[f].sent
    <3>1. ~Born(e) BY <1>0, <2>1, <2>3 DEF Born
    <3>2. Stays(e) /\ e \in Pending BY <3>1, RowCases DEF Linked, Touched, Stays, Pending
    <3> QED BY <2>1, <2>3, <3>2 DEF Stays, Read
  <2> QED BY <1>0, <2>1, <2>2, <2>3
<1> QED BY <1>4, <1>5

LEMMA FramedPosted ==
  ASSUME TypeOK, Accounted, Known, Batched, Distinct, Read, PostedSealed,
         RowFrame, NetFrame, EditStep, PostFrame
  PROVE  PostedSealed'
<1>0. 1..made \subseteq 1..made' BY EditsGrow DEF Grows
<1>1. unsent' \subseteq unsent /\ \A f \in unsent' : batch'[f] = batch[f] BY DEF NetFrame
<1>2. ASSUME NEW d \in posted' PROVE d \in posted \/ \E f \in unsent \ unsent' : d = DigestOf(batch[f])
  BY DEF PostFrame
<1>3. \A f \in unsent : batch[f].edits \subseteq 1..made /\ DigestOf(batch[f]).edits = batch[f].edits
  BY DEF TypeOK, Batched, Known, DigestOf
<1>4. \A d \in posted' : d.edits \subseteq 1..made BY <1>2, <1>3 DEF PostedSealed
<1>5. ASSUME NEW e \in Pending', NEW d \in posted', d.edits = outbox'[e].edits PROVE outbox'[e].sent = d
  <2>1. ~Touched(e) BY <1>4, <1>5, TouchedNew
  <2>2. Linked(e) /\ e \in Pending BY <2>1, RowCases, LinkedPending
  <2>3. outbox'[e].sent = outbox[e].sent /\ outbox'[e].edits = outbox[e].edits BY <2>2 DEF Linked, Stays
  <2>4. CASE d \in posted BY <1>5, <2>2, <2>3, <2>4 DEF PostedSealed
  <2>5. ASSUME NEW f \in unsent, d = DigestOf(batch[f]) PROVE outbox'[e].sent = d
    <3>1. outbox[e].sent = batch[f].sent BY <1>3, <1>5, <2>2, <2>3, <2>5 DEF Read
    <3> QED BY <2>3, <2>5, <3>1 DEF Batched
  <2> QED BY <1>2, <2>4, <2>5
<1>6. ASSUME NEW e \in unsent' \ sealed' PROVE DigestOf(batch'[e]) \notin posted'
  <2>1. e \in unsent \ sealed /\ batch'[e] = batch[e] BY <1>1 DEF PostFrame
  <2>2. ASSUME NEW f \in unsent \ unsent' PROVE DigestOf(batch[e]) # DigestOf(batch[f])
    <3>1. batch[e].edits # batch[f].edits BY <2>1, <2>2 DEF Distinct
    <3> QED BY <1>3, <2>1, <3>1
  <2> QED BY <1>2, <2>1, <2>2 DEF PostedSealed
<1>7. \A e \in unsent' \ sealed' : DigestOf(batch[e])' \notin posted' BY <1>6 DEF DigestOf
<1> QED BY <1>0, <1>4, <1>5, <1>7 DEF PostedSealed

LEMMA FramedHolds ==
  ASSUME TypeOK, Accounted, Batched, Read, UnansweredHeld,
         RowFrame, NetFrame, EditStep, PostFrame, HoldFrame
  PROVE  UnansweredHeld'
<1>0. made \in Nat /\ made' \in Nat /\ made <= made' BY MadeType DEF RowFrame
<1>1. unsent' \subseteq unsent /\ \A f \in unsent' : batch'[f] = batch[f] BY DEF NetFrame
<1>2. \A f \in unsent : batch[f].op \in Nat /\ batch[f].op <= made /\ batch[f].sent # None
  <2>1. \A f \in unsent : batch[f] \in Row /\ batch[f].sent = DigestOf(batch[f]) BY DEF Batched, TypeOK
  <2>2. \A row \in Row : row.op \in Nat /\ DigestOf(row) \in Digest BY DEF Row, DigestOf, Digest
  <2> QED BY <2>1, <2>2, Sentinels DEF Read
<1>3. ASSUME NEW n \in unanswered'
      PROVE  n <= made /\ (n \in unanswered \/
               (FallingBack /\ holds' = holds /\ \E f \in unsent : n = batch[f].op))
  BY <1>2 DEF HoldFrame, UnansweredHeld
<1>4. \A n \in unanswered' : n <= made'
  <2> SUFFICES ASSUME NEW n \in unanswered' PROVE n <= made' OBVIOUS
  <2>1. n <= made BY <1>3
  <2>2. n \in Nat
    <3>1. n \in unanswered \/ \E f \in unsent : n = batch[f].op BY <1>3
    <3> QED BY <1>2, <3>1 DEF TypeOK
  <2> QED BY <1>0, <2>1, <2>2
<1>5. ASSUME NEW e \in Pending', NEW n \in unanswered', n = outbox'[e].op PROVE outbox'[e].sent # None /\ HeldFor(e, n)'
  <2>1. n <= made BY <1>3
  <2>2. ~Born(e) BY <1>0, <1>5, <2>1 DEF Born
  <2>3. e \in Entity /\ Stays(e) /\ e \in Pending BY <2>2, RowCases DEF Linked, Touched, Stays, Pending
  <2>4. outbox'[e].op = outbox[e].op /\ outbox'[e].sent = outbox[e].sent BY <2>3 DEF Stays
  <2>5. CASE n \in unanswered
    <3>1. outbox[e].sent # None /\ HeldFor(e, n) BY <1>5, <2>3, <2>4, <2>5 DEF UnansweredHeld
    <3> QED BY <2>3, <2>4, <3>1 DEF HoldFrame
  <2>6. ASSUME FallingBack, NEW f \in unsent, n = batch[f].op PROVE outbox'[e].sent # None /\ HeldFor(e, n)'
    <3>1. e = f /\ outbox[e].sent = batch[f].sent BY <1>5, <2>3, <2>4, <2>6 DEF Read
    <3>2. HeldFor(e, n) BY <2>6, <3>1 DEF UnansweredHeld, Fell
    <3> QED BY <1>2, <2>3, <2>4, <3>1, <3>2 DEF HoldFrame
  <2> QED BY <1>3, <2>5, <2>6
<1>6. CASE FallingBack'
  <2>1. CASE FallingBack /\ holds' = holds
    <3>1. Fell BY <2>1 DEF UnansweredHeld
    <3>2. unsent' \cap sealed' = {} BY <1>1, <3>1 DEF Fell, PostFrame
    <3>3. \A e \in unsent' : HeldFor(e, batch[e].op)' BY <1>1, <2>1, <3>1 DEF Fell, HeldFor
    <3>4. Fell' BY <3>2, <3>3 DEF Fell
    <3> QED BY <1>4, <1>5, <1>6, <3>4 DEF UnansweredHeld, HeldFor
  <2>2. CASE Fell' BY <1>4, <1>5, <1>6, <2>2 DEF UnansweredHeld, HeldFor
  <2> QED BY <1>6, <2>1, <2>2 DEF HoldFrame
<1>7. CASE ~FallingBack'
  <2>1. \A e \in unsent' : batch'[e].op \notin unanswered'
    BY <1>1, <1>7 DEF HoldFrame, UnansweredHeld
  <2> QED BY <1>4, <1>5, <1>7, <2>1 DEF UnansweredHeld, HeldFor
<1> QED BY <1>6, <1>7

-----------------------------------------------------------------------------
(* The frames of the steps that allocate nothing. *)

LEMMA AsideTransport ==
  ASSUME UNCHANGED <<pc, current, unsent, batch, sealed, holds, posted, unanswered>>
  PROVE  PostFrame /\ HoldFrame
BY DEF PostFrame, HoldFrame, HeldFor, FallingBack

\* A push that is over v3, or not sent over v2 yet, keeps its holds.
LEMMA OverV3Transport ==
  ASSUME ~FallingBack, ~FallingBack', UNCHANGED <<holds, sealed>>, unanswered' \subseteq unanswered,
         posted' \subseteq posted \cup {DigestOf(batch[f]) : f \in unsent \ unsent'}
  PROVE  PostFrame /\ HoldFrame
BY DEF PostFrame, HoldFrame, HeldFor

\* A push that is over.
LEMMA EndsTransport ==
  ASSUME unsent' = {}, ~FallingBack', unanswered' \subseteq unanswered,
         \A h \in holds : h.op \in unanswered' /\ h.result = None => h \in holds',
         posted' \subseteq posted \cup {DigestOf(batch[f]) : f \in unsent}
  PROVE  PostFrame /\ HoldFrame
<1>1. \A e \in Entity : \A n \in unanswered' : HeldFor(e, n) => HeldFor(e, n)' BY DEF HeldFor
<1> QED BY <1>1 DEF PostFrame, HoldFrame

LEMMA PushTransport ==
  ASSUME IInv, TransportInv,
         StartV2 \/ SendChunk \/ SendFallback \/ ReceiveV3 \/ ReceiveFallback \/ ReceiveV2 \/ Finish
  PROVE  PostFrame /\ HoldFrame
<1>1. CASE StartV2
  <2>1. /\ pc = "idle" /\ pc' = "wait" /\ current'.via = "v2" /\ UNCHANGED <<holds, sealed>>
        /\ posted' \subseteq posted /\ unanswered' \subseteq unanswered
    BY <1>1 DEF StartV2, client, Forget
  <2> QED BY <2>1, OverV3Transport DEF FallingBack
<1>2. CASE SendChunk
  <2>1. /\ pc = "send" /\ pc' = "wait" /\ current'.via = "v3" /\ UNCHANGED <<holds, sealed, posted, unanswered>>
    BY <1>2 DEF SendChunk, client, history
  <2> QED BY <2>1, OverV3Transport DEF FallingBack
<1>3. CASE SendFallback
  <2>1. /\ pc = "fallback" /\ UNCHANGED <<holds, sealed, posted, unsent, batch>>
        /\ unanswered' = unanswered \cup {batch[e].op : e \in unsent}
        /\ pc' = "wait" /\ current'.via = "fallback"
    BY <1>3 DEF SendFallback, client
  <2> QED BY <2>1 DEF PostFrame, HoldFrame, HeldFor, FallingBack
<1>4. CASE ReceiveV3
  <2>1. /\ pc = "wait" /\ current.via = "v3" /\ current.todo = {} /\ pc' \in {"settle", "send"}
        /\ UNCHANGED <<holds, sealed, unanswered>>
        /\ posted' = posted \cup Exposed /\ unsent' = unsent \ Answered
    BY <1>4 DEF ReceiveV3, client
  <2>2. unsent \ unsent' = Answered BY <2>1 DEF Answered
  <2>3. Exposed = {DigestOf(batch[e]) : e \in Answered} BY <2>1 DEF Exposed
  <2> QED BY <2>1, <2>2, <2>3, OverV3Transport DEF FallingBack
<1>5. CASE ReceiveFallback
  <2>1. /\ unsent' = {} /\ pc' = "settle" /\ posted' = posted
        /\ unanswered' = unanswered \ {batch[e].op : e \in unsent}
        /\ holds' = {IF \E e \in unsent : h.op = batch[e].op
                     THEN [h EXCEPT !.result = answers[h.e]] ELSE h : h \in holds}
    BY <1>5 DEF ReceiveFallback
  <2>2. ASSUME NEW h \in holds, h.op \in unanswered' PROVE h \in holds'
    <3>1. ~\E e \in unsent : h.op = batch[e].op BY <2>1, <2>2
    <3> QED BY <2>1, <3>1
  <2> QED BY <2>1, <2>2, EndsTransport DEF FallingBack
<1>6. CASE ReceiveV2
  <2>1. /\ pc = "wait" /\ current.via = "v2" /\ pc' = "settle"
        /\ UNCHANGED <<holds, sealed, posted, unanswered>>
    BY <1>6 DEF ReceiveV2, client, history
  <2> QED BY <2>1, OverV3Transport DEF FallingBack
<1>7. CASE Finish
  <2>1. /\ unsent' = {} /\ pc' = "idle" /\ UNCHANGED <<posted, unanswered>>
        /\ holds' = {h \in holds : (\A e \in fromV2 : h.op # batch[e].op) \/ ~Settled(h)}
    BY <1>7 DEF Finish, PushEnds, history
  <2>2. \A h \in holds : h.result = None => h \in holds' BY <2>1 DEF Settled
  <2> QED BY <2>1, <2>2, EndsTransport DEF FallingBack
<1> QED BY <1>1, <1>2, <1>3, <1>4, <1>5, <1>6, <1>7

LEMMA DisabledTransport == ASSUME IInv, TransportInv, Disabled PROVE PostFrame /\ HoldFrame
<1> DEFINE rows == unsent \ sealed
           Fallback(e) == [e |-> e, op |-> batch[e].op, id |-> batch[e].id, sent |-> batch[e].sent,
                           retries |-> batch[e].retries, result |-> None]
<1>1. /\ unsent' = rows /\ pc' = (IF rows = {} THEN "settle" ELSE "fallback")
      /\ pc = "wait" /\ current.via = "v3" /\ UNCHANGED <<batch, sealed, posted, unanswered>>
      /\ holds' = {h \in holds : \A e \in rows : h.op # batch[e].op} \cup {Fallback(e) : e \in rows}
  BY DEF Disabled, history
<1>2. rows \subseteq unsent /\ rows \cap sealed = {} OBVIOUS
<1>3. \A e : Fallback(e).e = e /\ Fallback(e).op = batch[e].op /\ Fallback(e).result = None OBVIOUS
<1> HIDE DEF rows, Fallback
<1>4. ~FallingBack BY <1>1 DEF FallingBack
<1>5. \A e \in unsent : batch[e].op \notin unanswered BY <1>4 DEF TransportInv, UnansweredHeld
<1>6. \A h \in holds : h.op \in unanswered' => h \in holds' BY <1>1, <1>2, <1>5
<1>7. \A e \in Entity : \A n \in unanswered' : HeldFor(e, n) => HeldFor(e, n)' BY <1>6 DEF HeldFor
<1>8. Fell'
  <2>1. \A e \in unsent' : HeldFor(e, batch[e].op)'
    <3> SUFFICES ASSUME NEW e \in unsent' PROVE HeldFor(e, batch[e].op)' OBVIOUS
    <3>1. Fallback(e) \in holds' BY <1>1
    <3> QED BY <1>1, <1>3, <3>1 DEF HeldFor
  <2> QED BY <1>1, <1>2, <2>1 DEF Fell
<1>9. FallingBack' \/ unsent' = {} BY <1>1 DEF FallingBack
<1> QED BY <1>1, <1>7, <1>8, <1>9 DEF PostFrame, HoldFrame

\* A request that is given up exposes rows of this push only.
LEMMA InterruptTransport == ASSUME IInv, TransportInv, Interrupt PROVE PostFrame /\ HoldFrame
<1>1. unsent' = {} /\ pc' = "idle" /\ UNCHANGED <<holds, unanswered>> BY DEF Interrupt, PushEnds, client
<1>2. posted' \subseteq posted \cup {DigestOf(batch[f]) : f \in unsent}
  <2>1. CASE posted' = posted BY <2>1
  <2>2. CASE pc = "wait" /\ current.via = "v3" /\ posted' = posted \cup Exposed
    <3>1. \A o \in current.todo : o.e \in unsent /\ o = AsOp(o.e, batch[o.e])
      BY <2>2 DEF TransportInv, Carried
    <3>2. \A o \in current.todo : DigestOf(o) = DigestOf(batch[o.e]) BY <3>1 DEF AsOp, DigestOf
    <3>3. Exposed \subseteq {DigestOf(batch[f]) : f \in unsent} BY <3>1, <3>2 DEF Exposed, Answered
    <3> QED BY <2>2, <3>3
  <2> QED BY <2>1, <2>2 DEF Interrupt
<1> QED BY <1>1, <1>2, EndsTransport DEF FallingBack

LEMMA TransportFrames ==
  ASSUME IInv, TransportInv, [Next]_vars, ~StartV3 PROVE PostFrame /\ HoldFrame
<1>1. CASE User BY <1>1, AsideTransport DEF User, LoseDevice, Enqueue, Revoke, push, history
<1>2. CASE Push
  <2>1. ASSUME NEW e \in Entity, Settle(e) \/ Quarantine(e) \/ AutoResolve(e) PROVE PostFrame /\ HoldFrame
    BY <2>1, AsideTransport DEF Settle, Quarantine, AutoResolve, push, history
  <2> QED BY <1>2, <2>1, PushTransport DEF Push
<1>3. CASE Server
  <2>1. CASE Begin
    <3>1. /\ pc = "wait" /\ current.via = "v3" /\ current' = Begun(current)
          /\ UNCHANGED <<holds, pc, sealed, posted, unanswered>>
      BY <2>1 DEF Begin, client, history
    <3>2. current \in Request BY <3>1 DEF TypeOK, IInv
    <3>3. current'.via = "v3" BY <3>1, <3>2, BegunFields
    <3> QED BY <3>1, <3>3, OverV3Transport DEF FallingBack
  <2>2. ASSUME pc = "wait", NEW o \in current.todo, Handle(o) PROVE PostFrame /\ HoldFrame
    <3>1. /\ current' = [current EXCEPT !.todo = @ \ {o}]
          /\ UNCHANGED <<holds, pc, batch, unsent, sealed, posted, unanswered>>
      BY <2>2 DEF Handle, client
    <3>2. current \in Request BY <2>2 DEF TypeOK, IInv
    <3>3. current'.via = current.via BY <3>1, <3>2 DEF Request
    <3>4. FallingBack' <=> FallingBack BY <3>1, <3>3 DEF FallingBack
    <3> QED BY <3>1, <3>4 DEF PostFrame, HoldFrame, HeldFor
  <2>3. ASSUME NEW q, BeginLate(q) PROVE PostFrame /\ HoldFrame
    BY <2>3, AsideTransport DEF BeginLate, client, push, history
  <2>4. ASSUME NEW q, NEW o, HandleLate(q, o) PROVE PostFrame /\ HoldFrame
    BY <2>4, AsideTransport DEF HandleLate, client, push
  <2>5. ASSUME NEW e, OtherWrite(e) PROVE PostFrame /\ HoldFrame
    BY <2>5, AsideTransport DEF OtherWrite, client, push, history
  <2> QED BY <1>3, <2>1, <2>2, <2>3, <2>4, <2>5, DisabledTransport DEF Server
<1>4. CASE Interrupt BY <1>4, InterruptTransport
<1>5. CASE UNCHANGED vars BY <1>5, AsideTransport DEF vars, client, push, history
<1> QED BY <1>1, <1>2, <1>3, <1>4, <1>5 DEF Next

-----------------------------------------------------------------------------
(* Starting a push. *)

LEMMA AllocatedSent ==
  ASSUME TypeOK, OneOp, Devices, StartV3, NEW e \in Pending
  PROVE  /\ e \in Fresh(ToSend) => outbox'[e].sent = DigestOf(outbox[e]) /\ outbox'[e].id \in Ident
         /\ e \notin Fresh(ToSend) => outbox'[e].sent = outbox[e].sent /\ outbox'[e].id = outbox[e].id
<1>1. e \in Entity /\ outbox[e] \in Row BY ToSendFacts
<1>2. outbox'[e] = Allocated(ToSend)[e] BY StartV3Facts
<1> DEFINE id == NewId(e)
           sent == DigestOf(outbox[e])
<1>3. /\ e \in Fresh(ToSend) => outbox'[e] = [outbox[e] EXCEPT !.id = id, !.sent = sent] /\ id \in Ident
      /\ e \in Orphans => outbox'[e] = [outbox[e] EXCEPT !.retries = MaxRetries, !.blocked = "identity lost"]
      /\ e \notin Orphans \cup Fresh(ToSend) => outbox'[e] = outbox[e]
  BY <1>1, <1>2, AllocatedRow
<1> HIDE DEF id
<1>4. CASE e \in Fresh(ToSend)
  <2> HIDE DEF sent
  <2>1. outbox'[e].sent = sent /\ outbox'[e].id = id BY <1>1, <1>3, <1>4 DEF Row
  <2> QED BY <1>3, <1>4, <2>1 DEF sent
<1>5. CASE e \notin Fresh(ToSend)
  <2>1. outbox'[e] = [outbox[e] EXCEPT !.retries = MaxRetries, !.blocked = "identity lost"] \/ outbox'[e] = outbox[e]
    BY <1>3, <1>5
  <2> QED BY <1>1, <1>5, <2>1 DEF Row
<1> QED BY <1>4, <1>5

LEMMA StartV3Transport ==
  ASSUME IInv, EditInv, TransportInv, StartV3
  PROVE  Distinct' /\ Read' /\ PostedSealed' /\ UnansweredHeld'
<1> USE DEF IInv, PushInv, TransportInv
<1>1. /\ Pending' = Pending
      /\ \A e \in Pending : /\ outbox'[e] \in Row /\ outbox'[e].op = outbox[e].op
                            /\ outbox'[e].edits = outbox[e].edits
  BY AllocatedEdits DEF SameEdits
<1>2. /\ unsent' = ToSend /\ sealed' = ToSend \ Fresh(ToSend) /\ holds' = Kept
      /\ ~FallingBack' /\ made' = made
      /\ posted' \subseteq posted /\ unanswered' \subseteq unanswered
  BY StartV3Facts DEF FallingBack
<1>3. \A d \in posted' : \E e \in Pending : d = DigestOf(outbox[e]) BY DEF StartV3, Forget
<1>4. ToSend \subseteq Pending /\ Fresh(ToSend) \subseteq ToSend BY ToSendFacts
<1>5. \A e \in ToSend : batch'[e] = outbox'[e] /\ outbox'[e].sent = DigestOf(outbox'[e]) BY <1>2, SentRow
<1>6. \A e \in Pending : outbox[e] \in Row /\ DigestOf(outbox[e]) \in Digest /\ DigestOf(outbox[e]).edits = outbox[e].edits
  <2>1. \A row \in Row : DigestOf(row) \in Digest /\ DigestOf(row).edits = row.edits BY DEF DigestOf, Row, Digest
  <2> QED BY <2>1, ToSendFacts
<1>7. Distinct'
  <2>1. ASSUME NEW e \in Pending PROVE outbox'[e].id = None <=> outbox'[e].sent = None
    <3>1. CASE e \in Fresh(ToSend) BY <1>6, <3>1, AllocatedSent, Sentinels
    <3>2. CASE e \notin Fresh(ToSend) BY <3>2, AllocatedSent DEF Distinct
    <3> QED BY <3>1, <3>2
  <2>2. \A e, f \in Pending : outbox'[e].edits = outbox'[f].edits => e = f BY <1>1 DEF Distinct
  <2> QED BY <1>1, <1>2, <1>4, <1>5, <2>1, <2>2 DEF Distinct
<1>8. Read'
  <2> SUFFICES ASSUME NEW f \in ToSend
               PROVE  /\ batch'[f].op <= made'
                      /\ \A e \in Pending' :
                           /\ outbox'[e].edits = batch'[f].edits => outbox'[e].sent = batch'[f].sent
                           /\ outbox'[e].op = batch'[f].op => e = f /\ outbox'[e].sent = batch'[f].sent
    BY <1>2 DEF Read
  <2>1. f \in Pending /\ batch'[f] = outbox'[f] BY <1>4, <1>5
  <2>2. batch'[f].op <= made' BY <1>1, <1>2, <2>1 DEF OneOp
  <2>3. \A e \in Pending : outbox'[e].op = outbox'[f].op => e = f BY <1>1, <2>1 DEF OneOp
  <2>4. \A e \in Pending : outbox'[e].edits = outbox'[f].edits => e = f BY <1>1, <2>1 DEF Distinct
  <2> QED BY <1>1, <2>1, <2>2, <2>3, <2>4
<1>9. PostedSealed'
  <2>1. \A d \in posted' : d.edits \subseteq 1..made' BY <1>2 DEF PostedSealed
  <2>2. ASSUME NEW e \in Pending, NEW d \in posted', d.edits = outbox'[e].edits PROVE outbox'[e].sent = d
    <3>1. d.edits = outbox[e].edits /\ outbox[e].sent = d BY <1>1, <1>2, <2>2 DEF PostedSealed
    <3>2. PICK g \in Pending : d = DigestOf(outbox[g]) BY <1>3
    <3>3. g = e BY <1>6, <3>1, <3>2 DEF Distinct
    <3> QED BY <3>1, <3>2, <3>3, AllocatedSent
  <2>3. ASSUME NEW e \in Fresh(ToSend) PROVE DigestOf(batch[e])' \notin posted'
    <3>1. e \in Pending /\ e \in ToSend BY <1>4
    <3>2. DigestOf(batch[e])' = DigestOf(outbox[e])
      <4>1. DigestOf(batch[e])' = DigestOf(outbox'[e]) BY <1>5, <3>1 DEF DigestOf
      <4> QED BY <1>5, <3>1, <4>1, AllocatedSent
    <3>3. ASSUME DigestOf(outbox[e]) \in posted PROVE FALSE
      <4>1. outbox[e].sent = DigestOf(outbox[e]) BY <1>6, <3>1, <3>3 DEF PostedSealed
      <4>2. outbox[e].id # None BY <1>6, <3>1, <4>1, Sentinels DEF Distinct
      <4>3. Sealed(outbox[e]) BY <4>1, <4>2 DEF Sealed
      <4> QED BY <4>3 DEF Fresh
    <3> QED BY <1>2, <3>2, <3>3
  <2> QED BY <1>1, <1>2, <1>4, <2>1, <2>2, <2>3 DEF PostedSealed
<1>10. UnansweredHeld'
  <2>1. ASSUME NEW e \in Pending, outbox[e].op \in unanswered
        PROVE  outbox'[e].sent # None /\ \E h \in Kept : h.e = e /\ h.op = outbox[e].op /\ h.result = None
    <3>1. outbox[e].sent # None /\ HeldFor(e, outbox[e].op) BY <2>1 DEF UnansweredHeld
    <3>2. PICK h \in holds : h.e = e /\ h.op = outbox[e].op /\ h.result = None BY <3>1 DEF HeldFor
    <3>3. h \in Kept BY <1>6, <3>2, Sentinels DEF Kept, RowExists, Settled
    <3>4. outbox'[e].sent # None BY <1>6, <3>1, AllocatedSent, Sentinels
    <3> QED BY <3>2, <3>3, <3>4
  <2>2. \A e \in Pending' : outbox'[e].op \in unanswered' => outbox'[e].sent # None /\ HeldFor(e, outbox[e].op)'
    BY <1>1, <1>2, <2>1 DEF HeldFor
  <2>3. ASSUME NEW e \in ToSend PROVE batch'[e].op \notin unanswered'
    <3>1. e \in Pending /\ batch'[e].op = outbox[e].op BY <1>1, <1>4, <1>5
    <3>2. \A h \in Kept : h.op # outbox[e].op BY DEF ToSend
    <3> QED BY <1>2, <2>1, <3>1, <3>2
  <2>4. \A n \in unanswered' : n <= made' BY <1>2 DEF UnansweredHeld
  <2> QED BY <1>2, <2>2, <2>3, <2>4 DEF UnansweredHeld
<1> QED BY <1>7, <1>8, <1>9, <1>10

-----------------------------------------------------------------------------
(* What a request carries. *)

LEMMA CarriedKept == ASSUME IInv, TransportInv, [Next]_vars PROVE Carried'
<1> USE DEF IInv, PushInv, TransportInv
<1>1. ASSUME UNCHANGED <<pc, current, unsent, batch, posted, unanswered>> PROVE Carried'
  BY <1>1 DEF Carried, DigestOf, AsOp
<1>2. ASSUME pc' # "wait" PROVE Carried' BY <1>2 DEF Carried
<1>3. CASE User BY <1>1, <1>3 DEF User, LoseDevice, Enqueue, Revoke, push, history
<1>4. CASE Push
  <2>1. CASE StartV3 BY <1>2, <2>1, StartV3Facts
  <2>2. CASE StartV2
    <3> DEFINE send == {e \in Pending : Sendable(e) /\ outbox[e].sent = None}
               todo == {AsOp(e, outbox[e]) : e \in send}
    <3>1. /\ current' = [via |-> "v2", dev |-> 0, floor |-> 0, begun |-> TRUE, todo |-> todo]
          /\ posted' \subseteq posted /\ unanswered' \subseteq unanswered
      BY <2>2 DEF StartV2, Forget
    <3>2. ASSUME NEW o \in todo PROVE DigestOf(o) \notin posted /\ o.op \notin unanswered
      <4>1. PICK e \in send : o = AsOp(e, outbox[e]) OBVIOUS
      <4>2. o.op = outbox[e].op /\ DigestOf(o) = DigestOf(outbox[e]) BY <4>1 DEF AsOp, DigestOf
      <4>3. e \in Pending /\ outbox[e].sent = None /\ outbox[e] \in Row BY ToSendFacts
      <4>4. DigestOf(outbox[e]) \in Digest /\ DigestOf(outbox[e]).edits = outbox[e].edits
        BY <4>3 DEF DigestOf, Row, Digest
      <4>5. DigestOf(outbox[e]) \notin posted BY <4>3, <4>4, Sentinels DEF PostedSealed
      <4>6. outbox[e].op \notin unanswered BY <4>3 DEF UnansweredHeld
      <4> QED BY <4>2, <4>5, <4>6
    <3> HIDE DEF todo
    <3>3. current'.todo = todo /\ current'.via = "v2" BY <3>1
    <3>4. \A o \in todo : DigestOf(o)' = DigestOf(o) BY DEF DigestOf
    <3> QED BY <3>1, <3>2, <3>3, <3>4 DEF Carried
  <2>3. CASE SendChunk \/ SendFallback
    <3>1. /\ UNCHANGED <<unsent, batch>> /\ current'.via \in {"v3", "fallback"}
          /\ \E some \in SUBSET unsent : current'.todo = Ops(some)
      BY <2>3 DEF SendChunk, SendFallback
    <3>2. \A some \in SUBSET unsent : \A o \in Ops(some) : o.e \in unsent /\ o = AsOp(o.e, batch[o.e])
      BY DEF Ops, AsOp
    <3>3. \A o \in current'.todo : o.e \in unsent' /\ o = AsOp(o.e, batch[o.e])' BY <3>1, <3>2 DEF AsOp
    <3> QED BY <3>1, <3>3 DEF Carried
  <2>4. CASE ReceiveV3 \/ ReceiveFallback \/ ReceiveV2
    BY <1>2, <2>4 DEF ReceiveV3, ReceiveFallback, ReceiveV2
  <2>5. CASE Finish BY <1>2, <2>5 DEF Finish, PushEnds
  <2>6. ASSUME NEW e \in Entity, Settle(e) \/ Quarantine(e) \/ AutoResolve(e) PROVE Carried'
    BY <1>1, <2>6 DEF Settle, Quarantine, AutoResolve, push, history
  <2> QED BY <1>4, <2>1, <2>2, <2>3, <2>4, <2>5, <2>6 DEF Push
<1>5. CASE Server
  <2>1. ASSUME UNCHANGED <<pc, unsent, batch, posted, unanswered>>,
               current'.todo \subseteq current.todo, current'.via = current.via
        PROVE  Carried'
    BY <2>1 DEF Carried, DigestOf, AsOp
  <2>2. CASE Begin
    <3>1. /\ pc = "wait" /\ current' = Begun(current)
          /\ UNCHANGED <<pc, unsent, batch, posted, unanswered>>
      BY <2>2 DEF Begin, history
    <3>2. current \in Request BY <3>1 DEF TypeOK
    <3>3. current'.todo = current.todo /\ current'.via = current.via BY <3>1, <3>2, BegunFields
    <3> QED BY <2>1, <3>1, <3>3
  <2>3. CASE Disabled BY <1>2, <2>3 DEF Disabled
  <2>4. ASSUME pc = "wait", NEW o \in current.todo, Handle(o) PROVE Carried'
    <3>1. /\ current' = [current EXCEPT !.todo = @ \ {o}]
          /\ UNCHANGED <<pc, unsent, batch, posted, unanswered>>
      BY <2>4 DEF Handle
    <3>2. current \in Request BY <2>4 DEF TypeOK
    <3>3. current'.todo \subseteq current.todo /\ current'.via = current.via BY <3>1, <3>2 DEF Request
    <3> QED BY <2>1, <3>1, <3>3
  <2>5. ASSUME NEW q, BeginLate(q) PROVE Carried' BY <1>1, <2>5 DEF BeginLate, push, history
  <2>6. ASSUME NEW q, NEW o, HandleLate(q, o) PROVE Carried' BY <1>1, <2>6 DEF HandleLate, push
  <2>7. ASSUME NEW e, OtherWrite(e) PROVE Carried' BY <1>1, <2>7 DEF OtherWrite, push, history
  <2> QED BY <1>5, <2>2, <2>3, <2>4, <2>5, <2>6, <2>7 DEF Server
<1>6. CASE Interrupt BY <1>2, <1>6 DEF Interrupt, PushEnds
<1>7. CASE UNCHANGED vars BY <1>1, <1>7 DEF vars, push, history
<1> QED BY <1>3, <1>4, <1>5, <1>6, <1>7 DEF Next

LEMMA InitTransport == ASSUME Init PROVE TransportInv
<1>1. Pending = {} BY DEF Init, NoAnswers, Pending
<1> QED BY <1>1 DEF Init, TransportInv, Distinct, Read, PostedSealed, UnansweredHeld, FallingBack, Carried

LEMMA NextTransport == ASSUME IInv, EditInv, TransportInv, [Next]_vars PROVE TransportInv'
<1>1. Carried' BY CarriedKept
<1>2. CASE StartV3 BY <1>1, <1>2, StartV3Transport DEF TransportInv
<1>3. CASE ~StartV3
  <2>1. RowFrame /\ NetFrame BY <1>3, Frames DEF IInv, PushInv
  <2>2. PostFrame /\ HoldFrame BY <1>3, TransportFrames
  <2>3. EditStep BY StepEdits
  <2>4. Distinct' /\ Read' BY <2>1, <2>3, FramedRead DEF IInv, PushInv, EditInv, Memory, TransportInv
  <2>5. PostedSealed' BY <2>1, <2>2, <2>3, FramedPosted DEF IInv, PushInv, EditInv, Memory, TransportInv
  <2>6. UnansweredHeld' BY <2>1, <2>2, <2>3, FramedHolds DEF IInv, PushInv, EditInv, TransportInv
  <2> QED BY <1>1, <2>4, <2>5, <2>6 DEF TransportInv
<1> QED BY <1>2, <1>3

LEMMA CarriedOnce == ASSUME IInv, TransportInv PROVE OneTransport
<1> SUFFICES ASSUME current # None, NEW o \in current.todo
             PROVE  /\ current.via # "v3" => DigestOf(o) \notin posted
                    /\ current.via # "fallback" => o.op \notin unanswered
  BY DEF OneTransport
<1>1. pc = "wait" /\ current \in Request BY DEF IInv, TypeOK
<1>2. current.via \in {"v3", "v2", "fallback"} BY <1>1 DEF Request
<1>3. CASE current.via = "v2" BY <1>1, <1>3 DEF TransportInv, Carried
<1>4. CASE current.via # "v2"
  <2>1. o.e \in unsent /\ o = AsOp(o.e, batch[o.e]) BY <1>1, <1>4 DEF TransportInv, Carried
  <2>2. o.op = batch[o.e].op /\ DigestOf(o) = DigestOf(batch[o.e]) BY <2>1 DEF AsOp, DigestOf
  <2>3. CASE current.via = "v3"
    <3>1. ~FallingBack BY <1>1, <2>3 DEF FallingBack
    <3> QED BY <2>1, <2>2, <2>3, <3>1 DEF TransportInv, UnansweredHeld
  <2>4. CASE current.via = "fallback"
    <3>1. FallingBack BY <1>1, <2>4 DEF FallingBack
    <3>2. o.e \notin sealed BY <2>1, <3>1 DEF TransportInv, UnansweredHeld, Fell
    <3> QED BY <2>1, <2>2, <2>4, <3>2 DEF TransportInv, PostedSealed
  <2> QED BY <1>2, <1>4, <2>3, <2>4
<1> QED BY <1>3, <1>4

\* What the server may have over v3 never goes over v2, and what v2 was asked to do
\* as a fallback is not sent again before its result is there.
THEOREM OneTransportHolds == Spec => []OneTransport
<1>1. Init => EditInv /\ TransportInv BY InitEdits, InitTransport
<1>2. IInv /\ EditInv /\ TransportInv /\ [Next]_vars => EditInv' /\ TransportInv'
  BY NextEdits, NextTransport
<1>3. IInv /\ TransportInv => OneTransport BY CarriedOnce
<1> QED BY <1>1, <1>2, <1>3, PushInvariant, PTL DEF Spec

-----------------------------------------------------------------------------
(* The client is never turned away. *)

\* What is still to be sent has identities of this device that no floor has passed,
\* or will pass by a request under way.
Sending ==
  \A e \in unsent :
    /\ batch[e].id.dev = device.dev
    /\ \A p \in Floors : p.dev = device.dev => p.floor <= batch[e].id.seq

\* A request carries identities of the device it names.
OwnRequests == \A q \in V3Requests : \A o \in q.todo : o.id.dev = q.dev

\* Only what is below the floor was refused as retired.
RetiredLow == \A r \in decided : r.verdict = "retired" => r.id.seq < serverFloor[r.id.dev]

TurnInv == Sending /\ OwnRequests /\ RetiredLow

LEMMA StartV3Sending == ASSUME IInv, StartV3, IInv' PROVE Sending'
<1> SUFFICES ASSUME NEW e \in unsent'
             PROVE  /\ batch'[e].id.dev = device'.dev
                    /\ \A p \in Floors' : p.dev = device'.dev => p.floor <= batch'[e].id.seq
  BY DEF Sending
<1>1. TypeOK /\ OneOp /\ Devices /\ OwnDevice /\ FloorsLow' BY DEF IInv, PushInv
<1>2. e \in Numbered' /\ batch'[e] = outbox'[e] BY <1>1, SentRow
<1>3. e \in ToSend /\ e \in Entity BY <1>1, StartV3Facts, ToSendFacts
<1>4. outbox'[e].blocked = "no"
  <2>1. CASE e \in Fresh(ToSend) BY <1>1, <1>2, <2>1, RowIdentity
  <2>2. CASE e \notin Fresh(ToSend)
    <3>1. e \notin Orphans /\ outbox[e].blocked = "no" BY <1>1, <1>3, ToSendFacts
    <3>2. outbox'[e] = outbox[e] BY <1>1, <1>3, <2>2, <3>1, AllocatedRow, StartV3Facts
    <3> QED BY <3>1, <3>2
  <2> QED BY <2>1, <2>2
<1>5. outbox'[e].id.dev = device'.dev BY <1>1, <1>2, <1>4, StartV3OwnDevice DEF OwnDevice
<1>6. \A p \in Floors' : outbox'[e].id.dev = p.dev => p.floor <= outbox'[e].id.seq
  BY <1>1, <1>2 DEF FloorsLow
<1> QED BY <1>2, <1>5, <1>6

LEMMA FramedFloorSet == ASSUME RowFrame, NetFrame PROVE Floors' \subseteq Floors
<1>1. device'.dev = device.dev BY DEF RowFrame
<1> SUFFICES ASSUME NEW p \in Floors' PROVE p \in Floors OBVIOUS
<1>2. CASE \E q \in V3Requests' : p = FloorFor(q.dev, q.floor) BY <1>2 DEF NetFrame
<1>3. CASE \E d \in 0..MaxDevices : serverFloor'[d] > 0 /\ p = FloorFor(d, serverFloor'[d]) BY <1>3 DEF NetFrame
<1>4. CASE unsent' # {} /\ p = FloorFor(device'.dev, floor')
  <2>1. unsent # {} /\ p = FloorFor(device.dev, floor) BY <1>1, <1>4 DEF NetFrame
  <2> QED BY <2>1 DEF Floors
<1>5. \/ \E q \in V3Requests' : p = FloorFor(q.dev, q.floor)
      \/ \E d \in 0..MaxDevices : serverFloor'[d] > 0 /\ p = FloorFor(d, serverFloor'[d])
      \/ unsent' # {} /\ p = FloorFor(device'.dev, floor')
  BY DEF Floors, FloorFor
<1> QED BY <1>2, <1>3, <1>4, <1>5

LEMMA SendingKept == ASSUME IInv, Sending, [Next]_vars, IInv' PROVE Sending'
<1>1. CASE StartV3 BY <1>1, StartV3Sending
<1>2. CASE ~StartV3
  <2>1. RowFrame /\ NetFrame BY <1>2, Frames DEF IInv, PushInv
  <2>2. device'.dev = device.dev BY <2>1 DEF RowFrame
  <2>3. unsent' \subseteq unsent /\ \A e \in unsent' : batch'[e] = batch[e] BY <2>1 DEF NetFrame
  <2>4. Floors' \subseteq Floors BY <2>1, FramedFloorSet
  <2> QED BY <2>2, <2>3, <2>4 DEF Sending
<1> QED BY <1>1, <1>2

LEMMA OwnRequestsKept == ASSUME IInv, Sending, OwnRequests, [Next]_vars PROVE OwnRequests'
<1>1. ASSUME \A q \in V3Requests' : \E r \in V3Requests : q.dev = r.dev /\ q.todo \subseteq r.todo
      PROVE  OwnRequests'
  BY <1>1 DEF OwnRequests
<1>2. ASSUME UNCHANGED <<current, late>> PROVE OwnRequests' BY <1>2 DEF OwnRequests, V3Requests
<1>3. ASSUME current' = None \/ current'.via # "v3", UNCHANGED late PROVE OwnRequests'
  BY <1>1, <1>3 DEF V3Requests
<1>4. TypeOK /\ BegunUnlessV3 BY DEF IInv, PushInv
<1>5. CASE User BY <1>2, <1>5 DEF User, LoseDevice, Enqueue, Revoke, push
<1>6. CASE Push
  <2>1. CASE StartV3 BY <1>2, <2>1, StartV3Facts
  <2>2. CASE StartV2
    <3>1. current'.via = "v2" /\ UNCHANGED late BY <2>2 DEF StartV2
    <3> QED BY <1>3, <3>1
  <2>3. CASE SendChunk
    <3>1. PICK chunk \in (SUBSET unsent) \ {{}} :
            current' = [via |-> "v3", dev |-> device.dev, floor |-> floor, begun |-> FALSE, todo |-> Ops(chunk)]
      BY <2>3 DEF SendChunk
    <3>2. UNCHANGED late BY <2>3 DEF SendChunk
    <3>3. ASSUME NEW o \in current'.todo PROVE o.id.dev = current'.dev
      <4>1. PICK e \in chunk : o = AsOp(e, batch[e]) BY <3>1, <3>3 DEF Ops
      <4>2. o.id = batch[e].id /\ e \in unsent BY <4>1 DEF AsOp
      <4> QED BY <3>1, <4>2 DEF Sending
    <3>4. \A q \in V3Requests' : q \in V3Requests \/ q = current' BY <3>2 DEF V3Requests
    <3> QED BY <3>3, <3>4 DEF OwnRequests
  <2>4. CASE SendFallback
    <3>1. current'.via = "fallback" /\ UNCHANGED late BY <2>4 DEF SendFallback
    <3> QED BY <1>3, <3>1
  <2>5. CASE ReceiveV3 \/ ReceiveFallback \/ ReceiveV2
    BY <1>3, <2>5 DEF ReceiveV3, ReceiveFallback, ReceiveV2
  <2>6. CASE Finish BY <1>3, <2>6 DEF Finish, PushEnds
  <2>7. ASSUME NEW e \in Entity, Settle(e) \/ Quarantine(e) \/ AutoResolve(e) PROVE OwnRequests'
    BY <1>2, <2>7 DEF Settle, Quarantine, AutoResolve, push
  <2> QED BY <1>6, <2>1, <2>2, <2>3, <2>4, <2>5, <2>6, <2>7 DEF Push
<1>7. CASE Server
  <2>1. CASE Begin
    <3>1. current \in Request /\ current \in V3Requests /\ current' = Begun(current) /\ UNCHANGED late
      BY <1>4, <2>1, Sentinels DEF Begin, TypeOK, V3Requests
    <3>2. current'.dev = current.dev /\ current'.todo = current.todo BY <3>1, BegunFields
    <3>3. \A q \in V3Requests' : q \in V3Requests \/ q = current' BY <3>1 DEF V3Requests
    <3> QED BY <1>1, <3>1, <3>2, <3>3
  <2>2. CASE Disabled BY <1>3, <2>2 DEF Disabled
  <2>3. ASSUME pc = "wait", NEW o \in current.todo, Handle(o) PROVE OwnRequests'
    <3>1. current \in Request /\ current # None BY <1>4, <2>3 DEF TypeOK
    <3>2. current' = [current EXCEPT !.todo = @ \ {o}] /\ UNCHANGED late BY <2>3 DEF Handle
    <3>3. current'.dev = current.dev /\ current'.via = current.via /\ current'.todo \subseteq current.todo
      BY <3>1, <3>2 DEF Request
    <3>4. \A q \in V3Requests' : q \in V3Requests \/ (q = current' /\ current \in V3Requests)
      BY <3>1, <3>2, <3>3 DEF V3Requests
    <3> QED BY <1>1, <3>3, <3>4
  <2>4. ASSUME NEW q \in late, BeginLate(q) PROVE OwnRequests'
    <3>1. q \in Request /\ q \in V3Requests
      BY <1>4, <2>4 DEF TypeOK, BeginLate, BegunUnlessV3, UnderWay, V3Requests
    <3>2. late' = (late \ {q}) \cup {Begun(q)} /\ current' = current BY <2>4 DEF BeginLate, push
    <3>3. Begun(q).dev = q.dev /\ Begun(q).todo = q.todo BY <3>1, BegunFields
    <3>4. \A r \in V3Requests' : r \in V3Requests \/ r = Begun(q) BY <3>2 DEF V3Requests
    <3> QED BY <1>1, <3>1, <3>3, <3>4
  <2>5. ASSUME NEW q \in late, NEW o \in q.todo, HandleLate(q, o) PROVE OwnRequests'
    <3> DEFINE left == [q EXCEPT !.todo = @ \ {o}]
    <3>1. q \in Request BY <1>4 DEF TypeOK
    <3>2. late' \subseteq late \cup {left} /\ current' = current BY <2>5 DEF HandleLate, push
    <3>3. left.dev = q.dev /\ left.via = q.via /\ left.todo \subseteq q.todo BY <3>1 DEF Request
    <3> HIDE DEF left
    <3>4. \A r \in V3Requests' : r \in V3Requests \/ (r = left /\ q \in V3Requests)
      BY <3>2, <3>3 DEF V3Requests
    <3> QED BY <1>1, <3>3, <3>4
  <2>6. ASSUME NEW e, OtherWrite(e) PROVE OwnRequests' BY <1>2, <2>6 DEF OtherWrite, push
  <2> QED BY <1>7, <2>1, <2>2, <2>3, <2>4, <2>5, <2>6 DEF Server
<1>8. CASE Interrupt
  <2>1. current' = None /\ late' \subseteq UnderWay BY <1>4, <1>8 DEF Interrupt, PushEnds, UnderWay, TypeOK
  <2>2. V3Requests' \subseteq V3Requests BY <2>1 DEF V3Requests, UnderWay
  <2> QED BY <1>1, <2>2
<1>9. CASE UNCHANGED vars BY <1>2, <1>9 DEF vars, push
<1> QED BY <1>5, <1>6, <1>7, <1>8, <1>9 DEF Next

\* One operation is handled: what is refused is below the floor of its device.
LEMMA ProcessRetired ==
  ASSUME RetiredLow, OwnRequests, NEW q, NEW o \in q.todo, q.via = "v3" => q \in V3Requests,
         NEW verdict, Process(q, o, verdict), UNCHANGED serverFloor
  PROVE  RetiredLow'
<1>1. CASE decided' = decided BY <1>1 DEF RetiredLow
<1>2. CASE q.via = "v3" /\ Decide(q, o, verdict)
  <2>1. verdict # "retired" BY <1>2 DEF Decide
  <2>2. Outcome(o, verdict).verdict # "retired" BY <2>1 DEF Outcome
  <2>3. decided' = decided \cup {Outcome(o, verdict)} BY <1>2 DEF Decide
  <2> QED BY <2>2, <2>3 DEF RetiredLow
<1>3. CASE q.via = "v3" /\ RefuseRetired(q, o, verdict)
  <2>1. o.id.seq < serverFloor[q.dev] BY <1>3 DEF RefuseRetired, Retired
  <2>2. o.id.dev = q.dev BY <1>3 DEF OwnRequests
  <2>3. Outcome(o, verdict).id = o.id BY DEF Outcome
  <2>4. decided' \subseteq decided \cup {Outcome(o, verdict)} BY <1>3 DEF RefuseRetired
  <2> QED BY <2>1, <2>2, <2>3, <2>4 DEF RetiredLow
<1> QED BY <1>1, <1>2, <1>3 DEF Process, ReplayReceipt, RollBack, DispatchV2

\* The floor of a device only rises.
LEMMA RaisedRetired ==
  ASSUME IInv, RetiredLow, NEW q \in Request, serverFloor' = Raised(q), decided' = decided
  PROVE  RetiredLow'
<1>1. \A d \in 0..MaxDevices : serverFloor[d] \in Nat /\ serverFloor'[d] \in Nat /\ serverFloor[d] <= serverFloor'[d]
  <2> TAKE d \in 0..MaxDevices
  <2>1. q.floor \in Nat /\ serverFloor[d] \in Nat BY DEF Request, IInv, TypeOK
  <2>2. serverFloor'[d] = serverFloor[d] \/ (d = q.dev /\ serverFloor'[d] = q.floor /\ q.floor > serverFloor[d])
    BY DEF Raised, IInv, TypeOK
  <2> QED BY <2>1, <2>2
<1>2. ASSUME NEW r \in decided PROVE r.id.seq \in Nat /\ r.id.dev \in 0..MaxDevices
  <2>1. r.id \in Ident BY DEF IInv, TypeOK
  <2>2. Claim(r) \in Claims /\ Claim(r).id = r.id BY ClaimedDecisions DEF Claim
  <2>3. Used(r.id) BY <2>2 DEF IInv, PushInv, OneClaim
  <2>4. r.id.dev \in Nat /\ r.id.seq \in Nat /\ device.dev \in Nat BY <2>1 DEF Ident, IInv, TypeOK
  <2>5. r.id.dev <= device.dev BY <2>3, <2>4 DEF Used
  <2> QED BY <2>4, <2>5, PushConstants DEF IInv, PushInv, Devices
<1>3. SUFFICES ASSUME NEW r \in decided, r.verdict = "retired" PROVE r.id.seq < serverFloor'[r.id.dev]
  BY DEF RetiredLow
<1>4. r.id.seq < serverFloor[r.id.dev] BY <1>3 DEF RetiredLow
<1> QED BY <1>1, <1>2, <1>4

LEMMA RetiredKept == ASSUME IInv, OwnRequests, RetiredLow, [Next]_vars PROVE RetiredLow'
<1>1. ASSUME UNCHANGED <<decided, serverFloor>> PROVE RetiredLow' BY <1>1 DEF RetiredLow
<1>2. TypeOK /\ BegunUnlessV3 BY DEF IInv, PushInv
<1>3. CASE User BY <1>1, <1>3 DEF User, LoseDevice, Enqueue, Revoke, server
<1>4. CASE Push
  <2>1. CASE StartV3 BY <1>1, <2>1, StartV3Facts DEF server
  <2>2. CASE StartV2 \/ SendChunk \/ SendFallback
    BY <1>1, <2>2 DEF StartV2, SendChunk, SendFallback, server
  <2>3. CASE ReceiveV3 \/ ReceiveFallback \/ ReceiveV2
    BY <1>1, <2>3 DEF ReceiveV3, ReceiveFallback, ReceiveV2, server
  <2>4. CASE Finish BY <1>1, <2>4 DEF Finish, server
  <2>5. ASSUME NEW e \in Entity, Settle(e) \/ Quarantine(e) \/ AutoResolve(e) PROVE RetiredLow'
    BY <1>1, <2>5 DEF Settle, Quarantine, AutoResolve, server
  <2> QED BY <1>4, <2>1, <2>2, <2>3, <2>4, <2>5 DEF Push
<1>5. CASE Server
  <2>1. CASE Begin
    <3>1. current \in Request BY <1>2, <2>1, Sentinels DEF Begin, TypeOK
    <3> QED BY <2>1, <3>1, RaisedRetired DEF Begin
  <2>2. CASE Disabled BY <1>1, <2>2 DEF Disabled, server
  <2>3. ASSUME pc = "wait", NEW o \in current.todo, Handle(o) PROVE RetiredLow'
    <3>1. PICK verdict : Process(current, o, verdict) BY <2>3 DEF Handle
    <3>2. current.via = "v3" => current \in V3Requests BY <1>2, <2>3 DEF TypeOK, V3Requests
    <3>3. UNCHANGED serverFloor BY <2>3 DEF Handle
    <3> QED BY <3>1, <3>2, <3>3, ProcessRetired
  <2>4. ASSUME NEW q \in late, BeginLate(q) PROVE RetiredLow'
    BY <1>2, <2>4, RaisedRetired DEF BeginLate, TypeOK
  <2>5. ASSUME NEW q \in late, NEW o \in q.todo, HandleLate(q, o) PROVE RetiredLow'
    <3>1. PICK verdict : Process(q, o, verdict) BY <2>5 DEF HandleLate
    <3>2. q.via = "v3" => q \in V3Requests BY DEF V3Requests
    <3>3. UNCHANGED serverFloor BY <2>5 DEF HandleLate
    <3> QED BY <3>1, <3>2, <3>3, ProcessRetired
  <2>6. ASSUME NEW e \in Entity, OtherWrite(e) PROVE RetiredLow' BY <1>1, <2>6 DEF OtherWrite
  <2> QED BY <1>5, <2>1, <2>2, <2>3, <2>4, <2>5, <2>6 DEF Server
<1>6. CASE Interrupt BY <1>1, <1>6 DEF Interrupt, server
<1>7. CASE UNCHANGED vars BY <1>1, <1>7 DEF vars, server
<1> QED BY <1>3, <1>4, <1>5, <1>6, <1>7 DEF Next

LEMMA InitTurn == ASSUME Init PROVE TurnInv
BY DEF Init, TurnInv, Sending, OwnRequests, RetiredLow, V3Requests

LEMMA NextTurn == ASSUME IInv, TurnInv, [Next]_vars PROVE TurnInv'
<1>1. IInv' BY NextIInv
<1> QED BY <1>1, SendingKept, OwnRequestsKept, RetiredKept DEF TurnInv

LEMMA TurnGives == ASSUME IInv, TransportInv, TurnInv PROVE NeverTurnedAway
<1> SUFFICES ASSUME pc = "wait", current.via = "v3", NEW o \in current.todo
             PROVE  /\ ~Retired(current, o)
                    /\ \A r \in Receipt(o) : r.edits = o.edits /\ r.base = o.base /\ r.verdict # "retired"
  BY DEF NeverTurnedAway
<1>1. current \in Request /\ current \in V3Requests BY DEF IInv, TypeOK, V3Requests
<1>2. o.e \in unsent /\ o.id = batch[o.e].id BY DEF TransportInv, Carried, AsOp
<1>3. o.id \in Ident /\ o.id.dev = current.dev /\ o.id.dev = device.dev
  BY <1>1, <1>2, ClaimedOp DEF IInv, PushInv, TurnInv, Sending, OwnRequests
<1>4. current.dev \in 0..MaxDevices BY <1>1, RequestDevice DEF IInv, PushInv
<1>5. serverFloor[current.dev] \in Nat /\ o.id.seq \in Nat BY <1>3, <1>4 DEF IInv, TypeOK, Ident
<1>6. ~(o.id.seq < serverFloor[current.dev])
  <2>1. CASE serverFloor[current.dev] > 0
    <3>1. FloorFor(current.dev, serverFloor[current.dev]) \in Floors BY <1>4, <2>1 DEF Floors
    <3>2. serverFloor[current.dev] <= o.id.seq
      BY <1>2, <1>3, <3>1 DEF TurnInv, Sending, FloorFor
    <3> QED BY <1>5, <3>2
  <2> QED BY <1>5, <2>1
<1>7. ASSUME NEW r \in Receipt(o) PROVE r.edits = o.edits /\ r.base = o.base /\ r.verdict # "retired"
  <2>1. r \in decided /\ r.id = o.id BY <1>7 DEF Receipt
  <2>2. r \in Sent /\ o \in Sent BY <1>1, <2>1 DEF Sent
  <2>3. r.edits = o.edits /\ r.base = o.base
    BY <2>1, <2>2, ClaimsGiveRequests DEF OneRequestPerIdentity
  <2>4. r.verdict # "retired" BY <1>3, <1>6, <2>1 DEF TurnInv, RetiredLow
  <2> QED BY <2>3, <2>4
<1> QED BY <1>6, <1>7 DEF Retired

\* No operation that the client waits for meets a floor or a receipt that turns it
\* away: "invalid" is never the server's answer to an identity, for any number of
\* entities, edits, devices and late requests.
THEOREM NeverTurnedAwayHolds == Spec => []NeverTurnedAway
<1>1. Init => EditInv /\ TransportInv /\ TurnInv BY InitEdits, InitTransport, InitTurn
<1>2. IInv /\ EditInv /\ TransportInv /\ TurnInv /\ [Next]_vars => EditInv' /\ TransportInv' /\ TurnInv'
  BY NextEdits, NextTransport, NextTurn
<1>3. IInv /\ TransportInv /\ TurnInv => NeverTurnedAway BY TurnGives
<1> QED BY <1>1, <1>2, <1>3, PushInvariant, PTL DEF Spec
=============================================================================
