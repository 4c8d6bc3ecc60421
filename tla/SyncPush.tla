------------------------------ MODULE SyncPush ------------------------------
(***************************************************************************)
(* The push half of a mobile client: the outbox of pending edits, the      *)
(* identity each row is sent under, the retirement floor, the fallback to  *)
(* v2 when the server disables v3 in the middle of a push, and how answers *)
(* are settled against rows that may have been edited meanwhile.           *)
(*                                                                         *)
(* The server is SyncOps as its abstract specification describes it: an    *)
(* identity is decided once, or refused as retired and never decided.  A   *)
(* request that began before the floor was raised may have looked at it    *)
(* then, and still commit.                                                 *)
(* Requests the client gave up on may still be handled, later or never;    *)
(* the application may be stopped between any two steps of a push.         *)
(***************************************************************************)
EXTENDS Integers, FiniteSets

CONSTANTS
  Entity,
  Kind,        \* [Entity -> {"task", "session", "node"}]: how conflicts are handled
  MaxEdits,
  MaxRetries,  \* 5 in the code
  MaxDevices,  \* how often the device identity may be lost, plus one
  MaxLate,     \* the requests given up that are still under way
  MaxVersion,  \* bounds the writes to a row, those of other clients included
  ChunkSize,   \* SYNC_V3_MAX_OPS_PER_REQUEST
  NoBase,      \* a row that was created here, or has no version to compare
  None

ASSUME PushConstants ==
  /\ IsFiniteSet(Entity)
  /\ Kind \in [Entity -> {"task", "session", "node"}]
  /\ MaxRetries \in Nat \ {0}
  /\ {MaxEdits, MaxDevices, MaxLate, MaxVersion, ChunkSize} \subseteq Nat
  /\ NoBase \notin Nat

VARIABLES
  \* durable on the device
  outbox,      \* per entity, the row waiting to be sent, or None
  holds,       \* v2 fallback holds
  device,      \* device_id and next_op_seq; known is FALSE when they were lost
  \* the push under way
  pc,
  batch,       \* per entity, the row as it was read to be sent, or None
  unsent,      \* the entities whose row has not been sent in this push
  sealed,      \* sealedOpIds
  floor,       \* the retirement floor of this push
  current,     \* the request being waited for, or None
  answers,     \* per entity, the result of its row, or None
  toSettle,    \* the entities whose result is not settled
  toBlock,     \* the entities whose row is to be quarantined
  fromV2,      \* the entities whose result came from a fallback
  \* server and network
  version,     \* per entity, its updated_at on the server
  decided,     \* per identity, the decision of its receipt, or that it was refused as
               \* retired: then it has no receipt and will not get one
  serverFloor, \* per device
  late,        \* requests the client no longer waits for
  \* history
  made,        \* how many edits were made
  dropped,     \* edits given up explicitly
  landed,      \* edits that took effect on the server
  posted,      \* of the rows in the outbox, the digests sent over v3 in a request not
               \* answered by "disabled"
  unanswered   \* op_ids sent as a fallback, with no result received

client == <<outbox, holds, device>>
push == <<pc, batch, unsent, sealed, floor, current, answers, toSettle, toBlock, fromV2>>
server == <<version, decided, serverFloor>>
history == <<dropped, landed, posted, unanswered>>
vars == <<client, push, server, late, made, history>>

-----------------------------------------------------------------------------
Ident == [dev : Nat, seq : Nat]
Digest == [edits : SUBSET Nat, base : Nat \cup {NoBase}]
Row == [op : Nat, edits : SUBSET Nat, base : Nat \cup {NoBase},
        id : Ident \cup {None}, sent : Digest \cup {None},
        retries : 0..MaxRetries, error : {"none", "error", "conflict"},
        blocked : {"no", "rejected", "identity lost", "revoked"}]
Answer == [status : {"ok", "conflict", "error"}, version : Nat, terminal : BOOLEAN]
Hold == [e : Entity, op : Nat, id : Ident, sent : Digest, retries : 0..MaxRetries,
         result : Answer \cup {None}]
Decision == {"applied", "stale", "refused", "retired"}
Op == [e : Entity, op : Nat, edits : SUBSET Nat, base : Nat \cup {NoBase}, id : Ident \cup {None}]
Request == [via : {"v3", "v2", "fallback"}, dev : Nat, floor : Nat, begun : BOOLEAN, todo : SUBSET Op]

ASSUME PushSentinel == None \notin Ident \cup Digest \cup Row \cup Answer \cup Request

Pending == {e \in Entity : outbox[e] # None}

\* outboxV3Digest
DigestOf(row) == [edits |-> row.edits, base |-> row.base]

\* isSendable
Sendable(e) ==
  LET row == outbox[e] IN
  /\ row.blocked = "no"
  /\ Kind[e] = "task" => row.error # "conflict"
  /\ row.retries < MaxRetries \/ row.error = "conflict"

\* Mutant: a row that was changed keeps its identity.
SealedById(row) == row.id # None

\* hasSealedV3Identity: the row was sent under this identity as it is now.
Sealed(row) == row.id # None /\ row.sent = DigestOf(row)

\* outboxMutationSnapshotCondition: everything but the identity it is sent under.
SameSnapshot(a, b) ==
  /\ a # None /\ b # None
  /\ a.op = b.op /\ a.edits = b.edits /\ a.base = b.base
  /\ a.retries = b.retries /\ a.error = b.error /\ a.blocked = b.blocked

\* matchesV2FallbackHold
Matches(row, h) ==
  row # None /\ row.op = h.op /\ row.id = h.id /\ row.sent = h.sent /\ DigestOf(row) = h.sent

\* Mutant: a result for a row that was edited meanwhile is kept.
SettledByRetries(h) ==
  /\ h.result # None
  /\ outbox[h.e] = None \/ (h.result.status # "ok" /\ outbox[h.e].retries > h.retries)

\* isV2FallbackResultSettled
Settled(h) ==
  /\ h.result # None
  /\ \/ ~Matches(outbox[h.e], h)
     \/ h.result.status # "ok" /\ outbox[h.e].retries > h.retries

RowExists(h) == outbox[h.e] # None /\ outbox[h.e].op = h.op

\* convertV3Result, and the results of v2, which never quarantine.
AnswerTo(verdict, e, via) ==
  [status |-> CASE verdict = "applied" -> "ok"
                [] verdict = "stale" -> "conflict"
                [] OTHER -> "error",
   version |-> version'[e],
   terminal |-> via = "v3" /\ verdict \in {"refused", "retired", "invalid"}]

NoAnswers == [e \in Entity |-> None]
OneMore(retries) == IF retries < MaxRetries THEN retries + 1 ELSE retries
AsOp(e, row) == [e |-> e, op |-> row.op, edits |-> row.edits, base |-> row.base, id |-> row.id]
Ops(some) == {AsOp(e, batch[e]) : e \in some}

\* The push is over, or stopped: nothing of it is left in memory.
PushEnds ==
  /\ pc' = "idle" /\ floor' = 0 /\ current' = None
  /\ batch' = NoAnswers /\ answers' = NoAnswers
  /\ unsent' = {} /\ sealed' = {} /\ toSettle' = {} /\ toBlock' = {} /\ fromV2' = {}

-----------------------------------------------------------------------------
(* The user and the mirror *)

\* enqueueOutbox: an edit is merged into the row that waits, or makes a new one.
\* The base of a new row is the version the mirror has.
Enqueue(e) ==
  /\ made < MaxEdits
  /\ made' = made + 1
  /\ \/ /\ outbox[e] # None
        /\ outbox' = [outbox EXCEPT ![e].edits = @ \cup {made'}, ![e].error = "none", ![e].retries = 0]
     \/ /\ outbox[e] = None
        /\ \E base \in {version[e], NoBase} :
             outbox' = [outbox EXCEPT ![e] =
               [op |-> made', edits |-> {made'}, base |-> base, id |-> None, sent |-> None,
                retries |-> 0, error |-> "none", blocked |-> "no"]]
  /\ UNCHANGED <<holds, device, push, server, late, history>>

\* The scope of a row is revoked: its pending operation is quarantined.
Revoke(e) ==
  /\ Kind[e] = "node"
  /\ outbox[e] # None
  /\ outbox' = [outbox EXCEPT ![e].retries = MaxRetries, ![e].error = "error", ![e].blocked = "revoked"]
  /\ UNCHANGED <<holds, device, push, server, late, made, history>>

\* autoResolveStuckOutbox, around a push: a stuck row is adopted or discarded.
Stuck(row) == row.blocked # "no" \/ row.error = "conflict" \/ row.retries >= MaxRetries

AutoResolve(e) ==
  /\ pc = "idle"
  /\ outbox[e] # None
  /\ Stuck(outbox[e])
  /\ outbox' = [outbox EXCEPT ![e] = None]
  /\ dropped' = dropped \cup outbox[e].edits
  /\ UNCHANGED <<holds, device, push, server, late, made, landed, posted, unanswered>>

\* The device identity in sync_state is lost.
LoseDevice ==
  /\ device.known
  /\ device.dev + 1 < MaxDevices
  /\ device' = [device EXCEPT !.known = FALSE]
  /\ UNCHANGED <<outbox, holds, push, server, late, made, history>>

-----------------------------------------------------------------------------
(* allocateV3OpIdentitiesInWriter, in the transaction that starts a push *)

\* Mutant: the numbers start again, under the same device_id.
DeviceRestarts == IF device.known THEN device ELSE [device EXCEPT !.next = 0, !.known = TRUE]

Device == IF device.known THEN device ELSE [dev |-> device.dev + 1, next |-> 0, known |-> TRUE]

\* The rows sent under a device that was lost are quarantined.
Orphans == IF device.known THEN {} ELSE {e \in Pending : outbox[e].id # None /\ outbox[e].blocked = "no"}

\* A row that is new or was changed gets the next number, in the order of creation.
Fresh(send) == {e \in send : ~Sealed(outbox[e])}
SeqFor(e, send) == Device.next + Cardinality({x \in Fresh(send) : outbox[x].op < outbox[e].op})

Allocated(send) ==
  [e \in Entity |->
    IF e \in Orphans
    THEN [outbox[e] EXCEPT !.retries = MaxRetries, !.blocked = "identity lost"]
    ELSE IF e \in Fresh(send)
    THEN [outbox[e] EXCEPT !.id = [dev |-> Device.dev, seq |-> SeqFor(e, send)],
                           !.sent = DigestOf(outbox[e])]
    ELSE outbox[e]]

\* Mutant: rows that are not retried any more do not count.
FloorOverRetried(rows, next) ==
  LET seqs == {rows[e].id.seq : e \in {x \in Entity : rows[x] # None /\ rows[x].id # None
                                                     /\ rows[x].retries < MaxRetries}}
  IN IF seqs = {} THEN next ELSE CHOOSE n \in seqs : \A m \in seqs : n <= m

\* The lowest number of a row that is left, blocked ones included.
FloorOver(rows, next) ==
  LET seqs == {rows[e].id.seq : e \in {x \in Entity : /\ rows[x] # None
                                                     /\ rows[x].id # None
                                                     /\ rows[x].blocked # "identity lost"}}
  IN IF seqs = {} THEN next ELSE CHOOSE n \in seqs : \A m \in seqs : n <= m

\* The history is kept for the rows that are still there.
Forget ==
  /\ posted' = posted \cap {DigestOf(outbox[e]) : e \in Pending}
  /\ unanswered' = unanswered \cap {outbox[e].op : e \in Pending}

\* pushOutboxViaV3: a hold is dropped when its row is gone or its result is
\* settled; a result that is not settled is replayed; a held row is not sent.
StartV3 ==
  /\ pc = "idle"
  /\ \E e \in Pending : Sendable(e)
  /\ LET kept == {h \in holds : RowExists(h) /\ ~Settled(h)}
         replayed == {h \in kept : h.result # None /\ Sendable(h.e) /\ Matches(outbox[h.e], h)}
         send == {e \in Pending : Sendable(e) /\ \A h \in kept : h.op # outbox[e].op} \ Orphans
         rows == Allocated(send)
     IN /\ holds' = kept
        /\ outbox' = rows
        /\ device' = [Device EXCEPT !.next = @ + Cardinality(Fresh(send))]
        /\ batch' = [e \in Entity |-> CASE e \in send -> rows[e]
                                      [] \E h \in replayed : h.e = e -> outbox[e]
                                      [] OTHER -> None]
        /\ unsent' = send
        /\ sealed' = send \ Fresh(send)
        /\ floor' = FloorOver(rows, Device.next + Cardinality(Fresh(send)))
        /\ answers' = [e \in Entity |->
             IF \E h \in replayed : h.e = e THEN (CHOOSE h \in replayed : h.e = e).result ELSE None]
        /\ toSettle' = {h.e : h \in replayed}
        /\ fromV2' = {h.e : h \in replayed}
        /\ toBlock' = {}
  /\ pc' = IF unsent' = {} THEN "settle" ELSE "send"
  /\ Forget
  /\ UNCHANGED <<current, server, late, made, dropped, landed>>

\* In v2 mode only rows that were never sent over v3 are sent, in one request.
StartV2 ==
  /\ pc = "idle"
  /\ LET send == {e \in Pending : Sendable(e) /\ outbox[e].sent = None} IN
     /\ send # {}
     /\ batch' = [e \in Entity |-> IF e \in send THEN outbox[e] ELSE None]
     /\ current' = [via |-> "v2", dev |-> 0, floor |-> 0, begun |-> TRUE,
                    todo |-> {AsOp(e, outbox[e]) : e \in send}]
  /\ pc' = "wait"
  /\ Forget
  /\ UNCHANGED <<client, unsent, sealed, floor, answers, toSettle, toBlock, fromV2,
                 server, late, made, dropped, landed>>

-----------------------------------------------------------------------------
(* Requests *)

SendChunk ==
  /\ pc = "send"
  /\ \E chunk \in (SUBSET unsent) \ {{}} :
       /\ Cardinality(chunk) <= ChunkSize
       /\ current' = [via |-> "v3", dev |-> device.dev, floor |-> floor, begun |-> FALSE, todo |-> Ops(chunk)]
  /\ pc' = "wait"
  /\ UNCHANGED <<client, batch, unsent, sealed, floor, answers, toSettle, toBlock, fromV2,
                 server, late, made, history>>

\* The server reads its switch, which may be turned at any time, and raises the
\* floor before the first operation.
Raised(q) == [serverFloor EXCEPT ![q.dev] = IF q.floor > @ THEN q.floor ELSE @]

\* From here on the floor of a request is the one it found or made.
Begun(q) == [q EXCEPT !.begun = TRUE, !.floor = Raised(q)[q.dev]]

Begin ==
  /\ pc = "wait"
  /\ current.via = "v3" /\ ~current.begun
  /\ serverFloor' = Raised(current)
  /\ current' = Begun(current)
  /\ UNCHANGED <<client, pc, batch, unsent, sealed, floor, answers, toSettle, toBlock, fromV2,
                 version, decided, late, made, history>>

BeginLate(q) ==
  /\ ~q.begun
  /\ serverFloor' = Raised(q)
  /\ late' = (late \ {q}) \cup {Begun(q)}
  /\ UNCHANGED <<client, push, version, decided, made, history>>

\* Mutant: rows that were sent over v3 by an earlier push go over v2 as well.
DisabledFallsBackOnAll ==
  /\ pc = "wait"
  /\ current.via = "v3" /\ ~current.begun
  /\ pc' = "fallback"
  /\ holds' = {h \in holds : \A e \in unsent : h.op # batch[e].op} \cup
              {[e |-> e, op |-> batch[e].op, id |-> batch[e].id, sent |-> batch[e].sent,
                retries |-> batch[e].retries, result |-> None] : e \in unsent}
  /\ current' = None
  /\ UNCHANGED <<outbox, device, batch, unsent, sealed, floor, answers, toSettle, toBlock, fromV2,
                 server, late, made, history>>

\* 503 sync_disabled: nothing of this request is applied.  The rows that were
\* never sent under their identity before this push go over v2, and a durable
\* hold is written for each of them first.
Disabled ==
  /\ pc = "wait"
  /\ current.via = "v3" /\ ~current.begun
  /\ LET rows == unsent \ sealed IN
     /\ unsent' = rows
     /\ pc' = IF rows = {} THEN "settle" ELSE "fallback"
     /\ holds' = {h \in holds : \A e \in rows : h.op # batch[e].op} \cup
                 {[e |-> e, op |-> batch[e].op, id |-> batch[e].id, sent |-> batch[e].sent,
                   retries |-> batch[e].retries, result |-> None] : e \in rows}
  /\ current' = None
  /\ UNCHANGED <<outbox, device, batch, sealed, floor, answers, toSettle, toBlock, fromV2,
                 server, late, made, history>>

SendFallback ==
  /\ pc = "fallback"
  /\ current' = [via |-> "fallback", dev |-> 0, floor |-> 0, begun |-> TRUE, todo |-> Ops(unsent)]
  /\ unanswered' = unanswered \cup {batch[e].op : e \in unsent}
  /\ pc' = "wait"
  /\ UNCHANGED <<client, batch, unsent, sealed, floor, answers, toSettle, toBlock, fromV2,
                 server, late, made, dropped, landed, posted>>

-----------------------------------------------------------------------------
(* The server *)

Stale(o) == o.base # NoBase /\ version[o.e] > o.base
Receipt(o) == {r \in decided : r.id = o.id}

\* What was applied is a new version of the row.
TakeEffect(o, verdict) ==
  IF verdict = "applied"
  THEN /\ version[o.e] < MaxVersion
       /\ version' = [version EXCEPT ![o.e] = @ + 1]
       /\ landed' = landed \cup o.edits
  ELSE UNCHANGED <<version, landed>>

Retired(q, o) == o.id.seq < serverFloor[q.dev]
Outcome(o, verdict) == [id |-> o.id, edits |-> o.edits, base |-> o.base, verdict |-> verdict]

\* One operation of a v3 request, as OnceOnly has it: the outcome of its identity,
\* a refusal when it is below the floor by now and its receipt, if it had one, was
\* purged, a decision unless it was below the floor before, or an exception before
\* the commit, which leaves neither a receipt nor an effect.
ReplayReceipt(q, o, verdict) ==
  /\ \E r \in Receipt(o) : verdict = IF r.edits = o.edits /\ r.base = o.base THEN r.verdict ELSE "invalid"
  /\ UNCHANGED <<version, decided, landed>>

RefuseRetired(q, o, verdict) ==
  /\ Retired(q, o)
  /\ verdict = "retired"
  /\ decided' = (decided \ Receipt(o)) \cup {Outcome(o, verdict)}
  /\ UNCHANGED <<version, landed>>

Decide(q, o, verdict) ==
  /\ Receipt(o) = {}
  /\ o.id.seq >= q.floor
  /\ verdict \in IF Stale(o) THEN {"stale"} ELSE {"applied", "refused"}
  /\ decided' = decided \cup {Outcome(o, verdict)}
  /\ TakeEffect(o, verdict)

RollBack(verdict) == verdict = "retry" /\ UNCHANGED <<version, decided, landed>>

\* POST /api/sync/push: no identity, no receipt.
DispatchV2(q, o, verdict) ==
  /\ verdict \in IF Stale(o) THEN {"stale"} ELSE {"applied", "refused"}
  /\ TakeEffect(o, verdict)
  /\ UNCHANGED decided

Process(q, o, verdict) ==
  IF q.via = "v3"
  THEN \/ ReplayReceipt(q, o, verdict) \/ RefuseRetired(q, o, verdict) \/ Decide(q, o, verdict)
       \/ RollBack(verdict)
  ELSE DispatchV2(q, o, verdict)

Verdict == Decision \cup {"invalid", "retry"}

\* An operation of the request the client waits for.  An exception after the commit
\* is answered with "retry", too.
Handle(o) ==
  /\ pc = "wait"
  /\ current.begun
  /\ \E verdict \in Verdict :
       /\ Process(current, o, verdict)
       /\ \E said \in {verdict} \cup IF current.via = "v3" THEN {"retry"} ELSE {} :
            answers' = [answers EXCEPT ![o.e] = AnswerTo(said, o.e, current.via)]
  /\ current' = [current EXCEPT !.todo = @ \ {o}]
  /\ UNCHANGED <<client, pc, batch, unsent, sealed, floor, toSettle, toBlock, fromV2,
                 serverFloor, late, made, dropped, posted, unanswered>>

HandleLate(q, o) ==
  /\ q.begun
  /\ \E verdict \in Verdict : Process(q, o, verdict)
  /\ late' = (late \ {q}) \cup IF q.todo = {o} THEN {} ELSE {[q EXCEPT !.todo = @ \ {o}]}
  /\ UNCHANGED <<client, push, serverFloor, made, dropped, posted, unanswered>>

\* Another client writes.
OtherWrite(e) ==
  /\ version[e] < MaxVersion
  /\ version' = [version EXCEPT ![e] = @ + 1]
  /\ UNCHANGED <<client, push, decided, serverFloor, late, made, history>>

-----------------------------------------------------------------------------
(* Answers *)

Answered == {e \in unsent : answers[e] # None}

\* What the server may have applied over v3, now or later.
Exposed == {DigestOf(o) : o \in current.todo} \cup {DigestOf(batch[e]) : e \in Answered}

\* Mutant: every row of the push counts as answered.
ReceiveV3AsAll ==
  /\ pc = "wait"
  /\ current.via = "v3" /\ current.begun /\ current.todo = {}
  /\ posted' = posted \cup Exposed
  /\ toSettle' = toSettle \cup unsent
  /\ toBlock' = toBlock \cup {e \in Answered : answers[e].terminal}
  /\ unsent' = {}
  /\ current' = None
  /\ pc' = "settle"
  /\ UNCHANGED <<client, batch, sealed, floor, answers, fromV2, server, late, made, dropped, landed, unanswered>>

ReceiveV3 ==
  /\ pc = "wait"
  /\ current.via = "v3" /\ current.begun /\ current.todo = {}
  /\ posted' = posted \cup Exposed
  /\ toSettle' = toSettle \cup Answered
  /\ toBlock' = toBlock \cup {e \in Answered : answers[e].terminal}
  /\ unsent' = unsent \ Answered
  /\ current' = None
  /\ pc' = IF unsent' = {} THEN "settle" ELSE "send"
  /\ UNCHANGED <<client, batch, sealed, floor, answers, fromV2, server, late, made, dropped, landed, unanswered>>

\* persistV2FallbackResults: the results are durable before they are used.
ReceiveFallback ==
  /\ pc = "wait"
  /\ current.via = "fallback" /\ current.todo = {}
  /\ holds' = {IF \E e \in unsent : h.op = batch[e].op
               THEN [h EXCEPT !.result = answers[h.e]] ELSE h : h \in holds}
  /\ unanswered' = unanswered \ {batch[e].op : e \in unsent}
  /\ fromV2' = fromV2 \cup unsent
  /\ toSettle' = toSettle \cup unsent
  /\ unsent' = {}
  /\ current' = None
  /\ pc' = "settle"
  /\ UNCHANGED <<outbox, device, batch, sealed, floor, answers, toBlock, server, late, made,
                 dropped, landed, posted>>

ReceiveV2 ==
  /\ pc = "wait"
  /\ current.via = "v2" /\ current.todo = {}
  /\ toSettle' = {e \in Entity : answers[e] # None}
  /\ current' = None
  /\ pc' = "settle"
  /\ UNCHANGED <<client, batch, unsent, sealed, floor, answers, toBlock, fromV2, server, late, made, history>>

\* An error, a timeout, a crash or a change of account.  The request may still
\* be on its way, or be lost.
Interrupt ==
  /\ pc # "idle"
  /\ PushEnds
  /\ IF pc = "wait"
     THEN /\ posted' = IF current.via = "v3" THEN posted \cup Exposed ELSE posted
          /\ \/ UNCHANGED late
             \/ /\ Cardinality(late) < MaxLate
                /\ current.todo # {}
                /\ late' = late \cup {current}
     ELSE UNCHANGED <<late, posted>>
  /\ UNCHANGED <<client, server, made, dropped, landed, unanswered>>

\* The row that was sent, unless it was edited, resolved or revoked meanwhile.
Unchanged(e) == SameSnapshot(outbox[e], batch[e])
SameOp(e) == outbox[e] # None /\ outbox[e].op = batch[e].op

Rebase(e) ==
  outbox' = IF SameOp(e) /\ outbox[e].blocked = "no"
            THEN [outbox EXCEPT ![e].base = answers[e].version, ![e].error = "none", ![e].retries = 0]
            ELSE outbox
Remove(e) == outbox' = [outbox EXCEPT ![e] = None]
Mark(e, error) == outbox' = [outbox EXCEPT ![e].retries = OneMore(@), ![e].error = error]

\* Mutant: the row is removed although it was edited meanwhile.
SettleOkRemoves(e) ==
  /\ answers[e].status = "ok"
  /\ IF SameOp(e) THEN Remove(e) ELSE UNCHANGED outbox

\* rebaseDocsWriteFollowups: a document whose contents, and nothing else, were
\* edited while its create was under way.
Continues(e) ==
  /\ Kind[e] = "node" /\ batch[e].base = NoBase /\ SameOp(e)
  /\ SameSnapshot([outbox[e] EXCEPT !.edits = batch[e].edits], batch[e])

\* The result loop of pushOutboxOnce, one row at a time.  A create that continues
\* becomes an update of what was created, if the edited fields allow it.
SettleOk(e) ==
  /\ answers[e].status = "ok"
  /\ IF Unchanged(e) THEN Remove(e)
     ELSE \/ (Kind[e] = "session" \/ Continues(e)) /\ Rebase(e)
          \/ Kind[e] # "session" /\ UNCHANGED outbox

\* A conflict is rebased, recognised as already applied, or recorded.
SettleConflict(e) ==
  /\ answers[e].status = "conflict"
  /\ IF Unchanged(e)
     THEN \/ Kind[e] # "session" /\ Mark(e, "conflict")
          \/ Kind[e] # "task" /\ Rebase(e)
          \/ Kind[e] # "session" /\ batch[e].edits \subseteq landed /\ Remove(e)
     ELSE IF Kind[e] = "session" THEN Rebase(e) ELSE UNCHANGED outbox

SettleError(e) ==
  /\ answers[e].status = "error"
  /\ IF Unchanged(e) THEN Mark(e, "error") ELSE UNCHANGED outbox

Settle(e) ==
  /\ pc = "settle"
  /\ e \in toSettle
  /\ SettleOk(e) \/ SettleConflict(e) \/ SettleError(e)
  /\ toSettle' = toSettle \ {e}
  /\ UNCHANGED <<holds, device, pc, batch, unsent, sealed, floor, current, answers, toBlock, fromV2,
                 server, late, made, history>>

\* quarantineOutboxOpIfSnapshotInWriter, for exactly the row the result loop left.
Quarantine(e) ==
  /\ pc = "settle"
  /\ toSettle = {}
  /\ e \in toBlock
  /\ LET left == [batch[e] EXCEPT !.retries = OneMore(@), !.error = "error"] IN
     outbox' = IF SameSnapshot(outbox[e], left)
               THEN [outbox EXCEPT ![e].retries = MaxRetries, ![e].blocked = "rejected"]
               ELSE outbox
  /\ toBlock' = toBlock \ {e}
  /\ UNCHANGED <<holds, device, pc, batch, unsent, sealed, floor, current, answers, toSettle, fromV2,
                 server, late, made, history>>

\* settleV2FallbackHolds
Finish ==
  /\ pc = "settle"
  /\ toSettle = {} /\ toBlock = {}
  /\ holds' = {h \in holds : (\A e \in fromV2 : h.op # batch[e].op) \/ ~Settled(h)}
  /\ PushEnds
  /\ UNCHANGED <<outbox, device, server, late, made, history>>

-----------------------------------------------------------------------------
Init ==
  /\ outbox = NoAnswers /\ holds = {}
  /\ device = [dev |-> 0, next |-> 0, known |-> TRUE]
  /\ pc = "idle" /\ floor = 0 /\ current = None
  /\ batch = NoAnswers /\ answers = NoAnswers
  /\ unsent = {} /\ sealed = {} /\ toSettle = {} /\ toBlock = {} /\ fromV2 = {}
  /\ version = [e \in Entity |-> 0]
  /\ decided = {}
  /\ serverFloor = [d \in 0..MaxDevices |-> 0]
  /\ late = {}
  /\ made = 0
  /\ dropped = {} /\ landed = {} /\ posted = {} /\ unanswered = {}

User == LoseDevice \/ \E e \in Entity : Enqueue(e) \/ Revoke(e)
Push ==
  \/ StartV3 \/ StartV2 \/ SendChunk \/ SendFallback
  \/ ReceiveV3 \/ ReceiveFallback \/ ReceiveV2 \/ Finish
  \/ \E e \in Entity : Settle(e) \/ Quarantine(e) \/ AutoResolve(e)
Server ==
  \/ Begin \/ Disabled
  \/ (pc = "wait" /\ \E o \in current.todo : Handle(o))
  \/ \E q \in late : BeginLate(q) \/ \E o \in q.todo : HandleLate(q, o)
  \/ \E e \in Entity : OtherWrite(e)

Next == User \/ Push \/ Server \/ Interrupt
Spec == Init /\ [][Next]_vars

\* Pushes are stopped only now and then; the scheduler keeps starting them; the
\* server offers v3 again and again; a stuck row is resolved if it can be.
Step ==
  \/ SendChunk \/ SendFallback
  \/ Begin \/ Disabled
  \/ (pc = "wait" /\ \E o \in current.todo : Handle(o))
  \/ ReceiveV3 \/ ReceiveFallback \/ ReceiveV2 \/ Finish
  \/ \E e \in Entity : Settle(e) \/ Quarantine(e)

FairSpec ==
  /\ Spec
  /\ <>[][Interrupt => Finish]_vars
  /\ WF_vars(Step) /\ SF_vars(StartV3) /\ SF_vars(Begin)
  /\ \A e \in Entity : SF_vars(AutoResolve(e))

-----------------------------------------------------------------------------
TypeOK ==
  /\ outbox \in [Entity -> Row \cup {None}]
  /\ holds \subseteq Hold
  /\ device \in [dev : Nat, next : Nat, known : BOOLEAN]
  /\ pc \in {"idle", "send", "wait", "fallback", "settle"}
  /\ batch \in [Entity -> Row \cup {None}]
  /\ unsent \subseteq Entity /\ sealed \subseteq Entity /\ fromV2 \subseteq Entity
  /\ floor \in Nat
  /\ current \in Request \cup {None}
  /\ answers \in [Entity -> Answer \cup {None}]
  /\ toSettle \subseteq {e \in Entity : answers[e] # None}
  /\ toBlock \subseteq {e \in Entity : answers[e] # None}
  /\ version \in [Entity -> Nat]
  /\ decided \subseteq [id : Ident, edits : SUBSET Nat, base : Nat \cup {NoBase}, verdict : Decision]
  /\ serverFloor \in [0..MaxDevices -> Nat]
  /\ late \subseteq Request
  /\ made \in 0..MaxEdits
  /\ dropped \subseteq Nat
  /\ landed \subseteq Nat
  /\ posted \subseteq Digest
  /\ unanswered \subseteq Nat
  /\ (pc = "wait") <=> (current # None)

\* A retired refusal is terminal: it quarantines the row.  So the server's floor
\* never passes a row that is still in the outbox, held, exhausted and blocked
\* rows included, whatever requests are late.
FloorSparesPending ==
  \A e \in Pending : outbox[e].id # None => serverFloor[outbox[e].id.dev] <= outbox[e].id.seq

\* The server compares request_mac: an identity never stands for two requests,
\* however the row was edited, rebased or resent in between.
V3Requests == {q \in late \cup IF current = None THEN {} ELSE {current} : q.via = "v3"}
Sent == (UNION {q.todo : q \in V3Requests}) \cup decided
OneRequestPerIdentity ==
  \A x, y \in Sent : x.id = y.id => x.edits = y.edits /\ x.base = y.base

\* While the client waits for a request, no operation of it meets a floor or a
\* receipt that turns it away: none is retired, however late other requests raised
\* floors, and a receipt that is there was written for this very request.
NeverTurnedAway ==
  pc = "wait" /\ current.via = "v3" /\ current.begun =>
    \A o \in current.todo :
      /\ ~Retired(current, o)
      /\ \A r \in Receipt(o) : r.edits = o.edits /\ r.base = o.base /\ r.verdict # "retired"

\* push.ts:433 "A previously sent identity must stay on v3": what the server may
\* have over v3 is not sent over v2, and what v2 has not answered is not sent again.
OneTransport ==
  current # None => \A o \in current.todo :
    /\ current.via # "v3" => DigestOf(o) \notin posted
    /\ current.via # "fallback" => o.op \notin unanswered

\* No edit disappears: it waits, takes effect, or is given up explicitly,
\* although rows are removed by answers to an older form of them.
Fate(n) ==
  IF n \in landed THEN "landed" ELSE IF n \in dropped THEN "dropped"
  ELSE IF n > made THEN "unmade"
  ELSE IF \E e \in Pending : n \in outbox[e].edits THEN "pending" ELSE "lost"
Delivery == INSTANCE EditDelivery WITH Edit <- 1..MaxEdits, fate <- [n \in 1..MaxEdits |-> Fate(n)]
EditsDelivered == Delivery!Spec

\* A pending row does not wait for ever, unless it is held for a v2 result that
\* never came: no code takes such a hold away.
Undecided(e) == \E h \in holds : h.e = e /\ RowExists(h) /\ h.result = None
Drains == \A e \in Entity : (outbox[e] # None) ~> (outbox[e] = None \/ Undecided(e))
=============================================================================
