--------------------------- MODULE SyncChangeFeed ---------------------------
(***************************************************************************)
(* The server half of Sync v3 pull: business transactions whose row        *)
(* triggers fill sync_change_log, the deferred trigger that numbers them   *)
(* in commit order, the purge of old records, and the snapshot requests of *)
(* a reader (/scopes, /bootstrap, /changes).                               *)
(*                                                                         *)
(* An entity is a row of a synchronised table.  A root entity (a task, a   *)
(* project, ...) has a scope column of its own; a child (a time entry, an  *)
(* occurrence, ...) has none and is in the scope of its parent.            *)
(***************************************************************************)
EXTENDS Integers, FiniteSets, FiniteSetsExt

CONSTANTS
  Entity,      \* the rows that may exist
  NoEntity,    \* "no parent"
  ParentOf,    \* [Entity -> Entity \cup {NoEntity}]: the foreign key of a child
  Scope,       \* the values of a scope column
  NoScope,     \* NULL in a scope column
  Absent,      \* the row does not exist
  Unwritten,   \* the transaction has not written the row
  Tx,          \* database sessions that write
  Reader,      \* clients that pull
  Visible,     \* [Reader -> SUBSET Scope]: what compute_scopes returns for a reader
  PageLimit,   \* the limit of a /changes page
  MAX_SEQ      \* the largest log sequence number; bounds the writes of a run

Root(e) == ParentOf[e] = NoEntity
Children(e) == {k \in Entity : ParentOf[k] = e}

ASSUME FeedConstants ==
  /\ IsFiniteSet(Entity)
  /\ NoEntity \notin Entity
  /\ ParentOf \in [Entity -> Entity \cup {NoEntity}]
  /\ \A e \in Entity : ~Root(e) => ParentOf[e] # e /\ Root(ParentOf[e])
  /\ NoScope \notin Scope
  /\ Visible \in [Reader -> SUBSET Scope]
  /\ PageLimit \in Nat \ {0}
  /\ MAX_SEQ \in Nat \ {0}

\* rev stands for the contents of the row: the log sequence number of its last write.
Row == [scope : Scope \cup {NoScope}, rev : 0..MAX_SEQ]
LogRow == [seq : 1..MAX_SEQ, entity : Entity, scope : Scope \cup {NoScope}]
Change == [seq : 1..MAX_SEQ, entity : Entity, scope : Scope \cup {NoScope}, cs : Nat \ {0}]
Cursor == [cs : Nat, seq : 0..MAX_SEQ]

\* A row as a reader keeps it.
HeldRow == [rev : 0..MAX_SEQ, scope : Scope, version : Nat]

ASSUME FeedSentinels == Absent \notin Row \cup HeldRow /\ Unwritten \notin Row \cup {Absent}

VARIABLES
  db,          \* the committed rows
  log,         \* the committed part of sync_change_log
  versions,    \* sync_entity_versions; 0 when there is no row
  minRetained, \* sync_change_log_state.min_retained_commit_seq
  nextSeq,     \* the bigserial of sync_change_log
  nextCommit,  \* the sequence sync_commit_seq
  writes,      \* per transaction, the rows it has written
  buf,         \* per transaction, its log rows, commit_seq still NULL
  stamp,       \* per transaction, the commit_seq it drew; 0 before
  phase,       \* per reader: "scopes", "boot" (bootstrapping) or "live"
  cursor, todo, view,  \* per reader: cursor, entities still to bootstrap, local rows
  unlogged,    \* history: <<entity, scope>> whose visible row changed with no log row
  moved        \* history: roots whose scope column a transaction changed

server == <<db, log, versions, minRetained, nextSeq, nextCommit>>
txvars == <<writes, buf, stamp>>
readers == <<phase, cursor, todo, view>>
history == <<unlogged, moved>>
vars == <<server, txvars, readers, history>>

-----------------------------------------------------------------------------
\* The scope a row is served in, given all the rows: _load_tasks and _load_time_entries.
EffScope(d, e) ==
  IF d[e] = Absent THEN NoScope
  ELSE IF Root(e) THEN d[e].scope ELSE d[ParentOf[e]].scope

\* A row as the reader keeps it: contents, scope_keys and row_version.
Entry(d, v, r, e) ==
  IF d[e] # Absent /\ EffScope(d, e) \in Visible[r]
  THEN [rev |-> d[e].rev, scope |-> EffScope(d, e), version |-> v[e]]
  ELSE Absent

Held == HeldRow \cup {Absent}
SameRow(x, y) == x = y \/ (x # Absent /\ y # Absent /\ x.rev = y.rev /\ x.scope = y.scope)

\* Mutant: the head forgets what was purged.
HeadOfLog == Max({x.cs : x \in log} \cup {0})

Head == Max({x.cs : x \in log} \cup {minRetained})
\* Mutant: the head cursor without its tie-breaker.
HeadCursorWithoutSeq == [cs |-> Head]

HeadCursor == [cs |-> Head, seq |-> MAX_SEQ]
Before(p, q) == p.cs < q.cs \/ (p.cs = q.cs /\ p.seq < q.seq)
\* Mutant: the purged head itself counts as expired.
CursorExpiredInclusive(p) == minRetained > 0 /\ ~Before([cs |-> minRetained, seq |-> MAX_SEQ], p)

CursorExpired(p) == minRetained > 0 /\ Before(p, [cs |-> minRetained, seq |-> MAX_SEQ])

Idle(t) == buf[t] = {}
ViewOf(t) == [e \in Entity |-> IF writes[t][e] = Unwritten THEN db[e] ELSE writes[t][e]]
Unlocked(t, e) == \A u \in Tx \ {t} : writes[u][e] = Unwritten

\* sync_v3_task_project: the parent's scope column or, when the parent is
\* gone, the scope of the newest log row about it that has one.
ParentScope(seen, rows, e) ==
  LET known == {x \in rows : x.entity = e /\ x.scope # NoScope}
  IN  IF seen[e] # Absent THEN seen[e].scope
      ELSE IF known = {} THEN NoScope
      ELSE (CHOOSE x \in known : \A y \in known : y.seq <= x.seq).scope

\* The log rows a transaction can read: committed ones and its own.
LoggedBy(t) == {[seq |-> x.seq, entity |-> x.entity, scope |-> x.scope] : x \in log} \cup buf[t]

TriggerScope(seen, rows, e) ==
  IF Root(e) THEN seen[e].scope ELSE ParentScope(seen, rows, ParentOf[e])

\* Write rows in transaction t and add the n log rows of the triggers.
Emit(t, rows, new, n) ==
  /\ stamp[t] = 0
  /\ nextSeq + n <= MAX_SEQ + 1
  /\ writes' = [writes EXCEPT ![t] = rows]
  /\ buf' = [buf EXCEPT ![t] = @ \cup new]
  /\ nextSeq' = nextSeq + n
  /\ UNCHANGED <<db, log, versions, minRetained, nextCommit, stamp, readers, history>>

LogEntry(e, s, n) == [seq |-> n, entity |-> e, scope |-> s]

-----------------------------------------------------------------------------
\* INSERT.  The foreign key takes KEY SHARE on the parent, which an uncommitted
\* DELETE of the parent blocks and an uncommitted UPDATE of it does not.
Insert(t, e, s) ==
  LET row == [scope |-> IF Root(e) THEN s ELSE NoScope, rev |-> nextSeq]
      seen == [ViewOf(t) EXCEPT ![e] = row]
  IN  /\ ViewOf(t)[e] = Absent /\ Unlocked(t, e)
      /\ ~Root(e) => /\ seen[ParentOf[e]] # Absent
                     /\ \A u \in Tx \ {t} : writes[u][ParentOf[e]] # Absent
      /\ Emit(t, [writes[t] EXCEPT ![e] = row],
              {LogEntry(e, TriggerScope(seen, LoggedBy(t), e), nextSeq)}, 1)

\* Mutant: a move is logged in the new scope only.
UpdateLogsNewScope(t, e, s) ==
  LET row == [scope |-> IF Root(e) THEN s ELSE NoScope, rev |-> nextSeq]
      seen == [ViewOf(t) EXCEPT ![e] = row]
  IN  /\ ViewOf(t)[e] # Absent /\ Unlocked(t, e)
      /\ Emit(t, [writes[t] EXCEPT ![e] = row], {LogEntry(e, TriggerScope(seen, LoggedBy(t), e), nextSeq)}, 1)

\* UPDATE.  One log row in the new scope, and a second one in the old scope
\* when the scope column changed.
Update(t, e, s) ==
  LET old == ViewOf(t)[e]
      row == [scope |-> IF Root(e) THEN s ELSE NoScope, rev |-> nextSeq]
      seen == [ViewOf(t) EXCEPT ![e] = row]
      now == LogEntry(e, TriggerScope(seen, LoggedBy(t), e), nextSeq)
  IN  /\ old # Absent /\ Unlocked(t, e)
      /\ IF row.scope = old.scope
         THEN Emit(t, [writes[t] EXCEPT ![e] = row], {now}, 1)
         ELSE Emit(t, [writes[t] EXCEPT ![e] = row],
                   {now, LogEntry(e, old.scope, nextSeq + 1)}, 2)

\* DELETE.  The BEFORE trigger logs the row first; ON DELETE CASCADE then
\* removes the children, whose triggers no longer find the parent.
Delete(t, e) ==
  LET seen == ViewOf(t)
      kids == {k \in Children(e) : seen[k] # Absent}
      own == LogEntry(e, TriggerScope(seen, LoggedBy(t), e), nextSeq)
      after == [seen EXCEPT ![e] = Absent]
      kidScope == ParentScope(after, LoggedBy(t) \cup {own}, e)
  IN  /\ seen[e] # Absent /\ Unlocked(t, e)
      /\ \A k \in Children(e) : Unlocked(t, k)
      /\ \E n \in [kids -> (nextSeq + 1)..(nextSeq + Cardinality(kids))] :
           /\ \A j, k \in kids : n[j] = n[k] => j = k
           /\ Emit(t, [f \in Entity |-> IF f \in kids \cup {e} THEN Absent ELSE writes[t][f]],
                   {own} \cup {LogEntry(k, kidScope, n[k]) : k \in kids}, Cardinality(kids) + 1)

-----------------------------------------------------------------------------
\* Mutant: the number is drawn without the commit lock.
AssignWithoutLock(t) ==
  /\ ~Idle(t) /\ stamp[t] = 0
  /\ stamp' = [stamp EXCEPT ![t] = nextCommit]
  /\ nextCommit' = nextCommit + 1
  /\ UNCHANGED <<db, log, versions, minRetained, nextSeq, writes, buf, readers, history>>

\* The deferred trigger at COMMIT: take the commit lock, draw a number.  The
\* lock is held until the transaction ends.
AssignCommitSeq(t) ==
  /\ ~Idle(t) /\ stamp[t] = 0
  /\ \A u \in Tx : stamp[u] = 0
  /\ stamp' = [stamp EXCEPT ![t] = nextCommit]
  /\ nextCommit' = nextCommit + 1
  /\ UNCHANGED <<db, log, versions, minRetained, nextSeq, writes, buf, readers, history>>

Reset(t) ==
  /\ writes' = [writes EXCEPT ![t] = [e \in Entity |-> Unwritten]]
  /\ buf' = [buf EXCEPT ![t] = {}]
  /\ stamp' = [stamp EXCEPT ![t] = 0]

\* What the commit of t changes for a reader of scope s, and what it tells.
ChangesFor(d, e, s) ==
  /\ s \in {EffScope(db, e), EffScope(d, e)} \ {NoScope}
  /\ <<db[e], EffScope(db, e)>> # <<d[e], EffScope(d, e)>>
Tells(t, e, s) == \E x \in buf[t] : x.entity = e /\ x.scope = s

\* The scopes root e has had from the committed row to the end of t.
ScopesIn(t, e) ==
  ({EffScope(db, e)} \cup {x.scope : x \in {y \in buf[t] : y.entity = e}}) \ {NoScope}

\* Mutant: the version row is inserted but never updated.
CommitKeepsVersion(t) ==
  /\ stamp[t] # 0
  /\ db' = ViewOf(t)
  /\ log' = log \cup {[seq |-> x.seq, entity |-> x.entity, scope |-> x.scope, cs |-> stamp[t]] : x \in buf[t]}
  /\ versions' = [e \in Entity |-> IF versions[e] = 0 /\ \E x \in buf[t] : x.entity = e THEN stamp[t] ELSE versions[e]]
  /\ Reset(t)
  /\ UNCHANGED <<minRetained, nextSeq, nextCommit, readers, history>>

\* The log rows get their commit_seq, the versions are upserted, everything
\* becomes visible, and only then the commit lock is released.
Commit(t) ==
  /\ stamp[t] # 0
  /\ db' = ViewOf(t)
  /\ log' = log \cup {[seq |-> x.seq, entity |-> x.entity, scope |-> x.scope, cs |-> stamp[t]] : x \in buf[t]}
  /\ versions' = [e \in Entity |-> IF \E x \in buf[t] : x.entity = e THEN stamp[t] ELSE versions[e]]
  /\ unlogged' = {p \in Entity \X Scope :
                    /\ ~Tells(t, p[1], p[2])
                    /\ p \in unlogged \/ ChangesFor(db', p[1], p[2])}
  /\ moved' = moved \cup {e \in Entity : Root(e) /\ \E a, b \in ScopesIn(t, e) : a # b}
  /\ Reset(t)
  /\ UNCHANGED <<minRetained, nextSeq, nextCommit, readers>>

\* ROLLBACK, or a crash; numbers drawn from a sequence are not given back.
Abort(t) ==
  /\ ~Idle(t)
  /\ Reset(t)
  /\ UNCHANGED <<server, readers, history>>

\* purge_expired: everything up to the newest record older than the retention.
PurgeExpired(b) ==
  /\ b \in {x.cs : x \in log}
  /\ log' = {x \in log : x.cs > b}
  /\ minRetained' = Max({minRetained, b})
  /\ UNCHANGED <<db, versions, nextSeq, nextCommit, txvars, readers, history>>

-----------------------------------------------------------------------------
\* GET /scopes: a client with no cursor adopts the head cursor and bootstraps.
ReadScopes(r) ==
  /\ phase[r] = "scopes"
  /\ cursor' = [cursor EXCEPT ![r] = HeadCursor]
  /\ todo' = [todo EXCEPT ![r] = Entity]
  /\ phase' = [phase EXCEPT ![r] = "boot"]
  /\ UNCHANGED <<server, txvars, view, history>>

\* Mutant: every bootstrap page moves the cursor to the head.
ReadBootstrapMovesCursor(r, page) ==
  /\ phase[r] = "boot"
  /\ page \subseteq todo[r] /\ page # {}
  /\ view' = [view EXCEPT ![r] = [e \in Entity |-> IF e \in page THEN Entry(db, versions, r, e) ELSE @[e]]]
  /\ todo' = [todo EXCEPT ![r] = @ \ page]
  /\ phase' = [phase EXCEPT ![r] = IF todo[r] = page THEN "live" ELSE "boot"]
  /\ cursor' = [cursor EXCEPT ![r] = HeadCursor]
  /\ UNCHANGED <<server, txvars, history>>

\* GET /bootstrap: one page, read in one snapshot.
ReadBootstrap(r, page) ==
  /\ phase[r] = "boot"
  /\ page \subseteq todo[r] /\ page # {}
  /\ view' = [view EXCEPT ![r] = [e \in Entity |-> IF e \in page THEN Entry(db, versions, r, e) ELSE @[e]]]
  /\ todo' = [todo EXCEPT ![r] = @ \ page]
  /\ phase' = [phase EXCEPT ![r] = IF todo[r] = page THEN "live" ELSE "boot"]
  /\ UNCHANGED <<server, txvars, cursor, history>>

\* read_changes: the records after the cursor in the reader's scopes.
RawChanges(r) == {x \in log : Before(cursor[r], x) /\ x.scope \in Visible[r]}

\* build_changes_page: a non-empty prefix of the first PageLimit records; the
\* byte budget may stop it only at an entity the page does not have yet.
IsPage(page, raw) ==
  /\ page \subseteq raw /\ page # {}
  /\ Cardinality(page) <= PageLimit
  /\ \A x \in page, y \in raw \ page : Before(x, y)

StopsAtNewEntity(page, raw) ==
  Cardinality(page) = PageLimit
  \/ \A y \in raw \ page : (\A z \in raw \ page : ~Before(z, y)) => \A x \in page : x.entity # y.entity

LastOf(page) == CHOOSE x \in page : \A y \in page : ~Before(x, y)

\* GET /changes: 410 for an expired cursor, otherwise the current row of every
\* entity the page covers and the next cursor.
ReadChanges(r) ==
  /\ phase[r] = "live"
  /\ IF CursorExpired(cursor[r])
     THEN /\ phase' = [phase EXCEPT ![r] = "scopes"]
          /\ UNCHANGED <<cursor, view>>
     ELSE /\ UNCHANGED phase
          /\ LET raw == RawChanges(r)
             IN  \/ /\ raw = {}
                    /\ cursor' = [cursor EXCEPT ![r] = HeadCursor]
                    /\ UNCHANGED view
                 \/ \E page \in SUBSET raw :
                      /\ IsPage(page, raw) /\ StopsAtNewEntity(page, raw)
                      /\ view' = [view EXCEPT ![r] =
                                    [e \in Entity |-> IF \E x \in page : x.entity = e
                                                      THEN Entry(db, versions, r, e) ELSE @[e]]]
                      /\ cursor' = [cursor EXCEPT ![r] =
                                      IF page = raw THEN HeadCursor
                                      ELSE [cs |-> LastOf(page).cs, seq |-> LastOf(page).seq]]
  /\ UNCHANGED <<server, txvars, todo, history>>

-----------------------------------------------------------------------------
\* Rows may exist before the triggers are installed; the log starts empty.
Init ==
  /\ db \in {d \in [Entity -> [scope : Scope \cup {NoScope}, rev : {0}] \cup {Absent}] :
               \A e \in Entity : d[e] # Absent =>
                 IF Root(e) THEN d[e].scope # NoScope
                 ELSE d[e].scope = NoScope /\ d[ParentOf[e]] # Absent}
  /\ log = {} /\ minRetained = 0 /\ nextSeq = 1 /\ nextCommit = 1
  /\ versions = [e \in Entity |-> 0]
  /\ writes = [t \in Tx |-> [e \in Entity |-> Unwritten]]
  /\ buf = [t \in Tx |-> {}]
  /\ stamp = [t \in Tx |-> 0]
  /\ phase = [r \in Reader |-> "scopes"]
  /\ cursor = [r \in Reader |-> [cs |-> 0, seq |-> 0]]
  /\ todo = [r \in Reader |-> {}]
  /\ view = [r \in Reader |-> [e \in Entity |-> Absent]]
  /\ unlogged = {} /\ moved = {}

Write(t) ==
  \/ \E e \in Entity, s \in Scope : Insert(t, e, s) \/ Update(t, e, s)
  \/ \E e \in Entity : Delete(t, e)

Read(r) ==
  \/ ReadScopes(r)
  \/ \E page \in SUBSET Entity : ReadBootstrap(r, page)
  \/ ReadChanges(r)

Next ==
  \/ \E t \in Tx : Write(t) \/ AssignCommitSeq(t) \/ Commit(t) \/ Abort(t)
  \/ \E b \in {x.cs : x \in log} : PurgeExpired(b)
  \/ \E r \in Reader : Read(r)

Spec == Init /\ [][Next]_vars

\* A client that runs keeps asking; nothing is assumed of the writers.
FairSpec == Spec /\ \A r \in Reader : WF_vars(Read(r))

-----------------------------------------------------------------------------
TypeOK ==
  /\ db \in [Entity -> Row \cup {Absent}]
  /\ log \subseteq Change
  /\ versions \in [Entity -> Nat]
  /\ minRetained \in Nat /\ nextSeq \in 1..(MAX_SEQ + 1) /\ nextCommit \in Nat \ {0}
  /\ writes \in [Tx -> [Entity -> Row \cup {Absent, Unwritten}]]
  /\ buf \in [Tx -> SUBSET LogRow]
  /\ stamp \in [Tx -> Nat]
  /\ phase \in [Reader -> {"scopes", "boot", "live"}]
  /\ cursor \in [Reader -> Cursor]
  /\ todo \in [Reader -> SUBSET Entity]
  /\ view \in [Reader -> [Entity -> Held]]
  /\ unlogged \subseteq Entity \X Scope
  /\ moved \subseteq Entity

\* A snapshot that sees commit_seq N sees everything below N: a number drawn by
\* a transaction that is not visible yet is above every visible one and above
\* every cursor handed out (the comment above SYNC_COMMIT_ORDER_SQL).
CommitOrder ==
  \A t \in Tx : stamp[t] # 0 =>
    /\ stamp[t] > Head
    /\ \A r \in Reader : stamp[t] > cursor[r].cs

\* Nothing is missed: a reader's row differs from the current one only while a
\* record about it is still after the cursor, the cursor will be refused (410),
\* or the row changed without a record (see EveryChangeLogged).
NothingMissed ==
  \A r \in Reader, e \in Entity :
    \/ phase[r] = "scopes" \/ e \in todo[r]
    \/ SameRow(view[r][e], Entry(db, versions, r, e))
    \/ CursorExpired(cursor[r])
    \/ \E x \in RawChanges(r) : x.entity = e
    \/ \E s \in Visible[r] : <<e, s>> \in unlogged

\* Every visible change is logged in every scope it concerns, whatever the
\* interleaving and the cascade; the children of a root that moved between
\* scopes are the exception.
EveryChangeLogged ==
  \A p \in unlogged : ~Root(p[1]) /\ ParentOf[p[1]] \in moved

\* A reader with nothing left to read has exactly the current rows of its
\* scopes: what one record per change and a second one in the old scope of a
\* move (the comment above SYNC_CHANGE_LOG_DDL_SQL) are for.
CaughtUp(r) == phase[r] = "live" /\ ~CursorExpired(cursor[r]) /\ RawChanges(r) = {}
ReaderConverges ==
  \A r \in Reader : CaughtUp(r) =>
    \A e \in Entity : SameRow(view[r][e], Entry(db, versions, r, e))

\* Two different contents of a row never have the same row_version.
VersionIdentifiesRow ==
  \A r \in Reader, e \in Entity :
    (view[r][e] # Absent /\ db[e] # Absent /\ view[r][e].version = versions[e])
      => view[r][e].rev = db[e].rev

\* The cursor a live reader stores never goes back, even when a purge empties the log.
CursorAdvances ==
  [][\A r \in Reader : phase[r] = "live" /\ phase'[r] = "live" => ~Before(cursor'[r], cursor[r])]_vars

\* Once writes stop the reader drains the feed: pages always make progress.
Drains == \A r \in Reader : <>[]CaughtUp(r)
=============================================================================
