------------------------ MODULE SyncChangeFeedProofs ------------------------
(***************************************************************************)
(* Theorems of SyncChangeFeed for every set of rows, transactions, readers *)
(* and scopes, every page limit and every bound on the log.                *)
(***************************************************************************)
EXTENDS SyncChangeFeed, WellFoundedInduction, FiniteSetTheorems, TLAPS

-----------------------------------------------------------------------------
(* Maxima of bounded sets of naturals. *)

\* Every non-empty set of naturals has a least element.
LEMMA LeastExists ==
  ASSUME NEW S \in SUBSET Nat, S # {}
  PROVE  \E x \in S : \A y \in S : x <= y
<1>1. \E x \in S : \A y \in S : ~(<<y, x>> \in OpToRel(<, Nat))
  BY WFMin, NatLessThanWellFounded
<1>2. PICK x \in S : \A y \in S : ~(y < x)
  BY <1>1 DEF OpToRel
<1>3. QED BY <1>2

\* Max, as the head of the feed uses it, is a member and an upper bound.
LEMMA MaxOfBounded ==
  ASSUME NEW S \in SUBSET Nat, S # {}, NEW b \in Nat, \A x \in S : x <= b
  PROVE  /\ Max(S) \in S
         /\ \A y \in S : Max(S) >= y
<1> DEFINE T == {b - x : x \in S}
<1>1. \A x \in S : b - x \in Nat OBVIOUS
<1>2. T \in SUBSET Nat /\ T # {} BY <1>1
<1>3. PICK m \in T : \A y \in T : m <= y BY <1>2, LeastExists
<1>4. PICK x \in S : m = b - x BY <1>3
<1>5. \A y \in S : x >= y BY <1>3, <1>4
<1>6. \E z \in S : \A y \in S : z >= y BY <1>5
<1>7. QED BY <1>6 DEF Max

-----------------------------------------------------------------------------
(* What the triggers compute has the right type. *)

\* A child's parent is a row.
LEMMA ParentType ==
  ASSUME NEW e \in Entity, ~Root(e)
  PROVE  ParentOf[e] \in Entity
BY FeedConstants DEF Root

\* The newest log row about a parent exists, so its scope is a scope.
LEMMA ParentScopeType ==
  ASSUME NEW seen \in [Entity -> Row \cup {Absent}], NEW rows \in SUBSET LogRow,
         NEW e \in Entity
  PROVE  ParentScope(seen, rows, e) \in Scope \cup {NoScope}
<1> DEFINE known == {x \in rows : x.entity = e /\ x.scope # NoScope}
<1>1. CASE seen[e] # Absent
  <2>1. seen[e] \in Row BY <1>1
  <2>2. QED BY <1>1, <2>1 DEF ParentScope, Row
<1>2. CASE seen[e] = Absent /\ known = {}
  BY <1>2 DEF ParentScope
<1>3. CASE seen[e] = Absent /\ known # {}
  <2> DEFINE S == {x.seq : x \in known}
  <2>1. S \in SUBSET Nat /\ S # {} /\ \A n \in S : n <= MAX_SEQ
    BY <1>3, FeedConstants DEF LogRow
  <2>2. Max(S) \in S /\ \A n \in S : Max(S) >= n
    BY <2>1, MaxOfBounded, FeedConstants
  <2>3. PICK m \in known : m.seq = Max(S) BY <2>2
  <2>4. \A y \in known : y.seq <= m.seq
    <3>1. \A y \in known : y.seq \in S OBVIOUS
    <3>2. QED BY <2>1, <2>2, <2>3, <3>1
  <2>5. (CHOOSE x \in known : \A y \in known : y.seq <= x.seq) \in known BY <2>4
  <2>6. \A x \in known : x.scope \in Scope \cup {NoScope} BY DEF LogRow
  <2>7. QED BY <1>3, <2>5, <2>6 DEF ParentScope
<1>4. QED BY <1>1, <1>2, <1>3

\* The scope a row trigger writes is a scope or NULL.
LEMMA TriggerScopeType ==
  ASSUME NEW seen \in [Entity -> Row \cup {Absent}], NEW rows \in SUBSET LogRow,
         NEW e \in Entity, seen[e] # Absent
  PROVE  TriggerScope(seen, rows, e) \in Scope \cup {NoScope}
<1>1. CASE Root(e)
  <2>1. seen[e] \in Row OBVIOUS
  <2>2. QED BY <1>1, <2>1 DEF TriggerScope, Row
<1>2. CASE ~Root(e)
  BY <1>2, ParentType, ParentScopeType DEF TriggerScope
<1>3. QED BY <1>1, <1>2

-----------------------------------------------------------------------------
(* The numbers in use are below the next one of sync_commit_seq. *)

Numbered ==
  /\ \A x \in log : x.cs < nextCommit
  /\ minRetained < nextCommit
  /\ \A r \in Reader : cursor[r].cs < nextCommit
  /\ \A t \in Tx : stamp[t] < nextCommit

\* The head is the number of a record or the retention mark, and no record is above it.
LEMMA HeadIsMax ==
  ASSUME TypeOK, Numbered
  PROVE  /\ Head \in {x.cs : x \in log} \cup {minRetained}
         /\ Head \in Nat
         /\ \A x \in log : x.cs <= Head
         /\ minRetained <= Head
<1> DEFINE S == {x.cs : x \in log} \cup {minRetained}
<1>1. S \in SUBSET Nat /\ S # {}
  BY DEF TypeOK, Change
<1>2. \A n \in S : n <= nextCommit
  BY <1>1 DEF TypeOK, Change, Numbered
<1>3. Max(S) \in S /\ \A n \in S : Max(S) >= n
  <2> HIDE DEF S
  <2>1. nextCommit \in Nat BY DEF TypeOK
  <2>2. QED BY <1>1, <1>2, <2>1, MaxOfBounded
<1>4. QED BY <1>1, <1>3 DEF Head

\* What a transaction sees: its own writes over the committed rows.
LEMMA ViewOfType ==
  ASSUME TypeOK, NEW t \in Tx
  PROVE  /\ ViewOf(t) \in [Entity -> Row \cup {Absent}]
         /\ LoggedBy(t) \in SUBSET LogRow
<1>1. ViewOf(t) \in [Entity -> Row \cup {Absent}]
  BY DEF TypeOK, ViewOf
<1>2. buf[t] \in SUBSET LogRow BY DEF TypeOK
<1>3. {[seq |-> x.seq, entity |-> x.entity, scope |-> x.scope] : x \in log} \in SUBSET LogRow
  BY DEF TypeOK, LogRow, Change
<1>4. QED BY <1>1, <1>2, <1>3 DEF LoggedBy

\* A row as a reader keeps it.
LEMMA EntryType ==
  ASSUME TypeOK, NEW r \in Reader, NEW e \in Entity
  PROVE  Entry(db, versions, r, e) \in Held
<1>1. CASE db[e] # Absent /\ EffScope(db, e) \in Visible[r]
  <2>1. db[e].rev \in 0..MAX_SEQ BY <1>1 DEF TypeOK, Row
  <2>2. EffScope(db, e) \in Scope BY <1>1, FeedConstants
  <2>3. versions[e] \in Nat BY DEF TypeOK
  <2>4. QED BY <1>1, <2>1, <2>2, <2>3 DEF Entry, Held, HeldRow
<1>2. CASE ~(db[e] # Absent /\ EffScope(db, e) \in Visible[r])
  BY <1>2 DEF Entry, Held
<1>3. QED BY <1>1, <1>2

\* The writes of a transaction: what Emit needs to keep the types.
LEMMA EmitType ==
  ASSUME TypeOK, NEW t \in Tx, NEW rows \in [Entity -> Row \cup {Absent, Unwritten}],
         NEW new \in SUBSET LogRow, NEW n \in Nat, Emit(t, rows, new, n)
  PROVE  TypeOK'
<1>1. writes' \in [Tx -> [Entity -> Row \cup {Absent, Unwritten}]]
  BY DEF TypeOK, Emit
<1>2. buf' \in [Tx -> SUBSET LogRow]
  BY DEF TypeOK, Emit
<1>3. nextSeq' \in 1..(MAX_SEQ + 1)
  BY FeedConstants DEF TypeOK, Emit
<1>4. QED BY <1>1, <1>2, <1>3 DEF TypeOK, Emit, readers, history

-----------------------------------------------------------------------------
(* Type correctness of the writers. *)

\* A log row numbered from the bigserial is a log row.
LEMMA LogEntryType ==
  ASSUME NEW e \in Entity, NEW s \in Scope \cup {NoScope}, NEW n \in 1..MAX_SEQ
  PROVE  LogEntry(e, s, n) \in LogRow
BY DEF LogEntry, LogRow

\* INSERT keeps the types.
LEMMA InsertType ==
  ASSUME TypeOK, NEW t \in Tx, NEW e \in Entity, NEW s \in Scope, Insert(t, e, s)
  PROVE  TypeOK'
<1> DEFINE row == [scope |-> IF Root(e) THEN s ELSE NoScope, rev |-> nextSeq]
           seen == [ViewOf(t) EXCEPT ![e] = row]
           sc == TriggerScope(seen, LoggedBy(t), e)
           rows == [writes[t] EXCEPT ![e] = row]
<1>1. Emit(t, rows, {LogEntry(e, sc, nextSeq)}, 1) BY DEF Insert
<1>2. nextSeq \in 1..MAX_SEQ BY <1>1, FeedConstants DEF TypeOK, Emit
<1>3. row \in Row BY <1>2, FeedConstants DEF Row
<1>4. rows \in [Entity -> Row \cup {Absent, Unwritten}] BY <1>3 DEF TypeOK
<1>5. seen \in [Entity -> Row \cup {Absent}] /\ seen[e] = row
  BY <1>3, ViewOfType
<1>6. sc \in Scope \cup {NoScope}
  <2>1. seen[e] # Absent BY <1>3, <1>5, FeedSentinels
  <2> HIDE DEF seen
  <2>2. QED BY <1>5, <2>1, ViewOfType, TriggerScopeType
<1>7. LogEntry(e, sc, nextSeq) \in LogRow
  <2> HIDE DEF sc
  <2>1. QED BY <1>2, <1>6, LogEntryType
<1>8. QED
  <2> HIDE DEF sc, rows
  <2>1. QED BY <1>1, <1>4, <1>7, EmitType

\* UPDATE keeps the types, with one log row or with two.
LEMMA UpdateType ==
  ASSUME TypeOK, NEW t \in Tx, NEW e \in Entity, NEW s \in Scope, Update(t, e, s)
  PROVE  TypeOK'
<1> DEFINE old == ViewOf(t)[e]
           row == [scope |-> IF Root(e) THEN s ELSE NoScope, rev |-> nextSeq]
           seen == [ViewOf(t) EXCEPT ![e] = row]
           sc == TriggerScope(seen, LoggedBy(t), e)
           rows == [writes[t] EXCEPT ![e] = row]
           now == LogEntry(e, sc, nextSeq)
           was == LogEntry(e, old.scope, nextSeq + 1)
<1>1. \/ Emit(t, rows, {now}, 1)
      \/ Emit(t, rows, {now, was}, 2) BY DEF Update
<1>2. nextSeq \in 1..MAX_SEQ BY <1>1, FeedConstants DEF TypeOK, Emit
<1>3. row \in Row BY <1>2, FeedConstants DEF Row
<1>4. rows \in [Entity -> Row \cup {Absent, Unwritten}] BY <1>3 DEF TypeOK
<1>5. seen \in [Entity -> Row \cup {Absent}] /\ seen[e] = row
  BY <1>3, ViewOfType
<1>6. sc \in Scope \cup {NoScope}
  <2>1. seen[e] # Absent BY <1>3, <1>5, FeedSentinels
  <2> HIDE DEF seen
  <2>2. QED BY <1>5, <2>1, ViewOfType, TriggerScopeType
<1>7. now \in LogRow
  <2> HIDE DEF sc
  <2>1. QED BY <1>2, <1>6, LogEntryType
<1>8. old.scope \in Scope \cup {NoScope}
  <2>1. old # Absent BY DEF Update
  <2>2. old \in Row BY <2>1, ViewOfType
  <2>3. QED BY <2>2 DEF Row
<1>9. CASE Emit(t, rows, {now}, 1)
  <2> HIDE DEF now, rows
  <2>1. QED BY <1>4, <1>7, <1>9, EmitType
<1>10. CASE Emit(t, rows, {now, was}, 2)
  <2>1. nextSeq + 1 \in 1..MAX_SEQ BY <1>2, <1>10, FeedConstants DEF TypeOK, Emit
  <2>2. was \in LogRow
    <3> HIDE DEF old
    <3>1. QED BY <1>8, <2>1, LogEntryType
  <2> HIDE DEF now, was, rows
  <2>3. QED BY <1>4, <1>7, <1>10, <2>2, EmitType
<1>11. QED BY <1>1, <1>9, <1>10

\* DELETE and its cascade keep the types.
LEMMA DeleteType ==
  ASSUME TypeOK, NEW t \in Tx, NEW e \in Entity, Delete(t, e)
  PROVE  TypeOK'
<1> DEFINE seen == ViewOf(t)
           kids == {k \in Children(e) : seen[k] # Absent}
           sc == TriggerScope(seen, LoggedBy(t), e)
           own == LogEntry(e, sc, nextSeq)
           after == [seen EXCEPT ![e] = Absent]
           kidScope == ParentScope(after, LoggedBy(t) \cup {own}, e)
           rows == [f \in Entity |-> IF f \in kids \cup {e} THEN Absent ELSE writes[t][f]]
<1>1. PICK n \in [kids -> (nextSeq + 1)..(nextSeq + Cardinality(kids))] :
        Emit(t, rows, {own} \cup {LogEntry(k, kidScope, n[k]) : k \in kids}, Cardinality(kids) + 1)
  BY DEF Delete
<1> DEFINE new == {own} \cup {LogEntry(k, kidScope, n[k]) : k \in kids}
<1>2. kids \in SUBSET Entity BY DEF Children
<1>3. Cardinality(kids) \in Nat
  <2> HIDE DEF kids
  <2>1. QED BY <1>2, FeedConstants, FS_Subset, FS_CardinalityType
<1>4. nextSeq \in 1..MAX_SEQ /\ nextSeq + Cardinality(kids) \in 1..MAX_SEQ
  <2> HIDE DEF kids
  <2>1. nextSeq + (Cardinality(kids) + 1) <= MAX_SEQ + 1 BY <1>1 DEF Emit
  <2>2. QED BY <1>3, <2>1, FeedConstants DEF TypeOK
<1>5. rows \in [Entity -> Row \cup {Absent, Unwritten}] BY DEF TypeOK
<1>6. seen \in [Entity -> Row \cup {Absent}] /\ LoggedBy(t) \in SUBSET LogRow
  BY ViewOfType
<1>7. seen[e] # Absent BY DEF Delete
<1>8. own \in LogRow
  <2>1. sc \in Scope \cup {NoScope}
    <3> HIDE DEF seen
    <3>1. QED BY <1>6, <1>7, TriggerScopeType
  <2> HIDE DEF sc
  <2>2. QED BY <1>4, <2>1, LogEntryType
<1>9. kidScope \in Scope \cup {NoScope}
  <2>1. after \in [Entity -> Row \cup {Absent}] BY <1>6
  <2> HIDE DEF after, own
  <2>2. QED BY <1>6, <1>8, <2>1, ParentScopeType
<1>10. \A k \in kids : LogEntry(k, kidScope, n[k]) \in LogRow
  <2> SUFFICES ASSUME NEW k \in kids PROVE LogEntry(k, kidScope, n[k]) \in LogRow
    OBVIOUS
  <2>1. n[k] \in 1..MAX_SEQ
    <3> HIDE DEF kids
    <3>1. n[k] \in (nextSeq + 1)..(nextSeq + Cardinality(kids)) OBVIOUS
    <3>2. QED BY <1>3, <1>4, <3>1, FeedConstants
  <2>2. k \in Entity BY <1>2
  <2> HIDE DEF kids, kidScope
  <2>3. QED BY <1>9, <2>1, <2>2, LogEntryType
<1>11. new \in SUBSET LogRow
  <2> HIDE DEF own, kidScope, kids
  <2>1. QED BY <1>8, <1>10
<1>12. QED
  <2>1. Emit(t, rows, new, Cardinality(kids) + 1) BY <1>1
  <2>2. Cardinality(kids) + 1 \in Nat BY <1>3
  <2> HIDE DEF new, rows, kids
  <2>3. QED BY <1>5, <1>11, <2>1, <2>2, EmitType

-----------------------------------------------------------------------------
(* Type correctness of the commit, the purge and the readers. *)

\* Ending a transaction leaves it empty.
LEMMA ResetType ==
  ASSUME TypeOK, NEW t \in Tx, Reset(t)
  PROVE  /\ writes' \in [Tx -> [Entity -> Row \cup {Absent, Unwritten}]]
         /\ buf' \in [Tx -> SUBSET LogRow]
         /\ stamp' \in [Tx -> Nat]
BY DEF TypeOK, Reset

\* Numbering a transaction's log rows gives records of the feed.
LEMMA NumberedRows ==
  ASSUME TypeOK, NEW t \in Tx, stamp[t] # 0
  PROVE  {[seq |-> x.seq, entity |-> x.entity, scope |-> x.scope, cs |-> stamp[t]] : x \in buf[t]}
           \in SUBSET Change
<1>1. stamp[t] \in Nat \ {0} BY DEF TypeOK
<1>2. buf[t] \in SUBSET LogRow BY DEF TypeOK
<1>3. QED BY <1>1, <1>2 DEF LogRow, Change

\* COMMIT keeps the types.
LEMMA CommitType ==
  ASSUME TypeOK, NEW t \in Tx, Commit(t)
  PROVE  TypeOK'
<1>1. db' \in [Entity -> Row \cup {Absent}] BY ViewOfType DEF Commit
<1>2. log' \in SUBSET Change
  <2>1. stamp[t] # 0 BY DEF Commit
  <2>2. QED BY <2>1, NumberedRows DEF Commit, TypeOK
<1>3. versions' \in [Entity -> Nat] BY DEF Commit, TypeOK
<1>4. unlogged' \subseteq Entity \X Scope /\ moved' \subseteq Entity
  BY DEF Commit, TypeOK
<1>5. Reset(t) BY DEF Commit
<1>6. QED
  BY <1>1, <1>2, <1>3, <1>4, <1>5, ResetType DEF Commit, TypeOK, readers

\* A record's position is a cursor.
LEMMA PositionType ==
  ASSUME NEW x \in Change
  PROVE  [cs |-> x.cs, seq |-> x.seq] \in Cursor
BY FeedConstants DEF Change, Cursor

\* A bounded set of records has a last one.
LEMMA LastExists ==
  ASSUME NEW page \in SUBSET Change, page # {}, NEW b \in Nat, \A x \in page : x.cs <= b
  PROVE  LastOf(page) \in page
<1> DEFINE C == {x.cs : x \in page}
<1>1. C \in SUBSET Nat /\ C # {} /\ \A n \in C : n <= b BY DEF Change
<1>2. Max(C) \in C /\ \A n \in C : Max(C) >= n
  <2> HIDE DEF C
  <2>1. QED BY <1>1, MaxOfBounded
<1> DEFINE m == Max(C)
           top == {x \in page : x.cs = m}
           S == {x.seq : x \in top}
<1>3. \A x \in page : x.cs \in C OBVIOUS
<1>4. top # {} BY <1>2
<1>5. S \in SUBSET Nat /\ S # {} /\ \A n \in S : n <= MAX_SEQ
  <2>1. \A x \in top : x.seq \in Nat /\ x.seq <= MAX_SEQ BY FeedConstants DEF Change
  <2> HIDE DEF top
  <2>2. QED BY <1>4, <2>1
<1>6. Max(S) \in S /\ \A n \in S : Max(S) >= n
  <2> HIDE DEF S
  <2>1. QED BY <1>5, MaxOfBounded, FeedConstants
<1>7. PICK x \in top : x.seq = Max(S) BY <1>6
<1>8. \A y \in page : ~Before(x, y)
  <2> SUFFICES ASSUME NEW y \in page PROVE ~Before(x, y)
    OBVIOUS
  <2>1. x.cs \in Nat /\ y.cs \in Nat /\ x.seq \in Nat /\ y.seq \in Nat BY DEF Change
  <2>2. y.cs <= x.cs
    <3>1. x.cs = m /\ m \in Nat BY <1>1, <1>2
    <3>2. m >= y.cs BY <1>2, <1>3
    <3>3. QED BY <2>1, <3>1, <3>2
  <2>3. y.cs = x.cs => y.seq <= x.seq
    <3> SUFFICES ASSUME y.cs = x.cs PROVE y.seq <= x.seq
      OBVIOUS
    <3>1. y \in top OBVIOUS
    <3>2. y.seq \in S BY <3>1
    <3>3. Max(S) >= y.seq /\ Max(S) = x.seq BY <1>6, <1>7, <3>2
    <3>4. QED BY <2>1, <3>3
  <2>4. QED BY <2>1, <2>2, <2>3 DEF Before
<1>9. \E z \in page : \A y \in page : ~Before(z, y) BY <1>8
<1>10. QED BY <1>9 DEF LastOf

\* The head cursor is a cursor.
LEMMA HeadCursorType ==
  ASSUME TypeOK, Numbered
  PROVE  HeadCursor \in Cursor
BY HeadIsMax, FeedConstants DEF HeadCursor, Cursor

\* A bootstrap page keeps the types.
LEMMA ReadBootstrapType ==
  ASSUME TypeOK, NEW r \in Reader, NEW page \in SUBSET Entity, ReadBootstrap(r, page)
  PROVE  TypeOK'
<1>1. view' \in [Reader -> [Entity -> Held]]
  <2>1. \A e \in Entity : Entry(db, versions, r, e) \in Held BY EntryType
  <2>2. QED BY <2>1 DEF ReadBootstrap, TypeOK
<1>2. todo' \in [Reader -> SUBSET Entity] BY DEF ReadBootstrap, TypeOK
<1>3. phase' \in [Reader -> {"scopes", "boot", "live"}] BY DEF ReadBootstrap, TypeOK
<1>4. QED
  BY <1>1, <1>2, <1>3 DEF ReadBootstrap, TypeOK, server, txvars, history

\* What a successful /changes request does.
Page(r, page) ==
  /\ IsPage(page, RawChanges(r))
  /\ view' = [view EXCEPT ![r] =
                [e \in Entity |-> IF \E x \in page : x.entity = e
                                  THEN Entry(db, versions, r, e) ELSE @[e]]]
  /\ cursor' = [cursor EXCEPT ![r] =
                  IF page = RawChanges(r) THEN HeadCursor
                  ELSE [cs |-> LastOf(page).cs, seq |-> LastOf(page).seq]]

\* The outcomes of a /changes request: refused, nothing new, or a page.
LEMMA ChangesCases ==
  ASSUME NEW r \in Reader, ReadChanges(r)
  PROVE  \/ /\ CursorExpired(cursor[r])
            /\ phase' = [phase EXCEPT ![r] = "scopes"]
            /\ UNCHANGED <<cursor, view>>
         \/ /\ ~CursorExpired(cursor[r])
            /\ UNCHANGED phase
            /\ \/ /\ RawChanges(r) = {}
                  /\ cursor' = [cursor EXCEPT ![r] = HeadCursor]
                  /\ UNCHANGED view
               \/ \E page \in SUBSET RawChanges(r) : Page(r, page)
<1>1. CASE CursorExpired(cursor[r]) BY <1>1 DEF ReadChanges
<1>2. CASE ~CursorExpired(cursor[r])
  <2> DEFINE raw == RawChanges(r)
  <2>1. UNCHANGED phase BY <1>2 DEF ReadChanges
  <2>2. \/ /\ raw = {}
           /\ cursor' = [cursor EXCEPT ![r] = HeadCursor]
           /\ UNCHANGED view
        \/ \E page \in SUBSET raw : Page(r, page)
    BY <1>2 DEF ReadChanges, Page
  <2>3. QED BY <1>2, <2>1, <2>2
<1>3. QED BY <1>1, <1>2

\* The last record of a page is a record of it.
LEMMA PageLast ==
  ASSUME TypeOK, Numbered, NEW r \in Reader, NEW page, IsPage(page, RawChanges(r))
  PROVE  LastOf(page) \in page /\ page \in SUBSET Change
<1>1. page \in SUBSET Change /\ page # {} /\ page \subseteq log
  BY DEF IsPage, RawChanges, TypeOK
<1>2. \A x \in page : x.cs <= nextCommit BY <1>1 DEF Numbered, TypeOK, Change
<1>3. nextCommit \in Nat BY DEF TypeOK
<1>4. QED BY <1>1, <1>2, <1>3, LastExists

\* A /changes request keeps the types, whatever its outcome.
LEMMA ReadChangesType ==
  ASSUME TypeOK, Numbered, NEW r \in Reader, ReadChanges(r)
  PROVE  TypeOK'
<1>1. phase' \in [Reader -> {"scopes", "boot", "live"}]
  BY ChangesCases DEF TypeOK
<1>2. cursor' \in [Reader -> Cursor] /\ view' \in [Reader -> [Entity -> Held]]
  <2>1. CASE UNCHANGED <<cursor, view>> BY <2>1 DEF TypeOK
  <2>2. CASE cursor' = [cursor EXCEPT ![r] = HeadCursor] /\ UNCHANGED view
    BY <2>2, HeadCursorType DEF TypeOK
  <2>3. CASE \E page \in SUBSET RawChanges(r) : Page(r, page)
    <3>1. PICK page \in SUBSET RawChanges(r) : Page(r, page) BY <2>3
    <3>2. LastOf(page) \in Change BY <3>1, PageLast DEF Page
    <3>3. [cs |-> LastOf(page).cs, seq |-> LastOf(page).seq] \in Cursor
      BY <3>2, PositionType
    <3>4. cursor' \in [Reader -> Cursor]
      BY <3>1, <3>3, HeadCursorType DEF Page, TypeOK
    <3>5. \A e \in Entity : Entry(db, versions, r, e) \in Held BY EntryType
    <3>6. view' \in [Reader -> [Entity -> Held]]
      BY <3>1, <3>5 DEF Page, TypeOK
    <3>7. QED BY <3>4, <3>6
  <2>4. QED BY <2>1, <2>2, <2>3, ChangesCases
<1>3. UNCHANGED <<server, txvars, todo, history>> BY DEF ReadChanges
<1>4. QED BY <1>1, <1>2, <1>3 DEF TypeOK, server, txvars, history

\* Type correctness is kept by every step.
LEMMA TypeStep ==
  ASSUME TypeOK, Numbered, Next
  PROVE  TypeOK'
<1>1. CASE \E t \in Tx : Write(t)
  BY <1>1, InsertType, UpdateType, DeleteType DEF Write
<1>2. ASSUME NEW t \in Tx, AssignCommitSeq(t) PROVE TypeOK'
  BY <1>2 DEF AssignCommitSeq, TypeOK, readers, history
<1>3. CASE \E t \in Tx : Commit(t)
  BY <1>3, CommitType
<1>4. ASSUME NEW t \in Tx, Abort(t) PROVE TypeOK'
  BY <1>4, ResetType DEF Abort, TypeOK, server, readers, history
<1>5. ASSUME NEW b \in {x.cs : x \in log}, PurgeExpired(b) PROVE TypeOK'
  <2>1. b \in Nat BY DEF TypeOK, Change
  <2>2. minRetained' \in Nat
    <3>1. {minRetained, b} \in SUBSET Nat /\ \A n \in {minRetained, b} : n <= minRetained + b
      BY <2>1 DEF TypeOK
    <3>2. minRetained + b \in Nat BY <2>1 DEF TypeOK
    <3>3. Max({minRetained, b}) \in {minRetained, b} BY <3>1, <3>2, MaxOfBounded
    <3>4. QED BY <1>5, <3>1, <3>3 DEF PurgeExpired
  <2>3. QED BY <1>5, <2>2 DEF PurgeExpired, TypeOK, txvars, readers, history
<1>6. ASSUME NEW r \in Reader, ReadScopes(r) PROVE TypeOK'
  BY <1>6, HeadCursorType DEF ReadScopes, TypeOK, server, txvars, history
<1>7. CASE \E r \in Reader, page \in SUBSET Entity : ReadBootstrap(r, page)
  BY <1>7, ReadBootstrapType
<1>8. CASE \E r \in Reader : ReadChanges(r)
  BY <1>8, ReadChangesType
<1>9. QED BY <1>1, <1>2, <1>3, <1>4, <1>5, <1>6, <1>7, <1>8 DEF Next, Read

-----------------------------------------------------------------------------
(* Commit order.  The commit lock makes the number of a transaction that is *)
(* not visible yet larger than everything visible.                          *)

OneStamp == \A t, u \in Tx : stamp[t] # 0 /\ stamp[u] # 0 => t = u

StampAbove ==
  \A t \in Tx : stamp[t] # 0 =>
    /\ \A x \in log : x.cs < stamp[t]
    /\ minRetained < stamp[t]
    /\ \A r \in Reader : cursor[r].cs < stamp[t]

OrderInv == TypeOK /\ Numbered /\ OneStamp /\ StampAbove

\* A request moves a cursor only to a visible number.
LEMMA CursorStep ==
  ASSUME TypeOK, Numbered, NEW r \in Reader, Read(r), NEW q \in Reader
  PROVE  cursor'[q].cs \in {x.cs : x \in log} \cup {minRetained, cursor[q].cs}
<1>1. CASE cursor' = [cursor EXCEPT ![r] = HeadCursor]
  <2>1. HeadCursor.cs = Head BY DEF HeadCursor
  <2>2. QED BY <1>1, <2>1, HeadIsMax DEF TypeOK
<1>2. CASE UNCHANGED cursor
  BY <1>2
<1>3. CASE ReadChanges(r) /\ \E page \in SUBSET RawChanges(r) : Page(r, page)
  <2>1. PICK page \in SUBSET RawChanges(r) : Page(r, page) BY <1>3
  <2>2. LastOf(page) \in log
    BY <2>1, PageLast DEF Page, RawChanges
  <2>3. CASE page = RawChanges(r)
    BY <1>1, <2>1, <2>3 DEF Page
  <2>4. CASE page # RawChanges(r)
    BY <2>1, <2>2, <2>4 DEF Page, TypeOK
  <2>5. QED BY <2>3, <2>4
<1>4. CASE ReadChanges(r)
  BY <1>1, <1>2, <1>3, <1>4, ChangesCases
<1>5. CASE ReadScopes(r)
  BY <1>1, <1>5 DEF ReadScopes
<1>6. CASE \E page \in SUBSET Entity : ReadBootstrap(r, page)
  BY <1>2, <1>6 DEF ReadBootstrap
<1>7. QED BY <1>4, <1>5, <1>6 DEF Read

\* Reading changes no server state and no transaction.
LEMMA ReadFrame ==
  ASSUME NEW r \in Reader, Read(r)
  PROVE  UNCHANGED <<server, txvars, history>>
BY DEF Read, ReadScopes, ReadBootstrap, ReadChanges

\* Writing inside a transaction changes only that transaction.
LEMMA WriteFrame ==
  ASSUME NEW t \in Tx, Write(t)
  PROVE  UNCHANGED <<db, log, versions, minRetained, nextCommit, stamp, readers, history>>
BY DEF Write, Insert, Update, Delete, Emit

\* The invariant behind the commit order is kept by every step.
LEMMA OrderStep ==
  ASSUME OrderInv, Next
  PROVE  Numbered' /\ OneStamp' /\ StampAbove'
<1> USE DEF OrderInv
<1>0. /\ nextCommit \in Nat /\ minRetained \in Nat
      /\ \A x \in log : x.cs \in Nat
      /\ \A t \in Tx : stamp[t] \in Nat
      /\ \A r \in Reader : cursor[r].cs \in Nat
  BY DEF TypeOK, Change, Cursor
<1>1. ASSUME NEW t \in Tx, Write(t) PROVE Numbered' /\ OneStamp' /\ StampAbove'
  BY <1>1, WriteFrame DEF Numbered, OneStamp, StampAbove, readers
<1>2. ASSUME NEW t \in Tx, AssignCommitSeq(t) PROVE Numbered' /\ OneStamp' /\ StampAbove'
  <2>1. /\ UNCHANGED <<log, minRetained, cursor>>
        /\ nextCommit' = nextCommit + 1
        /\ stamp' = [stamp EXCEPT ![t] = nextCommit]
        /\ \A u \in Tx : stamp[u] = 0
    BY <1>2 DEF AssignCommitSeq, readers
  <2>2. \A u \in Tx : stamp'[u] = IF u = t THEN nextCommit ELSE 0
    BY <2>1 DEF TypeOK
  <2>3. Numbered' BY <1>0, <2>1, <2>2 DEF Numbered
  <2>4. OneStamp' BY <2>2 DEF OneStamp
  <2>5. StampAbove' BY <1>0, <2>1, <2>2 DEF StampAbove, Numbered
  <2>6. QED BY <2>3, <2>4, <2>5
<1>3. ASSUME NEW t \in Tx, Commit(t) PROVE Numbered' /\ OneStamp' /\ StampAbove'
  <2>1. /\ UNCHANGED <<minRetained, nextCommit, cursor>>
        /\ stamp[t] # 0
        /\ stamp' = [stamp EXCEPT ![t] = 0]
    BY <1>3 DEF Commit, Reset, readers
  <2>2. \A u \in Tx : stamp'[u] = 0 BY <2>1 DEF OneStamp, TypeOK
  <2>3. \A x \in log' : x \in log \/ x.cs = stamp[t] BY <1>3 DEF Commit
  <2>4. Numbered'
    <3>1. \A x \in log' : x.cs < nextCommit BY <2>3 DEF Numbered
    <3>2. \A u \in Tx : stamp'[u] < nextCommit BY <1>0, <2>2 DEF Numbered
    <3>3. QED BY <2>1, <3>1, <3>2 DEF Numbered
  <2>5. QED BY <2>2, <2>4 DEF OneStamp, StampAbove
<1>4. ASSUME NEW t \in Tx, Abort(t) PROVE Numbered' /\ OneStamp' /\ StampAbove'
  <2>1. /\ UNCHANGED <<log, minRetained, nextCommit, cursor>>
        /\ stamp' = [stamp EXCEPT ![t] = 0]
    BY <1>4 DEF Abort, Reset, server, readers
  <2>2. \A u \in Tx : stamp'[u] = IF u = t THEN 0 ELSE stamp[u] BY <2>1 DEF TypeOK
  <2>3. Numbered'
    <3>1. 0 < nextCommit BY DEF TypeOK
    <3>2. QED BY <2>1, <2>2, <3>1 DEF Numbered
  <2>4. OneStamp' BY <2>2 DEF OneStamp
  <2>5. StampAbove' BY <2>1, <2>2 DEF StampAbove
  <2>6. QED BY <2>3, <2>4, <2>5
<1>5. ASSUME NEW b \in {x.cs : x \in log}, PurgeExpired(b)
      PROVE  Numbered' /\ OneStamp' /\ StampAbove'
  <2>1. minRetained' \in {minRetained, b}
    <3>1. {minRetained, b} \in SUBSET Nat /\ \A n \in {minRetained, b} : n <= minRetained + b
      BY <1>0
    <3>2. minRetained + b \in Nat BY <1>0
    <3>3. Max({minRetained, b}) \in {minRetained, b} BY <3>1, <3>2, MaxOfBounded
    <3>4. QED BY <1>5, <3>3 DEF PurgeExpired
  <2>2. log' \subseteq log /\ UNCHANGED <<nextCommit, stamp, cursor>>
    BY <1>5 DEF PurgeExpired, txvars, readers
  <2>3. Numbered' BY <2>1, <2>2 DEF Numbered
  <2>4. OneStamp' BY <2>2 DEF OneStamp
  <2>5. StampAbove' BY <2>1, <2>2 DEF StampAbove
  <2>6. QED BY <2>3, <2>4, <2>5
<1>6. ASSUME NEW r \in Reader, Read(r) PROVE Numbered' /\ OneStamp' /\ StampAbove'
  <2>1. UNCHANGED <<log, minRetained, nextCommit, stamp>>
    BY <1>6, ReadFrame DEF server, txvars
  <2>2. \A q \in Reader :
          cursor'[q].cs \in {x.cs : x \in log} \cup {minRetained, cursor[q].cs}
    BY <1>6, CursorStep
  <2>3. Numbered' BY <2>1, <2>2 DEF Numbered
  <2>4. OneStamp' BY <2>1 DEF OneStamp
  <2>5. StampAbove' BY <2>1, <2>2 DEF StampAbove
  <2>6. QED BY <2>3, <2>4, <2>5
<1>7. QED BY <1>1, <1>2, <1>3, <1>4, <1>5, <1>6 DEF Next

\* The log starts empty and no number is drawn.
LEMMA OrderInit ==
  ASSUME Init
  PROVE  OrderInv
<1>1. 0 \in Nat /\ 0 \in 0..MAX_SEQ /\ 1 \in 1..(MAX_SEQ + 1) BY FeedConstants
<1>2. db \in [Entity -> Row \cup {Absent}] BY <1>1 DEF Init, Row
<1>3. cursor \in [Reader -> Cursor] BY <1>1 DEF Init, Cursor
<1>4. view \in [Reader -> [Entity -> Held]] BY DEF Init, Held
<1>5. TypeOK BY <1>1, <1>2, <1>3, <1>4 DEF Init, TypeOK
<1>6. Numbered /\ OneStamp /\ StampAbove BY DEF Init, Numbered, OneStamp, StampAbove
<1>7. QED BY <1>5, <1>6 DEF OrderInv

\* The state always has its type, and the numbers are ordered as OrderInv says.
THEOREM OrderInvariant == Spec => []OrderInv
<1>1. OrderInv /\ [Next]_vars => OrderInv'
  <2> SUFFICES ASSUME OrderInv, [Next]_vars PROVE OrderInv'
    OBVIOUS
  <2>1. CASE Next BY <2>1, OrderStep, TypeStep DEF OrderInv
  <2>2. CASE UNCHANGED vars
    BY <2>2 DEF OrderInv, TypeOK, Numbered, OneStamp, StampAbove,
       vars, server, txvars, readers, history
  <2>3. QED BY <2>1, <2>2
<1>2. QED BY <1>1, OrderInit, PTL DEF Spec

\* Every state the feed reaches has its type (all of schema_sql.py's triggers,
\* the commit trigger, the purge and the snapshot requests).
THEOREM TypeCorrect == Spec => []TypeOK
<1>1. OrderInv => TypeOK BY DEF OrderInv
<1>2. QED BY <1>1, OrderInvariant, PTL

\* What the commit lock is for: a number drawn by a transaction that is not
\* visible yet is above every visible record and every cursor handed out.
THEOREM CommitOrderHolds == Spec => []CommitOrder
<1>1. OrderInv => CommitOrder
  <2> SUFFICES ASSUME OrderInv, NEW t \in Tx, stamp[t] # 0
               PROVE  stamp[t] > Head /\ \A r \in Reader : stamp[t] > cursor[r].cs
    BY DEF CommitOrder
  <2>1. Head \in {x.cs : x \in log} \cup {minRetained} /\ Head \in Nat
    BY HeadIsMax DEF OrderInv
  <2>2. stamp[t] \in Nat /\ \A r \in Reader : cursor[r].cs \in Nat
    BY DEF OrderInv, TypeOK, Cursor
  <2>3. QED BY <2>1, <2>2 DEF OrderInv, StampAbove
<1>2. QED BY <1>1, OrderInvariant, PTL

-----------------------------------------------------------------------------
(* Nothing is missed.  Why a reader's row may differ from the current one. *)

Excused(r, e) ==
  \/ phase[r] = "scopes" \/ e \in todo[r]
  \/ CursorExpired(cursor[r])
  \/ \E x \in RawChanges(r) : x.entity = e
  \/ \E s \in Visible[r] : <<e, s>> \in unlogged

Fresh(r, e) == SameRow(view[r][e], Entry(db, versions, r, e))

\* A commit that changes what reader r may see of row e changes it in a scope
\* r sees, so it tells r of it or is counted as unlogged.
LEMMA CommitTells ==
  ASSUME OrderInv, NEW t \in Tx, Commit(t), NEW r \in Reader, NEW e \in Entity,
         Fresh(r, e) \/ Excused(r, e)
  PROVE  Fresh(r, e)' \/ Excused(r, e)'
<1> USE DEF OrderInv
<1>1. /\ UNCHANGED <<minRetained, phase, cursor, todo, view>>
      /\ log \subseteq log'
      /\ stamp[t] # 0
  BY DEF Commit, readers
<1>2. ASSUME NEW s \in Visible[r], Tells(t, e, s) PROVE Excused(r, e)'
  <2>1. PICK x \in buf[t] : x.entity = e /\ x.scope = s BY <1>2 DEF Tells
  <2> DEFINE y == [seq |-> x.seq, entity |-> x.entity, scope |-> x.scope, cs |-> stamp[t]]
  <2>2. y \in log' BY DEF Commit
  <2>3. cursor[r].cs < y.cs BY <1>1 DEF StampAbove
  <2>4. y \in RawChanges(r)'
    BY <1>1, <2>1, <2>2, <2>3 DEF RawChanges, Before
  <2>5. y.entity = e BY <2>1
  <2>6. QED BY <2>4, <2>5 DEF Excused
<1>3. ASSUME NEW s \in Visible[r], ~Tells(t, e, s),
             <<e, s>> \in unlogged \/ ChangesFor(db', e, s)
      PROVE  Excused(r, e)'
  <2>1. s \in Scope BY FeedConstants
  <2>2. <<e, s>> \in unlogged' BY <1>3, <2>1 DEF Commit
  <2>3. QED BY <2>2 DEF Excused
<1>4. CASE Excused(r, e)
  <2>1. CASE phase[r] = "scopes" \/ e \in todo[r] \/ CursorExpired(cursor[r])
    BY <1>1, <2>1 DEF Excused, CursorExpired
  <2>2. CASE \E x \in RawChanges(r) : x.entity = e
    BY <1>1, <2>2 DEF Excused, RawChanges
  <2>3. CASE \E s \in Visible[r] : <<e, s>> \in unlogged
    BY <1>2, <1>3, <2>3
  <2>4. QED BY <1>4, <2>1, <2>2, <2>3 DEF Excused
<1>5. CASE Fresh(r, e)
  <2> DEFINE now == EffScope(db, e)
             next == EffScope(db', e)
  <2>1. CASE \E s \in Visible[r] : ChangesFor(db', e, s)
    BY <1>2, <1>3, <2>1
  <2>2. CASE \A s \in Visible[r] : ~ChangesFor(db', e, s)
    <3>1. NoScope \notin Visible[r] BY FeedConstants
    <3>2. (now \in Visible[r] \/ next \in Visible[r]) => db[e] = db'[e] /\ now = next
      BY <2>2, <3>1 DEF ChangesFor
    <3>3. CASE now \in Visible[r] \/ next \in Visible[r]
      <4>1. db[e] = db'[e] /\ EffScope(db, e) = EffScope(db', e) BY <3>2, <3>3
      <4>2. SameRow(Entry(db, versions, r, e), Entry(db', versions', r, e))
        <5>1. CASE db[e] # Absent /\ now \in Visible[r]
          <6> DEFINE rec(v) == [rev |-> db[e].rev, scope |-> now, version |-> v]
          <6>1. Entry(db, versions, r, e) = rec(versions[e])
            BY <5>1 DEF Entry
          <6>2. Entry(db', versions', r, e) = rec(versions'[e])
            BY <4>1, <5>1 DEF Entry
          <6>3. db[e] \in Row /\ now \in Scope
            BY <5>1, FeedConstants DEF TypeOK
          <6>4. versions[e] \in Nat /\ versions'[e] \in Nat
            BY CommitType DEF TypeOK
          <6>5. \A v \in Nat : rec(v) # Absent
            <7>1. \A v \in Nat : rec(v) \in HeldRow BY <6>3 DEF HeldRow, Row
            <7>2. QED BY <7>1, FeedSentinels
          <6>6. QED BY <6>1, <6>2, <6>4, <6>5 DEF SameRow
        <5>2. CASE ~(db[e] # Absent /\ now \in Visible[r])
          <6>1. Entry(db, versions, r, e) = Absent BY <5>2 DEF Entry
          <6>2. Entry(db', versions', r, e) = Absent BY <4>1, <5>2 DEF Entry
          <6>3. QED BY <6>1, <6>2 DEF SameRow
        <5>3. QED BY <5>1, <5>2
      <4>3. SameRow(view[r][e], Entry(db', versions', r, e))
        <5>1. ASSUME NEW a, NEW b, NEW c, SameRow(a, b), SameRow(b, c)
              PROVE  SameRow(a, c)
          BY <5>1 DEF SameRow
        <5>2. QED BY <1>5, <4>2, <5>1 DEF Fresh
      <4>4. QED BY <1>1, <4>3 DEF Fresh
    <3>4. CASE now \notin Visible[r] /\ next \notin Visible[r]
      <4>1. Entry(db, versions, r, e) = Absent /\ Entry(db', versions', r, e) = Absent
        BY <3>4 DEF Entry
      <4>2. QED BY <1>1, <1>5, <4>1 DEF Fresh
    <3>5. QED BY <3>3, <3>4
  <2>3. QED BY <2>1, <2>2
<1>6. QED BY <1>4, <1>5

\* A purge that removes a record a reader has not read makes its cursor expire.
LEMMA PurgeExpires ==
  ASSUME OrderInv, NEW b \in {x.cs : x \in log}, PurgeExpired(b),
         NEW r \in Reader, NEW e \in Entity, Fresh(r, e) \/ Excused(r, e)
  PROVE  Fresh(r, e)' \/ Excused(r, e)'
<1> USE DEF OrderInv
<1>1. UNCHANGED <<db, versions, phase, cursor, todo, view, unlogged>>
  BY DEF PurgeExpired, readers, history
<1>2. b \in Nat /\ b > 0 /\ minRetained \in Nat /\ cursor[r].cs \in Nat /\ cursor[r].seq \in 0..MAX_SEQ
  BY DEF TypeOK, Change, Cursor
<1>3. minRetained' \in Nat /\ minRetained' >= b /\ minRetained' >= minRetained
  <2>1. {minRetained, b} \in SUBSET Nat /\ \A n \in {minRetained, b} : n <= minRetained + b
    BY <1>2
  <2>2. minRetained + b \in Nat BY <1>2
  <2>3. /\ Max({minRetained, b}) \in {minRetained, b}
        /\ \A n \in {minRetained, b} : Max({minRetained, b}) >= n
    BY <2>1, <2>2, MaxOfBounded
  <2>4. QED BY <1>2, <2>3 DEF PurgeExpired
<1>4. CASE CursorExpired(cursor[r])
  BY <1>1, <1>2, <1>3, <1>4, FeedConstants DEF Excused, CursorExpired, Before
<1>5. CASE \E x \in RawChanges(r) : x.entity = e
  <2>1. PICK x \in RawChanges(r) : x.entity = e BY <1>5
  <2>2. x \in Change /\ x \in log /\ Before(cursor[r], x) /\ x.scope \in Visible[r]
    BY <2>1 DEF RawChanges, TypeOK
  <2>3. CASE x.cs > b
    <3>1. x \in log' BY <2>2, <2>3 DEF PurgeExpired
    <3>2. x \in RawChanges(r)' BY <1>1, <2>2, <3>1 DEF RawChanges
    <3>3. QED BY <2>1, <3>2 DEF Excused
  <2>4. CASE ~(x.cs > b)
    <3>1. x.cs <= minRetained' /\ x.cs \in Nat /\ x.seq \in 1..MAX_SEQ
      BY <1>2, <1>3, <2>2, <2>4 DEF Change
    <3>2. Before(cursor[r], [cs |-> minRetained', seq |-> MAX_SEQ])
      BY <1>2, <1>3, <2>2, <3>1, FeedConstants DEF Before
    <3>3. CursorExpired(cursor[r])'
      BY <1>1, <1>2, <1>3, <3>2 DEF CursorExpired
    <3>4. QED BY <3>3 DEF Excused
  <2>5. QED BY <2>3, <2>4
<1>6. CASE Fresh(r, e) BY <1>1, <1>6 DEF Fresh
<1>7. CASE phase[r] = "scopes" \/ e \in todo[r] \/ \E s \in Visible[r] : <<e, s>> \in unlogged
  BY <1>1, <1>7 DEF Excused
<1>8. QED BY <1>4, <1>5, <1>6, <1>7 DEF Excused

\* A page gives its rows their current contents and leaves the others after the cursor.
LEMMA PageKeeps ==
  ASSUME OrderInv, NEW r \in Reader, ReadChanges(r), NEW page \in SUBSET RawChanges(r),
         Page(r, page), NEW e \in Entity, UNCHANGED phase, ~CursorExpired(cursor[r]),
         Fresh(r, e) \/ Excused(r, e)
  PROVE  Fresh(r, e)' \/ Excused(r, e)'
<1> USE DEF OrderInv
<1>1. UNCHANGED <<db, log, versions, minRetained, todo, unlogged, phase>>
  BY DEF ReadChanges, server, history
<1>2. CASE \E x \in page : x.entity = e
  <2>1. view'[r][e] = Entry(db, versions, r, e) BY <1>2 DEF Page, TypeOK
  <2>2. QED BY <1>1, <2>1 DEF Fresh, SameRow
<1>3. CASE ~\E x \in page : x.entity = e
  <2>1. view'[r][e] = view[r][e] BY <1>3 DEF Page, TypeOK
  <2>2. CASE Fresh(r, e) BY <1>1, <2>1, <2>2 DEF Fresh
  <2>3. CASE phase[r] = "scopes" \/ e \in todo[r] \/ \E s \in Visible[r] : <<e, s>> \in unlogged
    BY <1>1, <2>3 DEF Excused
  <2>4. CASE \E x \in RawChanges(r) : x.entity = e
    <3>1. PICK x \in RawChanges(r) : x.entity = e BY <2>4
    <3>2. x \notin page BY <1>3, <3>1
    <3>3. LastOf(page) \in page BY PageLast DEF Page
    <3>4. Before(LastOf(page), x) BY <3>1, <3>2, <3>3 DEF Page, IsPage
    <3>5. cursor'[r] = [cs |-> LastOf(page).cs, seq |-> LastOf(page).seq]
      BY <3>1, <3>2 DEF Page, TypeOK
    <3>6. Before(cursor'[r], x) BY <3>4, <3>5 DEF Before
    <3>7. x \in RawChanges(r)' BY <1>1, <3>1, <3>6 DEF RawChanges
    <3>8. QED BY <3>1, <3>7 DEF Excused
  <2>5. QED BY <2>2, <2>3, <2>4 DEF Excused
<1>4. QED BY <1>2, <1>3

\* The requests of a reader lose nothing it still has to read.
LEMMA ReadKeeps ==
  ASSUME OrderInv, NEW r \in Reader, Read(r), NEW q \in Reader, NEW e \in Entity,
         Fresh(q, e) \/ Excused(q, e)
  PROVE  Fresh(q, e)' \/ Excused(q, e)'
<1> USE DEF OrderInv
<1>1. UNCHANGED <<db, log, versions, minRetained, unlogged>>
  BY ReadFrame DEF server, history
<1>2. CASE /\ phase'[q] = phase[q] /\ cursor'[q] = cursor[q]
           /\ todo'[q] = todo[q] /\ view'[q] = view[q]
  BY <1>1, <1>2 DEF Fresh, Excused, CursorExpired, RawChanges
<1>3. CASE ReadScopes(r)
  <2>1. q = r => phase'[q] = "boot" /\ e \in todo'[q] BY <1>3 DEF ReadScopes, TypeOK
  <2>2. q # r => /\ phase'[q] = phase[q] /\ cursor'[q] = cursor[q]
                 /\ todo'[q] = todo[q] /\ view'[q] = view[q]
    BY <1>3 DEF ReadScopes, TypeOK
  <2>3. QED BY <1>2, <2>1, <2>2 DEF Excused
<1>4. ASSUME NEW page \in SUBSET Entity, ReadBootstrap(r, page)
      PROVE  Fresh(q, e)' \/ Excused(q, e)'
  <2>1. q # r => /\ phase'[q] = phase[q] /\ cursor'[q] = cursor[q]
                 /\ todo'[q] = todo[q] /\ view'[q] = view[q]
    BY <1>4 DEF ReadBootstrap, TypeOK
  <2>2. CASE q = r /\ e \in page
    <3>1. view'[q][e] = Entry(db, versions, q, e) BY <1>4, <2>2 DEF ReadBootstrap, TypeOK
    <3>2. QED BY <1>1, <3>1 DEF Fresh, SameRow
  <2>3. CASE q = r /\ e \notin page
    <3>1. view'[q][e] = view[q][e] /\ cursor'[q] = cursor[q] /\ (e \in todo[q] => e \in todo'[q])
      BY <1>4, <2>3 DEF ReadBootstrap, TypeOK
    <3>2. phase[q] = "boot" BY <1>4, <2>3 DEF ReadBootstrap
    <3>3. QED BY <1>1, <3>1, <3>2 DEF Fresh, Excused, CursorExpired, RawChanges
  <2>4. QED BY <1>2, <2>1, <2>2, <2>3
<1>5. CASE ReadChanges(r)
  <2>1. todo' = todo BY <1>5 DEF ReadChanges
  <2>2. CASE q # r
    <3>1. phase'[q] = phase[q] /\ cursor'[q] = cursor[q] /\ view'[q] = view[q]
      BY <1>5, <2>2, ChangesCases DEF Page, TypeOK
    <3>2. QED BY <1>2, <2>1, <3>1
  <2>3. CASE q = r /\ CursorExpired(cursor[r])
    <3>1. phase' = [phase EXCEPT ![r] = "scopes"] BY <1>5, <2>3, ChangesCases
    <3>2. phase'[q] = "scopes" BY <2>3, <3>1 DEF TypeOK
    <3>3. QED BY <3>2 DEF Excused
  <2>4. CASE /\ q = r /\ ~CursorExpired(cursor[r]) /\ UNCHANGED phase
             /\ RawChanges(r) = {} /\ UNCHANGED view
    <3>1. Fresh(q, e) \/ phase[q] = "scopes" \/ e \in todo[q]
          \/ \E s \in Visible[q] : <<e, s>> \in unlogged
      BY <2>4 DEF Excused
    <3>2. QED BY <1>1, <2>1, <2>4, <3>1 DEF Fresh, Excused
  <2>5. CASE /\ q = r /\ ~CursorExpired(cursor[r]) /\ UNCHANGED phase
             /\ \E page \in SUBSET RawChanges(r) : Page(r, page)
    BY <1>5, <2>5, PageKeeps
  <2>6. QED BY <1>5, <2>2, <2>3, <2>4, <2>5, ChangesCases
<1>6. QED BY <1>3, <1>4, <1>5 DEF Read

\* Inside a transaction nothing a reader sees changes.
LEMMA InvisibleKeeps ==
  ASSUME UNCHANGED <<db, log, versions, minRetained, readers, unlogged>>,
         NEW r \in Reader, NEW e \in Entity, Fresh(r, e) \/ Excused(r, e)
  PROVE  Fresh(r, e)' \/ Excused(r, e)'
BY DEF readers, Fresh, Excused, CursorExpired, RawChanges

MissInv == \A r \in Reader, e \in Entity : Fresh(r, e) \/ Excused(r, e)

\* Every step keeps it; one case per action.
LEMMA MissStep ==
  ASSUME OrderInv, MissInv, [Next]_vars
  PROVE  MissInv'
<1> SUFFICES ASSUME NEW r \in Reader, NEW e \in Entity
             PROVE  Fresh(r, e)' \/ Excused(r, e)'
  BY DEF MissInv
<1>0. Fresh(r, e) \/ Excused(r, e) BY DEF MissInv
<1>1. CASE \E t \in Tx : Write(t)
  BY <1>0, <1>1, WriteFrame, InvisibleKeeps DEF history
<1>2. CASE \E t \in Tx : AssignCommitSeq(t)
  BY <1>0, <1>2, InvisibleKeeps DEF AssignCommitSeq, history
<1>3. CASE \E t \in Tx : Commit(t)
  BY <1>0, <1>3, CommitTells
<1>4. CASE \E t \in Tx : Abort(t)
  BY <1>0, <1>4, InvisibleKeeps DEF Abort, server, history
<1>5. CASE \E b \in {x.cs : x \in log} : PurgeExpired(b)
  BY <1>0, <1>5, PurgeExpires
<1>6. CASE \E q \in Reader : Read(q)
  BY <1>0, <1>6, ReadKeeps
<1>7. CASE UNCHANGED vars
  BY <1>0, <1>7, InvisibleKeeps DEF vars, server, history
<1>8. QED BY <1>1, <1>2, <1>3, <1>4, <1>5, <1>6, <1>7 DEF Next

\* The promise of the feed: whatever the interleaving of commits, rollbacks,
\* purges and page boundaries, a reader's copy of a row is out of date only while
\* something it will still do brings it up to date.
THEOREM NothingMissedHolds == Spec => []NothingMissed
<1>1. Init => MissInv
  BY DEF Init, MissInv, Excused
<1>2. OrderInv /\ MissInv /\ [Next]_vars => MissInv'
  BY MissStep
<1>3. MissInv => NothingMissed
  BY DEF MissInv, NothingMissed, Fresh, Excused
<1>4. QED BY <1>1, <1>2, <1>3, OrderInvariant, PTL DEF Spec

-----------------------------------------------------------------------------
(* The cursor never goes back.  The head never does, and no cursor is above *)
(* it: that needs the retention mark, for a purge may empty the log.        *)

BelowHead == \A r \in Reader : cursor[r].cs <= Head

\* The same of the head after a step.
LEMMA NextHeadIsMax ==
  ASSUME TypeOK', Numbered'
  PROVE  Head' \in Nat /\ minRetained' <= Head' /\ \A x \in log' : x.cs <= Head'
<1> DEFINE S == {x.cs : x \in log'} \cup {minRetained'}
<1>1. S \in SUBSET Nat /\ S # {}
  BY DEF TypeOK, Change
<1>2. \A n \in S : n <= nextCommit'
  BY <1>1 DEF TypeOK, Change, Numbered
<1>3. Max(S) \in S /\ \A n \in S : Max(S) >= n
  <2> HIDE DEF S
  <2>1. nextCommit' \in Nat BY DEF TypeOK
  <2>2. QED BY <1>1, <1>2, <2>1, MaxOfBounded
<1>4. QED BY <1>1, <1>3 DEF Head

\* What is visible only grows, or is replaced by the retention mark.
LEMMA HeadGrows ==
  ASSUME OrderInv, OrderInv', [Next]_vars
  PROVE  Head <= Head'
<1> USE DEF OrderInv
<1>1. /\ Head \in {x.cs : x \in log} \cup {minRetained} /\ Head \in Nat
  BY HeadIsMax
<1>2. /\ Head' \in Nat /\ minRetained' <= Head'
      /\ \A x \in log' : x.cs <= Head'
  BY NextHeadIsMax
<1>3. CASE log \subseteq log' /\ minRetained' = minRetained
  BY <1>1, <1>2, <1>3
<1>4. ASSUME NEW b \in {x.cs : x \in log}, PurgeExpired(b) PROVE Head <= Head'
  <2>1. b \in Nat /\ minRetained \in Nat /\ \A x \in log : x.cs \in Nat
    BY DEF TypeOK, Change
  <2>2. minRetained' \in Nat /\ minRetained' >= b /\ minRetained' >= minRetained
    <3>1. {minRetained, b} \in SUBSET Nat /\ \A n \in {minRetained, b} : n <= minRetained + b
      BY <2>1
    <3>2. minRetained + b \in Nat BY <2>1
    <3>3. /\ Max({minRetained, b}) \in {minRetained, b}
          /\ \A n \in {minRetained, b} : Max({minRetained, b}) >= n
      BY <3>1, <3>2, MaxOfBounded
    <3>4. QED BY <2>1, <3>3, <1>4 DEF PurgeExpired
  <2>3. \A x \in log : x.cs > b => x \in log' BY <1>4 DEF PurgeExpired
  <2>4. CASE Head = minRetained BY <1>1, <1>2, <2>1, <2>2, <2>4
  <2>5. CASE \E x \in log : Head = x.cs
    <3>1. PICK x \in log : Head = x.cs BY <2>5
    <3>2. CASE x.cs > b BY <1>2, <2>3, <3>1, <3>2
    <3>3. CASE ~(x.cs > b) BY <1>1, <1>2, <2>1, <2>2, <3>1, <3>3
    <3>4. QED BY <3>2, <3>3
  <2>6. QED BY <1>1, <2>4, <2>5
<1>5. CASE \E t \in Tx : Write(t) BY <1>3, <1>5, WriteFrame
<1>6. CASE \E t \in Tx : AssignCommitSeq(t) BY <1>3, <1>6 DEF AssignCommitSeq
<1>7. CASE \E t \in Tx : Commit(t) BY <1>3, <1>7 DEF Commit
<1>8. CASE \E t \in Tx : Abort(t) BY <1>3, <1>8 DEF Abort, server
<1>9. CASE \E r \in Reader : Read(r) BY <1>3, <1>9, ReadFrame DEF server
<1>10. CASE UNCHANGED vars BY <1>3, <1>10 DEF vars, server
<1>11. QED BY <1>4, <1>5, <1>6, <1>7, <1>8, <1>9, <1>10 DEF Next

\* Only a reader's own requests move its cursor.
LEMMA CursorFrame ==
  ASSUME [Next]_vars, ~\E r \in Reader : Read(r)
  PROVE  UNCHANGED cursor
BY WriteFrame DEF Next, vars, AssignCommitSeq, Commit, Abort, PurgeExpired, readers

\* Cursors stay at or below the head.
LEMMA BelowHeadStep ==
  ASSUME OrderInv, OrderInv', BelowHead, [Next]_vars
  PROVE  BelowHead'
<1> SUFFICES ASSUME NEW q \in Reader PROVE cursor'[q].cs <= Head'
  BY DEF BelowHead
<1>1. Head \in Nat /\ (\A x \in log : x.cs <= Head) /\ minRetained <= Head
  BY HeadIsMax DEF OrderInv
<1>2. cursor'[q].cs <= Head
  <2>1. CASE \E r \in Reader : Read(r)
    <3>1. cursor'[q].cs \in {x.cs : x \in log} \cup {minRetained, cursor[q].cs}
      BY <2>1, CursorStep DEF OrderInv
    <3>2. QED BY <1>1, <3>1 DEF BelowHead
  <2>2. CASE ~\E r \in Reader : Read(r)
    BY <2>2, CursorFrame DEF BelowHead
  <2>3. QED BY <2>1, <2>2
<1>3. cursor'[q].cs \in Nat /\ Head' \in Int
  <2>1. cursor'[q].cs \in Nat BY DEF OrderInv, TypeOK, Cursor
  <2>2. Head' \in Nat BY NextHeadIsMax DEF OrderInv
  <2>3. QED BY <2>1, <2>2
<1>4. Head <= Head' BY HeadGrows
<1>5. QED BY <1>1, <1>2, <1>3, <1>4

\* The head cursor is not before a cursor at or below the head.
LEMMA HeadCursorLast ==
  ASSUME OrderInv, BelowHead, NEW q \in Reader
  PROVE  ~Before(HeadCursor, cursor[q])
<1>1. /\ cursor[q].cs \in Nat /\ cursor[q].seq \in 0..MAX_SEQ
      /\ cursor[q].cs <= Head /\ Head \in Nat
  BY HeadIsMax DEF OrderInv, TypeOK, Cursor, BelowHead
<1>2. QED BY <1>1, FeedConstants DEF HeadCursor, Before

\* A request moves a cursor forward or not at all.
LEMMA ReadAdvances ==
  ASSUME OrderInv, BelowHead, NEW r \in Reader, Read(r), NEW q \in Reader
  PROVE  ~Before(cursor'[q], cursor[q])
<1> USE DEF OrderInv
<1>1. cursor[q].cs \in Nat /\ cursor[q].seq \in Nat
  BY FeedConstants DEF TypeOK, Cursor
<1>2. CASE cursor'[q] = cursor[q] BY <1>1, <1>2 DEF Before
<1>3. CASE cursor'[q] = HeadCursor BY <1>3, HeadCursorLast
<1>4. CASE cursor' = [cursor EXCEPT ![r] = HeadCursor]
  BY <1>2, <1>3, <1>4 DEF TypeOK
<1>5. ASSUME NEW page \in SUBSET RawChanges(r), Page(r, page)
      PROVE  ~Before(cursor'[q], cursor[q])
  <2>1. CASE page = RawChanges(r) BY <1>4, <1>5, <2>1 DEF Page
  <2>2. CASE page # RawChanges(r)
    <3> DEFINE x == LastOf(page)
    <3>1. cursor' = [cursor EXCEPT ![r] = [cs |-> x.cs, seq |-> x.seq]]
      BY <1>5, <2>2 DEF Page
    <3>2. x \in page /\ x \in Change BY <1>5, PageLast DEF Page
    <3>3. Before(cursor[r], x) BY <3>2 DEF RawChanges
    <3> HIDE DEF x
    <3>4. CASE q = r
      <4>1. cursor'[q] = [cs |-> x.cs, seq |-> x.seq] BY <3>1, <3>4 DEF TypeOK
      <4>2. x.cs \in Nat /\ x.seq \in Nat BY <3>2 DEF Change
      <4>3. QED BY <1>1, <3>3, <3>4, <4>1, <4>2 DEF Before
    <3>5. CASE q # r BY <1>2, <3>1, <3>5 DEF TypeOK
    <3>6. QED BY <3>4, <3>5
  <2>3. QED BY <2>1, <2>2
<1>6. CASE UNCHANGED cursor BY <1>2, <1>6
<1>7. CASE ReadScopes(r) BY <1>4, <1>7 DEF ReadScopes
<1>8. CASE \E page \in SUBSET Entity : ReadBootstrap(r, page)
  BY <1>6, <1>8 DEF ReadBootstrap
<1>9. CASE ReadChanges(r) BY <1>4, <1>5, <1>6, <1>9, ChangesCases
<1>10. QED BY <1>7, <1>8, <1>9 DEF Read

\* A reader's cursor never goes back, whatever is purged in between.
THEOREM CursorAdvancesHolds == Spec => CursorAdvances
<1>1. Init => BelowHead
  <2> SUFFICES ASSUME Init, NEW r \in Reader PROVE cursor[r].cs <= Head
    BY DEF BelowHead
  <2>1. Head \in Nat BY OrderInit, HeadIsMax DEF OrderInv
  <2>2. cursor[r].cs = 0 BY DEF Init
  <2>3. QED BY <2>1, <2>2
<1>2. OrderInv /\ OrderInv' /\ BelowHead /\ [Next]_vars => BelowHead'
  BY BelowHeadStep
<1>3. OrderInv /\ BelowHead /\ [Next]_vars
        => [\A r \in Reader : phase[r] = "live" /\ phase'[r] = "live"
                                => ~Before(cursor'[r], cursor[r])]_vars
  <2> SUFFICES ASSUME OrderInv, BelowHead, Next, NEW q \in Reader
               PROVE  ~Before(cursor'[q], cursor[q])
    OBVIOUS
  <2>1. CASE \E r \in Reader : Read(r) BY <2>1, ReadAdvances
  <2>2. CASE ~\E r \in Reader : Read(r)
    <3>1. UNCHANGED cursor BY <2>2, CursorFrame
    <3>2. cursor[q].cs \in Nat /\ cursor[q].seq \in Nat
      BY FeedConstants DEF OrderInv, TypeOK, Cursor
    <3>3. QED BY <3>1, <3>2 DEF Before
  <2>3. QED BY <2>1, <2>2
<1>4. QED BY <1>1, <1>2, <1>3, OrderInvariant, PTL DEF Spec, CursorAdvances

-----------------------------------------------------------------------------
(* A row_version names one contents of a row.  Versions are drawn under the *)
(* commit lock, and a transaction logs every row it writes.                 *)

VersionsBelow ==
  \A e \in Entity :
    /\ versions[e] < nextCommit
    /\ \A t \in Tx : stamp[t] # 0 => versions[e] < stamp[t]

WritesLogged ==
  \A t \in Tx, e \in Entity : writes[t][e] # Unwritten => \E x \in buf[t] : x.entity = e

ViewVersions ==
  \A r \in Reader, e \in Entity : view[r][e] # Absent =>
    /\ view[r][e].version <= versions[e]
    /\ db[e] # Absent /\ view[r][e].version = versions[e] => view[r][e].rev = db[e].rev

VersionInv == VersionsBelow /\ WritesLogged /\ ViewVersions

\* INSERT, UPDATE and DELETE log every row they write, the cascade included.
LEMMA WriteLogs ==
  ASSUME OrderInv, WritesLogged, NEW t \in Tx, Write(t)
  PROVE  WritesLogged'
<1> USE DEF OrderInv
<1>1. ASSUME NEW rows, NEW new, NEW n, Emit(t, rows, new, n),
             \A e \in Entity : rows[e] = writes[t][e] \/ \E x \in new : x.entity = e
      PROVE  WritesLogged'
  <2>1. /\ writes' = [writes EXCEPT ![t] = rows]
        /\ buf' = [buf EXCEPT ![t] = @ \cup new]
    BY <1>1 DEF Emit
  <2>2. \A u \in Tx : /\ writes'[u] = IF u = t THEN rows ELSE writes[u]
                      /\ buf'[u] = IF u = t THEN buf[t] \cup new ELSE buf[u]
    BY <2>1 DEF TypeOK
  <2>3. QED BY <1>1, <2>2 DEF WritesLogged
<1>2. ASSUME NEW e \in Entity, NEW row, NEW new, NEW n, NEW x \in new, x.entity = e,
             Emit(t, [writes[t] EXCEPT ![e] = row], new, n)
      PROVE  WritesLogged'
  <2> DEFINE rows == [writes[t] EXCEPT ![e] = row]
  <2>1. \A f \in Entity : rows[f] = writes[t][f] \/ \E y \in new : y.entity = f
    BY <1>2 DEF TypeOK
  <2>2. Emit(t, rows, new, n) BY <1>2
  <2> HIDE DEF rows
  <2>3. QED BY <1>1, <2>1, <2>2
<1>3. ASSUME NEW e \in Entity, NEW s \in Scope, Insert(t, e, s) PROVE WritesLogged'
  <2> DEFINE row == [scope |-> IF Root(e) THEN s ELSE NoScope, rev |-> nextSeq]
             now == LogEntry(e, TriggerScope([ViewOf(t) EXCEPT ![e] = row], LoggedBy(t), e), nextSeq)
  <2>1. Emit(t, [writes[t] EXCEPT ![e] = row], {now}, 1) BY <1>3 DEF Insert
  <2>2. now.entity = e BY DEF LogEntry
  <2> HIDE DEF row, now
  <2>3. QED BY <1>2, <2>1, <2>2
<1>4. ASSUME NEW e \in Entity, NEW s \in Scope, Update(t, e, s) PROVE WritesLogged'
  <2> DEFINE old == ViewOf(t)[e]
             row == [scope |-> IF Root(e) THEN s ELSE NoScope, rev |-> nextSeq]
             now == LogEntry(e, TriggerScope([ViewOf(t) EXCEPT ![e] = row], LoggedBy(t), e), nextSeq)
             was == LogEntry(e, old.scope, nextSeq + 1)
  <2>1. \/ Emit(t, [writes[t] EXCEPT ![e] = row], {now}, 1)
        \/ Emit(t, [writes[t] EXCEPT ![e] = row], {now, was}, 2)
    BY <1>4 DEF Update
  <2>2. now.entity = e BY DEF LogEntry
  <2> HIDE DEF row, now, was
  <2>3. QED BY <1>2, <2>1, <2>2
<1>5. ASSUME NEW e \in Entity, Delete(t, e) PROVE WritesLogged'
  <2> DEFINE seen == ViewOf(t)
             kids == {k \in Children(e) : seen[k] # Absent}
             own == LogEntry(e, TriggerScope(seen, LoggedBy(t), e), nextSeq)
             kidScope == ParentScope([seen EXCEPT ![e] = Absent], LoggedBy(t) \cup {own}, e)
             rows == [f \in Entity |-> IF f \in kids \cup {e} THEN Absent ELSE writes[t][f]]
  <2>1. PICK n \in [kids -> (nextSeq + 1)..(nextSeq + Cardinality(kids))] :
          Emit(t, rows, {own} \cup {LogEntry(k, kidScope, n[k]) : k \in kids}, Cardinality(kids) + 1)
    BY <1>5 DEF Delete
  <2> DEFINE new == {own} \cup {LogEntry(k, kidScope, n[k]) : k \in kids}
  <2>2. own \in new /\ own.entity = e BY DEF LogEntry
  <2>3. \A k \in kids : \E x \in new : x.entity = k
    <3> HIDE DEF own, kidScope, kids
    <3>1. \A k \in kids : LogEntry(k, kidScope, n[k]) \in new OBVIOUS
    <3>2. \A k \in kids : LogEntry(k, kidScope, n[k]).entity = k BY DEF LogEntry
    <3>3. QED BY <3>1, <3>2
  <2>4. \A f \in Entity : rows[f] = writes[t][f] \/ \E x \in new : x.entity = f
    <3> HIDE DEF own, kids, new
    <3>1. QED BY <2>2, <2>3
  <2>5. Emit(t, rows, new, Cardinality(kids) + 1) BY <2>1
  <2> HIDE DEF rows, new, kids
  <2>6. QED BY <1>1, <2>4, <2>5
<1>6. QED BY <1>3, <1>4, <1>5 DEF Write

\* A transaction that ends has written nothing any more.
LEMMA ResetLogs ==
  ASSUME OrderInv, WritesLogged, NEW t \in Tx, Reset(t)
  PROVE  WritesLogged'
<1>1. \A u \in Tx : /\ writes'[u] = IF u = t THEN [e \in Entity |-> Unwritten] ELSE writes[u]
                    /\ buf'[u] = IF u = t THEN {} ELSE buf[u]
  BY DEF Reset, OrderInv, TypeOK
<1>2. QED BY <1>1 DEF WritesLogged

\* A commit gives every row it changes a version above all those in use.
LEMMA CommitVersions ==
  ASSUME OrderInv, VersionInv, NEW t \in Tx, Commit(t)
  PROVE  VersionsBelow' /\ ViewVersions'
<1> USE DEF OrderInv, VersionInv
<1>1. /\ UNCHANGED <<nextCommit, view>>
      /\ stamp[t] # 0 /\ db' = ViewOf(t)
      /\ versions' = [e \in Entity |-> IF \E x \in buf[t] : x.entity = e THEN stamp[t] ELSE versions[e]]
      /\ stamp' = [stamp EXCEPT ![t] = 0]
  BY DEF Commit, Reset, readers
<1>2. \A u \in Tx : stamp'[u] = 0 BY <1>1 DEF OneStamp, TypeOK
<1>3. stamp[t] < nextCommit BY DEF Numbered
<1>4. \A e \in Entity : \/ versions'[e] = stamp[t] /\ versions[e] < stamp[t]
                        \/ versions'[e] = versions[e] /\ db'[e] = db[e]
  <2> TAKE e \in Entity
  <2>1. CASE \E x \in buf[t] : x.entity = e
    BY <1>1, <2>1 DEF VersionsBelow
  <2>2. CASE ~\E x \in buf[t] : x.entity = e
    <3>1. writes[t][e] = Unwritten BY <2>2 DEF WritesLogged
    <3>2. QED BY <1>1, <2>2, <3>1 DEF ViewOf
  <2>3. QED BY <2>1, <2>2
<1>5. VersionsBelow' BY <1>1, <1>2, <1>3, <1>4 DEF VersionsBelow
<1>6. ViewVersions'
  <2> SUFFICES ASSUME NEW r \in Reader, NEW e \in Entity, view'[r][e] # Absent
               PROVE  /\ view'[r][e].version <= versions'[e]
                      /\ db'[e] # Absent /\ view'[r][e].version = versions'[e]
                           => view'[r][e].rev = db'[e].rev
    BY DEF ViewVersions
  <2>1. view'[r][e] = view[r][e] /\ view[r][e].version <= versions[e] BY <1>1 DEF ViewVersions
  <2>2. /\ view[r][e].version \in Nat /\ versions[e] \in Nat /\ stamp[t] \in Nat
    BY <2>1 DEF TypeOK, Held, HeldRow
  <2>3. QED BY <1>4, <2>1, <2>2 DEF ViewVersions
<1>7. QED BY <1>5, <1>6

\* A reader gets a row and its version together, from one snapshot.
LEMMA ReadVersions ==
  ASSUME OrderInv, ViewVersions, NEW r \in Reader, Read(r)
  PROVE  ViewVersions'
<1>1. UNCHANGED <<db, versions>> BY ReadFrame DEF server
<1>2. \A q \in Reader, e \in Entity :
        view'[q][e] = view[q][e] \/ view'[q][e] = Entry(db, versions, q, e)
  <2>1. CASE UNCHANGED view BY <2>1
  <2>2. ASSUME NEW page \in SUBSET Entity, ReadBootstrap(r, page)
        PROVE  \A q \in Reader, e \in Entity :
                 view'[q][e] = view[q][e] \/ view'[q][e] = Entry(db, versions, q, e)
    BY <2>2 DEF ReadBootstrap, OrderInv, TypeOK
  <2>3. ASSUME NEW page \in SUBSET RawChanges(r), Page(r, page)
        PROVE  \A q \in Reader, e \in Entity :
                 view'[q][e] = view[q][e] \/ view'[q][e] = Entry(db, versions, q, e)
    BY <2>3 DEF Page, OrderInv, TypeOK
  <2>4. CASE ReadScopes(r) BY <2>1, <2>4 DEF ReadScopes
  <2>5. CASE ReadChanges(r) BY <2>1, <2>3, <2>5, ChangesCases
  <2>6. QED BY <2>2, <2>4, <2>5 DEF Read
<1>3. \A q \in Reader, e \in Entity : Entry(db, versions, q, e) # Absent =>
        /\ Entry(db, versions, q, e).version = versions[e]
        /\ Entry(db, versions, q, e).rev = db[e].rev
  BY DEF Entry
<1>4. \A e \in Entity : versions[e] \in Nat BY DEF OrderInv, TypeOK
<1>5. QED BY <1>1, <1>2, <1>3, <1>4 DEF ViewVersions

\* Every step keeps the invariant of the versions; one case per action.
LEMMA VersionStep ==
  ASSUME OrderInv, VersionInv, [Next]_vars
  PROVE  VersionInv'
<1> USE DEF VersionInv
<1>1. ASSUME NEW t \in Tx, Write(t) PROVE VersionInv'
  BY <1>1, WriteLogs, WriteFrame DEF VersionsBelow, ViewVersions, readers
<1>2. ASSUME NEW t \in Tx, AssignCommitSeq(t) PROVE VersionInv'
  <2>1. /\ UNCHANGED <<db, versions, writes, buf, view>>
        /\ nextCommit' = nextCommit + 1
        /\ stamp' = [stamp EXCEPT ![t] = nextCommit]
        /\ \A u \in Tx : stamp[u] = 0
    BY <1>2 DEF AssignCommitSeq, readers
  <2>2. \A u \in Tx : stamp'[u] = IF u = t THEN nextCommit ELSE 0
    BY <2>1 DEF OrderInv, TypeOK
  <2>3. nextCommit \in Nat /\ \A e \in Entity : versions[e] \in Nat BY DEF OrderInv, TypeOK
  <2>4. VersionsBelow' BY <2>1, <2>2, <2>3 DEF VersionsBelow
  <2>5. WritesLogged' /\ ViewVersions' BY <2>1 DEF WritesLogged, ViewVersions
  <2>6. QED BY <2>4, <2>5
<1>3. ASSUME NEW t \in Tx, Commit(t) PROVE VersionInv'
  <2>1. Reset(t) BY <1>3 DEF Commit
  <2>2. QED BY <1>3, <2>1, CommitVersions, ResetLogs
<1>4. ASSUME NEW t \in Tx, Abort(t) PROVE VersionInv'
  <2>1. Reset(t) /\ UNCHANGED <<db, versions, nextCommit, view>>
    BY <1>4 DEF Abort, server, readers
  <2>2. \A u \in Tx : stamp'[u] = IF u = t THEN 0 ELSE stamp[u]
    BY <2>1 DEF Reset, OrderInv, TypeOK
  <2>3. VersionsBelow' BY <2>1, <2>2 DEF VersionsBelow
  <2>4. ViewVersions' BY <2>1 DEF ViewVersions
  <2>5. QED BY <2>1, <2>3, <2>4, ResetLogs
<1>5. ASSUME NEW b \in {x.cs : x \in log}, PurgeExpired(b) PROVE VersionInv'
  BY <1>5 DEF PurgeExpired, txvars, readers, VersionsBelow, WritesLogged, ViewVersions
<1>6. ASSUME NEW r \in Reader, Read(r) PROVE VersionInv'
  <2>1. UNCHANGED <<versions, nextCommit, stamp, writes, buf>>
    BY <1>6, ReadFrame DEF server, txvars
  <2>2. QED BY <1>6, <2>1, ReadVersions DEF VersionsBelow, WritesLogged
<1>7. CASE UNCHANGED vars
  BY <1>7 DEF vars, server, txvars, readers, VersionsBelow, WritesLogged, ViewVersions
<1>8. QED BY <1>1, <1>2, <1>3, <1>4, <1>5, <1>6, <1>7 DEF Next

\* Optimistic concurrency rests on it: a client that sends the version of the
\* row it holds names the contents it has seen.
THEOREM VersionIdentifiesRowHolds == Spec => []VersionIdentifiesRow
<1>1. Init => VersionInv
  BY FeedSentinels DEF Init, VersionInv, VersionsBelow, WritesLogged, ViewVersions
<1>2. OrderInv /\ VersionInv /\ [Next]_vars => VersionInv'
  BY VersionStep
<1>3. VersionInv => VersionIdentifiesRow
  BY DEF VersionInv, ViewVersions, VersionIdentifiesRow
<1>4. QED BY <1>1, <1>2, <1>3, OrderInvariant, PTL DEF Spec
=============================================================================
