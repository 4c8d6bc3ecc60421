------------------------- MODULE SyncChangeLogProofs -------------------------
(***************************************************************************)
(* EveryChangeLogged for every set of rows, transactions and scopes: what  *)
(* the row triggers of uncommitted transactions have logged is enough when *)
(* they commit, whatever was committed in between.                         *)
(* Then what that gives a reader: a page is always there to read, pages    *)
(* get it to the end of the log, and what it has at the end is right but   *)
(* for the children of roots that moved between scopes.                    *)
(***************************************************************************)
EXTENDS SyncChangeFeedProofs

Wrote(t, e) == writes[t][e] # Unwritten
Logged(t, e, s) == \E x \in buf[t] : x.entity = e /\ x.scope = s
LoggedNow(t, e, s) == \E x \in buf'[t] : x.entity = e /\ x.scope = s

\* Row locks exclude.
Exclusive == \A t, u \in Tx, e \in Entity : Wrote(t, e) /\ Wrote(u, e) => t = u

\* The newest log row is the newest one by number.
Numbers ==
  /\ \A x \in log : x.seq < nextSeq
  /\ \A t \in Tx : \A x \in buf[t] : x.seq < nextSeq

\* Roots have a scope.
Scoped ==
  /\ \A e \in Entity : Root(e) /\ db[e] # Absent => db[e].scope \in Scope
  /\ \A t \in Tx, e \in Entity :
       Root(e) /\ Wrote(t, e) /\ writes[t][e] # Absent => writes[t][e].scope \in Scope

\* The foreign key, for the committed rows and for what a transaction sees ...
Parented ==
  \A e \in Entity : ~Root(e) =>
    /\ db[e] # Absent => db[ParentOf[e]] # Absent
    /\ \A t \in Tx : ViewOf(t)[e] # Absent => ViewOf(t)[ParentOf[e]] # Absent

\* ... and between transactions: nobody writes a child of a root that is being deleted.
Guarded ==
  \A t, u \in Tx, e \in Entity :
    t # u /\ ~Root(e) /\ writes[u][ParentOf[e]] = Absent => ~Wrote(t, e)

\* A root is logged in the scope it had and in the scope it will have.
RootsLogged ==
  \A t \in Tx, e \in Entity : Root(e) /\ Wrote(t, e) =>
    /\ db[e] # Absent => Logged(t, e, db[e].scope)
    /\ writes[t][e] # Absent => Logged(t, e, writes[t][e].scope)

\* A child is logged in a scope its parent has had since the last commit.
KidsLogged ==
  \A t \in Tx, e \in Entity : ~Root(e) /\ Wrote(t, e) =>
    ParentOf[e] \in moved \/ \E s \in ScopesIn(t, ParentOf[e]) : Logged(t, e, s)

LogInv ==
  /\ Exclusive /\ Numbers /\ Scoped /\ Parented /\ Guarded
  /\ RootsLogged /\ KidsLogged /\ EveryChangeLogged

-----------------------------------------------------------------------------
(* What a transaction knows of the scopes of a root. *)

\* The scope of a root, committed or as the transaction sees it, is among those
\* the commit will compare.
LEMMA ScopeKnown ==
  ASSUME TypeOK, Scoped, RootsLogged, NEW t \in Tx, NEW e \in Entity, Root(e)
  PROVE  /\ db[e] # Absent => db[e].scope \in Scope /\ db[e].scope \in ScopesIn(t, e)
         /\ ViewOf(t)[e] # Absent =>
              ViewOf(t)[e].scope \in Scope /\ ViewOf(t)[e].scope \in ScopesIn(t, e)
<1>1. NoScope \notin Scope BY FeedConstants
<1>2. ASSUME db[e] # Absent PROVE db[e].scope \in Scope /\ db[e].scope \in ScopesIn(t, e)
  BY <1>1, <1>2 DEF Scoped, ScopesIn, EffScope
<1>3. ASSUME ViewOf(t)[e] # Absent, Wrote(t, e)
      PROVE  ViewOf(t)[e].scope \in Scope /\ ViewOf(t)[e].scope \in ScopesIn(t, e)
  <2>1. ViewOf(t)[e] = writes[t][e] BY <1>3 DEF ViewOf, Wrote
  <2>2. writes[t][e].scope \in Scope BY <1>3, <2>1 DEF Scoped
  <2>3. PICK x \in buf[t] : x.entity = e /\ x.scope = writes[t][e].scope
    BY <1>3, <2>1 DEF RootsLogged, Logged
  <2>4. writes[t][e].scope \in ScopesIn(t, e) BY <1>1, <2>2, <2>3 DEF ScopesIn
  <2> QED BY <2>1, <2>2, <2>4
<1>4. ASSUME ViewOf(t)[e] # Absent, ~Wrote(t, e)
      PROVE  ViewOf(t)[e].scope \in Scope /\ ViewOf(t)[e].scope \in ScopesIn(t, e)
  BY <1>2, <1>4 DEF ViewOf, Wrote
<1> QED BY <1>2, <1>3, <1>4

\* Logging more adds to the scopes.
LEMMA ScopesGrow ==
  ASSUME NEW t \in Tx, NEW e \in Entity, UNCHANGED db, buf[t] \subseteq buf'[t]
  PROVE  \A s \in ScopesIn(t, e) : s \in ScopesIn(t, e)'
BY DEF ScopesIn, EffScope

-----------------------------------------------------------------------------
(* What a write does, whether it inserts, updates or deletes. *)

Written(t, f) ==
  /\ Unlocked(t, f)
  /\ writes'[t][f] # Unwritten
  /\ Root(f) =>
       /\ writes'[t][f] # Absent =>
            writes'[t][f].scope \in Scope /\ LoggedNow(t, f, writes'[t][f].scope)
       /\ writes'[t][f] = Absent =>
            \A k \in Children(f) : Unlocked(t, k) /\ ViewOf(t)'[k] = Absent
       /\ ViewOf(t)[f] # Absent => LoggedNow(t, f, ViewOf(t)[f].scope)
  /\ ~Root(f) =>
       /\ ViewOf(t)[ParentOf[f]] # Absent
       /\ LoggedNow(t, f, ViewOf(t)[ParentOf[f]].scope)
       /\ writes'[t][f] # Absent => ViewOf(t)'[ParentOf[f]] # Absent
       /\ \A u \in Tx \ {t} : writes[u][ParentOf[f]] # Absent

WriteEffect(t) ==
  /\ UNCHANGED <<db, log, moved, unlogged>>
  /\ \A u \in Tx \ {t} : writes'[u] = writes[u] /\ buf'[u] = buf[u]
  /\ buf[t] \subseteq buf'[t]
  /\ nextSeq <= nextSeq'
  /\ \A x \in buf'[t] \ buf[t] : x.seq < nextSeq'
  /\ \A f \in Entity : writes'[t][f] = writes[t][f] \/ Written(t, f)

\* What Emit does to the transaction and to the others.
LEMMA EmitEffect ==
  ASSUME TypeOK, NEW t \in Tx, NEW rows, NEW new, NEW n \in Nat, Emit(t, rows, new, n)
  PROVE  /\ UNCHANGED <<db, log, moved, unlogged>>
         /\ \A u \in Tx \ {t} : writes'[u] = writes[u] /\ buf'[u] = buf[u]
         /\ writes'[t] = rows
         /\ buf'[t] = buf[t] \cup new
         /\ nextSeq' = nextSeq + n /\ nextSeq <= nextSeq'
BY DEF Emit, TypeOK, history

\* A child that somebody sees and nobody else has written has a parent that
\* nobody else deletes.
LEMMA ParentStays ==
  ASSUME TypeOK, LogInv, NEW t \in Tx, NEW e \in Entity, ~Root(e),
         ViewOf(t)[e] # Absent, Unlocked(t, e)
  PROVE  \A u \in Tx \ {t} : writes[u][ParentOf[e]] # Absent
<1> SUFFICES ASSUME NEW u \in Tx \ {t}, writes[u][ParentOf[e]] = Absent PROVE FALSE
  OBVIOUS
<1>1. ParentOf[e] \in Entity BY ParentType
<1>2. ~Wrote(t, e) BY DEF LogInv, Guarded
<1>3. db[e] # Absent BY <1>2 DEF ViewOf, Wrote
<1>4. writes[u][e] = Unwritten BY DEF Unlocked
<1>5. ViewOf(u)[e] # Absent BY <1>3, <1>4 DEF ViewOf
<1>6. ViewOf(u)[ParentOf[e]] = Absent
  <2>1. Absent # Unwritten BY FeedSentinels
  <2> QED BY <1>1, <2>1 DEF ViewOf
<1> QED BY <1>5, <1>6 DEF LogInv, Parented

\* The scope a child is logged in while its parent is there.
LEMMA ChildScope ==
  ASSUME NEW seen, NEW rows, NEW e \in Entity, ~Root(e), seen[ParentOf[e]] # Absent
  PROVE  TriggerScope(seen, rows, e) = seen[ParentOf[e]].scope
BY DEF TriggerScope, ParentScope

\* A write leaves parents alone unless it is a write of the parent.
LEMMA ParentNotSelf ==
  ASSUME NEW e \in Entity, ~Root(e)
  PROVE  ParentOf[e] \in Entity /\ ParentOf[e] # e /\ Root(ParentOf[e])
BY FeedConstants DEF Root

-----------------------------------------------------------------------------
(* INSERT, UPDATE and DELETE have this effect. *)

\* One row is written and present afterwards: INSERT and UPDATE.
LEMMA OneRowEffect ==
  ASSUME TypeOK, LogInv, NEW t \in Tx, NEW e \in Entity, NEW row \in Row, NEW new, NEW n \in Nat,
         Emit(t, [writes[t] EXCEPT ![e] = row], new, n),
         Unlocked(t, e),
         \A x \in new : x.seq < nextSeq + n,
         Root(e) =>
           /\ row.scope \in Scope /\ \E x \in new : x.entity = e /\ x.scope = row.scope
           /\ ViewOf(t)[e] # Absent => LoggedNow(t, e, ViewOf(t)[e].scope),
         ~Root(e) =>
           /\ ViewOf(t)[ParentOf[e]] # Absent
           /\ \E x \in new : x.entity = e /\ x.scope = ViewOf(t)[ParentOf[e]].scope
           /\ \A u \in Tx \ {t} : writes[u][ParentOf[e]] # Absent
  PROVE  WriteEffect(t)
<1> DEFINE rows == [writes[t] EXCEPT ![e] = row]
<1>1. /\ UNCHANGED <<db, log, moved, unlogged>>
      /\ \A u \in Tx \ {t} : writes'[u] = writes[u] /\ buf'[u] = buf[u]
      /\ writes'[t] = rows
      /\ buf'[t] = buf[t] \cup new
      /\ nextSeq' = nextSeq + n /\ nextSeq <= nextSeq'
  BY EmitEffect
<1>2. writes'[t][e] = row /\ \A f \in Entity \ {e} : writes'[t][f] = writes[t][f]
  BY <1>1 DEF TypeOK
<1>3. row # Absent /\ row # Unwritten BY FeedSentinels
<1>4. ~Root(e) => ViewOf(t)'[ParentOf[e]] # Absent
  <2> SUFFICES ASSUME ~Root(e) PROVE ViewOf(t)'[ParentOf[e]] # Absent OBVIOUS
  <2>1. ParentOf[e] \in Entity \ {e} BY ParentNotSelf
  <2>2. ViewOf(t)'[ParentOf[e]] = ViewOf(t)[ParentOf[e]] BY <1>1, <1>2, <2>1 DEF ViewOf
  <2> QED BY <2>2
<1>5. Written(t, e)
  <2> HIDE DEF rows
  <2> QED BY <1>1, <1>2, <1>3, <1>4 DEF Written, LoggedNow
<1> HIDE DEF rows
<1> QED BY <1>1, <1>2, <1>5 DEF WriteEffect

LEMMA InsertEffect ==
  ASSUME TypeOK, LogInv, NEW t \in Tx, NEW e \in Entity, NEW s \in Scope, Insert(t, e, s)
  PROVE  WriteEffect(t)
<1> DEFINE row == [scope |-> IF Root(e) THEN s ELSE NoScope, rev |-> nextSeq]
           seen == [ViewOf(t) EXCEPT ![e] = row]
           sc == TriggerScope(seen, LoggedBy(t), e)
           now == LogEntry(e, sc, nextSeq)
<1>1. /\ Emit(t, [writes[t] EXCEPT ![e] = row], {now}, 1)
      /\ Unlocked(t, e) /\ ViewOf(t)[e] = Absent
      /\ ~Root(e) => /\ seen[ParentOf[e]] # Absent
                     /\ \A u \in Tx \ {t} : writes[u][ParentOf[e]] # Absent
  BY DEF Insert
<1>2. nextSeq \in 1..MAX_SEQ BY <1>1, FeedConstants DEF TypeOK, Emit
<1>3. row \in Row BY <1>2, FeedConstants DEF Row
<1>4. seen[e] = row BY ViewOfType
<1>5. now.entity = e /\ now.scope = sc /\ now.seq = nextSeq BY DEF LogEntry
<1>6. Root(e) => row.scope \in Scope /\ sc = row.scope BY <1>4 DEF TriggerScope
<1>7. ~Root(e) => ViewOf(t)[ParentOf[e]] # Absent /\ sc = ViewOf(t)[ParentOf[e]].scope
  <2> SUFFICES ASSUME ~Root(e)
               PROVE  ViewOf(t)[ParentOf[e]] # Absent /\ sc = ViewOf(t)[ParentOf[e]].scope
    OBVIOUS
  <2>1. seen[ParentOf[e]] = ViewOf(t)[ParentOf[e]] BY ParentNotSelf, ViewOfType
  <2>2. seen[ParentOf[e]] # Absent BY <1>1
  <2> HIDE DEF seen
  <2> QED BY <2>1, <2>2, ChildScope
<1>8. \A x \in {now} : x.seq < nextSeq + 1 BY <1>2, <1>5
<1> HIDE DEF row, now, sc
<1> QED BY <1>1, <1>3, <1>5, <1>6, <1>7, <1>8, OneRowEffect

LEMMA UpdateEffect ==
  ASSUME TypeOK, LogInv, NEW t \in Tx, NEW e \in Entity, NEW s \in Scope, Update(t, e, s)
  PROVE  WriteEffect(t)
<1> DEFINE old == ViewOf(t)[e]
           row == [scope |-> IF Root(e) THEN s ELSE NoScope, rev |-> nextSeq]
           seen == [ViewOf(t) EXCEPT ![e] = row]
           sc == TriggerScope(seen, LoggedBy(t), e)
           now == LogEntry(e, sc, nextSeq)
           was == LogEntry(e, old.scope, nextSeq + 1)
<1>1. /\ old # Absent /\ Unlocked(t, e)
      /\ \/ row.scope = old.scope /\ Emit(t, [writes[t] EXCEPT ![e] = row], {now}, 1)
         \/ Emit(t, [writes[t] EXCEPT ![e] = row], {now, was}, 2)
  BY DEF Update
<1>2. nextSeq \in 1..MAX_SEQ BY <1>1, FeedConstants DEF TypeOK, Emit
<1>3. row \in Row BY <1>2, FeedConstants DEF Row
<1>4. seen[e] = row BY ViewOfType
<1>5. /\ now.entity = e /\ now.scope = sc /\ now.seq = nextSeq
      /\ was.entity = e /\ was.scope = old.scope /\ was.seq = nextSeq + 1
  BY DEF LogEntry
<1>6. Root(e) => row.scope \in Scope /\ sc = row.scope BY <1>4 DEF TriggerScope
<1>7. ~Root(e) =>
        /\ ViewOf(t)[ParentOf[e]] # Absent /\ sc = ViewOf(t)[ParentOf[e]].scope
        /\ \A u \in Tx \ {t} : writes[u][ParentOf[e]] # Absent
  <2> SUFFICES ASSUME ~Root(e)
               PROVE  /\ ViewOf(t)[ParentOf[e]] # Absent /\ sc = ViewOf(t)[ParentOf[e]].scope
                      /\ \A u \in Tx \ {t} : writes[u][ParentOf[e]] # Absent
    OBVIOUS
  <2>1. seen[ParentOf[e]] = ViewOf(t)[ParentOf[e]] BY ParentNotSelf, ViewOfType
  <2>2. ViewOf(t)[ParentOf[e]] # Absent BY <1>1 DEF LogInv, Parented
  <2>3. \A u \in Tx \ {t} : writes[u][ParentOf[e]] # Absent BY <1>1, ParentStays
  <2> HIDE DEF seen
  <2> QED BY <2>1, <2>2, <2>3, ChildScope
<1>8. CASE row.scope = old.scope /\ Emit(t, [writes[t] EXCEPT ![e] = row], {now}, 1)
  <2>1. buf'[t] = buf[t] \cup {now} BY <1>8, EmitEffect
  <2>2. \A x \in {now} : x.seq < nextSeq + 1 BY <1>2, <1>5
  <2>3. Root(e) => LoggedNow(t, e, old.scope) BY <1>5, <1>6, <1>8, <2>1 DEF LoggedNow
  <2> HIDE DEF row, now, sc, old
  <2>4. old = ViewOf(t)[e] BY DEF old
  <2> QED BY <1>1, <1>3, <1>5, <1>6, <1>7, <1>8, <2>2, <2>3, <2>4, OneRowEffect
<1>9. CASE Emit(t, [writes[t] EXCEPT ![e] = row], {now, was}, 2)
  <2>1. buf'[t] = buf[t] \cup {now, was} BY <1>9, EmitEffect
  <2>2. \A x \in {now, was} : x.seq < nextSeq + 2 BY <1>2, <1>5
  <2>3. LoggedNow(t, e, old.scope) BY <1>5, <2>1 DEF LoggedNow
  <2> HIDE DEF row, now, sc, old, was
  <2>4. old = ViewOf(t)[e] BY DEF old
  <2> QED BY <1>1, <1>3, <1>5, <1>6, <1>7, <1>9, <2>2, <2>3, <2>4, OneRowEffect
<1> QED BY <1>1, <1>8, <1>9

\* The newest log row about a root that is being deleted is the one its own
\* trigger has just added.
LEMMA CascadeScope ==
  ASSUME TypeOK, LogInv, NEW t \in Tx, NEW e \in Entity, NEW s \in Scope,
         NEW seen \in [Entity -> Row \cup {Absent}], seen[e] = Absent
  PROVE  ParentScope(seen, LoggedBy(t) \cup {LogEntry(e, s, nextSeq)}, e) = s
<1> DEFINE own == LogEntry(e, s, nextSeq)
           rows == LoggedBy(t) \cup {own}
           known == {x \in rows : x.entity = e /\ x.scope # NoScope}
<1>1. own.entity = e /\ own.scope = s /\ own.seq = nextSeq BY DEF LogEntry
<1>2. own \in known BY <1>1, FeedConstants
<1>3. \A x \in LoggedBy(t) : x.seq \in Nat /\ x.seq < nextSeq
  <2>1. \A x \in LoggedBy(t) : x.seq \in Nat BY ViewOfType DEF LogRow
  <2>2. \A x \in LoggedBy(t) : x.seq < nextSeq BY DEF LoggedBy, LogInv, Numbers
  <2> QED BY <2>1, <2>2
<1>4. nextSeq \in Nat BY FeedConstants DEF TypeOK
<1>5. \A y \in known : y.seq <= own.seq
  <2> HIDE DEF own
  <2> QED BY <1>1, <1>3, <1>4
<1>6. \A x \in known : (\A y \in known : y.seq <= x.seq) => x = own
  <2> HIDE DEF own
  <2> SUFFICES ASSUME NEW x \in known, own.seq <= x.seq PROVE x = own BY <1>2
  <2> QED BY <1>1, <1>3, <1>4
<1>7. (CHOOSE x \in known : \A y \in known : y.seq <= x.seq) = own
  <2> HIDE DEF known, own
  <2> QED BY <1>2, <1>5, <1>6
<1>8. ParentScope(seen, rows, e) = (CHOOSE x \in known : \A y \in known : y.seq <= x.seq).scope
  BY <1>2 DEF ParentScope
<1> HIDE DEF known, rows
<1> QED BY <1>1, <1>7, <1>8 DEF rows

LEMMA DeleteEffect ==
  ASSUME TypeOK, LogInv, NEW t \in Tx, NEW e \in Entity, Delete(t, e)
  PROVE  WriteEffect(t)
<1> DEFINE seen == ViewOf(t)
           kids == {k \in Children(e) : seen[k] # Absent}
           sc == TriggerScope(seen, LoggedBy(t), e)
           own == LogEntry(e, sc, nextSeq)
           after == [seen EXCEPT ![e] = Absent]
           kidScope == ParentScope(after, LoggedBy(t) \cup {own}, e)
           rows == [f \in Entity |-> IF f \in kids \cup {e} THEN Absent ELSE writes[t][f]]
<1>1. PICK n \in [kids -> (nextSeq + 1)..(nextSeq + Cardinality(kids))] :
        Emit(t, rows, {own} \cup {LogEntry(k, kidScope, n[k]) : k \in kids}, Cardinality(kids) + 1)
  BY DEF Delete
<1> DEFINE new == {own} \cup {LogEntry(k, kidScope, n[k]) : k \in kids}
<1>2. /\ seen[e] # Absent /\ Unlocked(t, e)
      /\ \A k \in Children(e) : Unlocked(t, k)
  BY DEF Delete
<1>3. kids \in SUBSET Entity BY DEF Children
<1>4. Cardinality(kids) \in Nat
  <2> HIDE DEF kids
  <2> QED BY <1>3, FeedConstants, FS_Subset, FS_CardinalityType
<1>5. nextSeq \in Nat BY FeedConstants DEF TypeOK
<1>6. /\ UNCHANGED <<db, log, moved, unlogged>>
      /\ \A u \in Tx \ {t} : writes'[u] = writes[u] /\ buf'[u] = buf[u]
      /\ writes'[t] = rows
      /\ buf'[t] = buf[t] \cup new
      /\ nextSeq' = nextSeq + (Cardinality(kids) + 1) /\ nextSeq <= nextSeq'
  <2>1. Emit(t, rows, new, Cardinality(kids) + 1) BY <1>1
  <2>2. Cardinality(kids) + 1 \in Nat BY <1>4
  <2> HIDE DEF new, rows, kids
  <2> QED BY <2>1, <2>2, EmitEffect
<1>7. \A x \in new : x.seq < nextSeq'
  <2>1. own.seq < nextSeq'
    <3>1. own.seq = nextSeq BY DEF LogEntry
    <3> HIDE DEF kids, own
    <3> QED BY <1>4, <1>5, <1>6, <3>1
  <2>2. ASSUME NEW k \in kids PROVE LogEntry(k, kidScope, n[k]).seq < nextSeq'
    <3>1. LogEntry(k, kidScope, n[k]).seq = n[k] BY DEF LogEntry
    <3> HIDE DEF kids, kidScope
    <3>2. n[k] \in (nextSeq + 1)..(nextSeq + Cardinality(kids)) OBVIOUS
    <3> QED BY <1>4, <1>5, <1>6, <3>1, <3>2
  <2> HIDE DEF own, kidScope, kids
  <2> QED BY <2>1, <2>2
<1>8. \A f \in Entity : writes'[t][f] = IF f \in kids \cup {e} THEN Absent ELSE writes[t][f]
  BY <1>6
<1>9. Absent # Unwritten BY FeedSentinels
<1>10. own \in new /\ own.entity = e /\ own.scope = sc BY DEF LogEntry
<1>11. Root(e) => sc = seen[e].scope BY DEF TriggerScope
<1>12. ASSUME ~Root(e)
       PROVE  /\ seen[ParentOf[e]] # Absent /\ sc = seen[ParentOf[e]].scope
              /\ \A u \in Tx \ {t} : writes[u][ParentOf[e]] # Absent
  <2>1. seen[ParentOf[e]] # Absent BY <1>2, <1>12 DEF LogInv, Parented
  <2>2. \A u \in Tx \ {t} : writes[u][ParentOf[e]] # Absent BY <1>2, <1>12, ParentStays
  <2> HIDE DEF seen
  <2> QED BY <1>12, <2>1, <2>2, ChildScope
<1>13. LoggedNow(t, e, sc)
  <2> HIDE DEF own, new, sc
  <2> QED BY <1>6, <1>10 DEF LoggedNow
<1>14. \A k \in Children(e) : Unlocked(t, k) /\ ViewOf(t)'[k] = Absent
  <2> SUFFICES ASSUME NEW k \in Children(e) PROVE ViewOf(t)'[k] = Absent BY <1>2
  <2>1. k \in Entity BY DEF Children
  <2>2. CASE k \in kids
    <3>1. writes'[t][k] = Absent
      <4> HIDE DEF kids
      <4> QED BY <1>8, <2>1, <2>2
    <3> QED BY <1>9, <2>1, <3>1 DEF ViewOf
  <2>3. CASE k \notin kids
    <3>1. seen[k] = Absent BY <2>3
    <3>2. writes'[t][k] \in {Absent, writes[t][k]}
      <4> HIDE DEF kids
      <4> QED BY <1>8, <2>1
    <3>3. db' = db BY <1>6
    <3> QED BY <1>9, <2>1, <3>1, <3>2, <3>3 DEF ViewOf
  <2> QED BY <2>2, <2>3
<1>15. Written(t, e)
  <2>1. writes'[t][e] = Absent
    <3> HIDE DEF kids
    <3> QED BY <1>8
  <2> HIDE DEF sc, kids
  <2> QED BY <1>2, <1>9, <1>11, <1>12, <1>13, <1>14, <2>1 DEF Written
<1>16. ASSUME NEW k \in kids PROVE Written(t, k)
  <2>1. k \in Entity /\ ParentOf[k] = e BY <1>16 DEF Children
  <2>2. ~Root(k) BY <2>1, FeedConstants DEF Root
  <2>3. Root(e) BY <2>1, <2>2, ParentNotSelf
  <2>4. sc \in Scope /\ sc = seen[e].scope
    <3>1. sc = seen[e].scope BY <1>11, <2>3
    <3>2. seen[e].scope \in Scope BY <1>2, <2>3, ScopeKnown DEF LogInv
    <3> QED BY <3>1, <3>2
  <2>5. kidScope = sc
    <3>1. after \in [Entity -> Row \cup {Absent}] /\ after[e] = Absent BY ViewOfType
    <3> HIDE DEF after, sc
    <3> QED BY <2>4, <3>1, CascadeScope
  <2>6. LoggedNow(t, k, sc)
    <3>1. LogEntry(k, kidScope, n[k]) \in new OBVIOUS
    <3>2. LogEntry(k, kidScope, n[k]).entity = k /\ LogEntry(k, kidScope, n[k]).scope = kidScope
      BY DEF LogEntry
    <3> HIDE DEF new, kidScope, sc
    <3> QED BY <1>6, <2>5, <3>1, <3>2 DEF LoggedNow
  <2>7. writes'[t][k] = Absent
    <3> HIDE DEF kids
    <3> QED BY <1>8, <1>16, <2>1
  <2>8. Unlocked(t, k) BY <1>2
  <2>9. \A u \in Tx \ {t} : writes[u][e] # Absent BY <1>2, <1>9 DEF Unlocked
  <2> HIDE DEF sc, kids
  <2> QED BY <1>2, <1>9, <2>1, <2>2, <2>4, <2>6, <2>7, <2>8, <2>9 DEF Written
<1>17. \A f \in Entity : writes'[t][f] = writes[t][f] \/ Written(t, f)
  <2> HIDE DEF kids
  <2> QED BY <1>8, <1>15, <1>16
<1> HIDE DEF new, rows, kids
<1> QED BY <1>6, <1>7, <1>17 DEF WriteEffect

\* Every write of a transaction has the effect.
LEMMA WriteHasEffect ==
  ASSUME TypeOK, LogInv, NEW t \in Tx, Write(t)
  PROVE  WriteEffect(t)
BY InsertEffect, UpdateEffect, DeleteEffect DEF Write

-----------------------------------------------------------------------------
(* A write keeps the invariant. *)

LEMMA EffectKeeps ==
  ASSUME TypeOK, TypeOK', LogInv, NEW t \in Tx, WriteEffect(t)
  PROVE  LogInv'
<1> USE DEF LogInv
<1>0. /\ UNCHANGED <<db, log, moved, unlogged>>
      /\ \A u \in Tx \ {t} : writes'[u] = writes[u] /\ buf'[u] = buf[u]
      /\ buf[t] \subseteq buf'[t]
      /\ nextSeq <= nextSeq'
      /\ \A x \in buf'[t] \ buf[t] : x.seq < nextSeq'
      /\ \A f \in Entity : writes'[t][f] = writes[t][f] \/ Written(t, f)
      /\ Absent # Unwritten
  BY FeedSentinels DEF WriteEffect
<1>1. Exclusive'
  BY <1>0 DEF Exclusive, Wrote, Written, Unlocked
<1>2. Numbers'
  <2>1. nextSeq \in Nat /\ nextSeq' \in Nat BY FeedConstants DEF TypeOK
  <2>2. \A x \in log : x.seq \in Nat BY DEF TypeOK, Change
  <2>3. \A u \in Tx : \A x \in buf[u] : x.seq \in Nat BY DEF TypeOK, LogRow
  <2>4. \A x \in log' : x.seq < nextSeq' BY <1>0, <2>1, <2>2 DEF Numbers
  <2>5. \A u \in Tx : \A x \in buf'[u] : x.seq < nextSeq' BY <1>0, <2>1, <2>3 DEF Numbers
  <2> QED BY <2>4, <2>5 DEF Numbers
<1>3. Scoped'
  BY <1>0 DEF Scoped, Wrote, Written
<1>4. \A u \in Tx \ {t}, e \in Entity : ViewOf(u)'[e] = ViewOf(u)[e]
  BY <1>0 DEF ViewOf
<1>5. Parented'
  <2> SUFFICES ASSUME NEW e \in Entity, ~Root(e), NEW u \in Tx, ViewOf(u)'[e] # Absent
               PROVE  ViewOf(u)'[ParentOf[e]] # Absent
    BY <1>0 DEF Parented
  <2> DEFINE p == ParentOf[e]
  <2>1. p \in Entity /\ p # e /\ Root(p) /\ e \in Children(p) BY ParentNotSelf DEF Children
  <2>2. CASE u # t BY <1>4, <2>1, <2>2 DEF Parented
  <2>3. CASE u = t /\ Written(t, e)
    <3>1. writes'[t][e] # Absent BY <2>3 DEF Written, ViewOf
    <3> QED BY <2>3, <3>1 DEF Written
  <2>4. CASE u = t /\ writes'[t][e] = writes[t][e] /\ Written(t, p)
    <3>1. writes'[t][p] # Absent BY <2>1, <2>4 DEF Written
    <3>2. writes'[t][p] # Unwritten BY <2>4 DEF Written
    <3> QED BY <2>1, <2>4, <3>1, <3>2 DEF ViewOf
  <2>5. CASE u = t /\ writes'[t][e] = writes[t][e] /\ writes'[t][p] = writes[t][p]
    <3>1. ViewOf(t)[e] # Absent BY <1>0, <2>5 DEF ViewOf
    <3>2. ViewOf(t)[p] # Absent BY <3>1 DEF Parented
    <3>3. ViewOf(t)'[p] = ViewOf(t)[p] BY <1>0, <2>1, <2>5 DEF ViewOf
    <3> QED BY <2>5, <3>2, <3>3
  <2> QED BY <1>0, <2>1, <2>2, <2>3, <2>4, <2>5
<1>6. Guarded'
  <2> SUFFICES ASSUME NEW u \in Tx, NEW v \in Tx, NEW e \in Entity, u # v, ~Root(e),
                      writes'[v][ParentOf[e]] = Absent
               PROVE  writes'[u][e] = Unwritten
    BY DEF Guarded, Wrote
  <2> DEFINE p == ParentOf[e]
  <2>1. p \in Entity /\ p # e /\ Root(p) /\ e \in Children(p) BY ParentNotSelf DEF Children
  <2>2. CASE u # t /\ v # t BY <1>0, <2>2 DEF Guarded, Wrote
  <2>3. CASE v = t /\ Written(t, p)
    BY <1>0, <2>1, <2>3 DEF Written, Unlocked
  <2>4. CASE v = t /\ writes'[t][p] = writes[t][p]
    BY <1>0, <2>4 DEF Guarded, Wrote
  <2>5. CASE u = t
    <3>1. writes[v][p] = Absent BY <1>0, <2>5
    <3>2. ~Written(t, e) BY <2>5, <3>1 DEF Written
    <3> QED BY <1>0, <2>5, <3>1, <3>2 DEF Guarded, Wrote
  <2> QED BY <1>0, <2>1, <2>2, <2>3, <2>4, <2>5
<1>7. RootsLogged'
  <2> SUFFICES ASSUME NEW u \in Tx, NEW e \in Entity, Root(e), writes'[u][e] # Unwritten
               PROVE  /\ db'[e] # Absent => LoggedNow(u, e, db'[e].scope)
                      /\ writes'[u][e] # Absent => LoggedNow(u, e, writes'[u][e].scope)
    BY DEF RootsLogged, Wrote, Logged, LoggedNow
  <2>1. CASE writes'[u][e] = writes[u][e]
    BY <1>0, <2>1 DEF RootsLogged, Wrote, Logged, LoggedNow
  <2>2. CASE u = t /\ Written(t, e)
    <3>1. CASE writes[t][e] = Unwritten
      <4>1. ViewOf(t)[e] = db[e] BY <3>1 DEF ViewOf
      <4> QED BY <1>0, <2>2, <4>1 DEF Written
    <3>2. CASE writes[t][e] # Unwritten
      <4>1. db[e] # Absent => LoggedNow(t, e, db[e].scope)
        BY <1>0, <3>2 DEF RootsLogged, Wrote, Logged, LoggedNow
      <4> QED BY <1>0, <2>2, <4>1 DEF Written
    <3> QED BY <3>1, <3>2
  <2> QED BY <1>0, <2>1, <2>2
<1>8. KidsLogged'
  <2> SUFFICES ASSUME NEW u \in Tx, NEW e \in Entity, ~Root(e), writes'[u][e] # Unwritten,
                      ParentOf[e] \notin moved'
               PROVE  \E s \in ScopesIn(u, ParentOf[e])' : LoggedNow(u, e, s)
    BY DEF KidsLogged, Wrote, Logged, LoggedNow
  <2> DEFINE p == ParentOf[e]
  <2>1. p \in Entity /\ Root(p) BY ParentNotSelf
  <2>2. buf[u] \subseteq buf'[u] BY <1>0
  <2>3. \A s \in ScopesIn(u, p) : s \in ScopesIn(u, p)' BY <1>0, <2>1, <2>2, ScopesGrow
  <2>4. CASE writes'[u][e] = writes[u][e]
    <3>1. PICK s \in ScopesIn(u, p) : Logged(u, e, s) BY <1>0, <2>4 DEF KidsLogged, Wrote
    <3> QED BY <2>2, <2>3, <3>1 DEF Logged, LoggedNow
  <2>5. CASE u = t /\ Written(t, e)
    <3>1. ViewOf(t)[p] # Absent /\ LoggedNow(t, e, ViewOf(t)[p].scope) BY <2>5 DEF Written
    <3>2. ViewOf(t)[p].scope \in ScopesIn(t, p) BY <2>1, <3>1, ScopeKnown
    <3> QED BY <2>3, <2>5, <3>1, <3>2
  <2> QED BY <1>0, <2>4, <2>5
<1>9. EveryChangeLogged' BY <1>0 DEF EveryChangeLogged
<1> QED BY <1>1, <1>2, <1>3, <1>5, <1>6, <1>7, <1>8, <1>9

-----------------------------------------------------------------------------
(* The end of a transaction. *)

\* A transaction that ends has written nothing any more; the others are as they were.
LEMMA ResetEffect ==
  ASSUME TypeOK, NEW t \in Tx, Reset(t)
  PROVE  \A u \in Tx : /\ \A e \in Entity : writes'[u][e] = IF u = t THEN Unwritten ELSE writes[u][e]
                       /\ buf'[u] = IF u = t THEN {} ELSE buf[u]
BY DEF TypeOK, Reset

LEMMA AbortKeeps ==
  ASSUME TypeOK, LogInv, NEW t \in Tx, Abort(t)
  PROVE  LogInv'
<1> USE DEF LogInv
<1>0. /\ UNCHANGED <<db, log, nextSeq, moved, unlogged>>
      /\ \A u \in Tx : /\ \A e \in Entity : writes'[u][e] = IF u = t THEN Unwritten ELSE writes[u][e]
                       /\ buf'[u] = IF u = t THEN {} ELSE buf[u]
      /\ Absent # Unwritten
  BY ResetEffect, FeedSentinels DEF Abort, server, history
<1>1. Exclusive' /\ Numbers' /\ Scoped' BY <1>0 DEF Exclusive, Numbers, Scoped, Wrote
<1>2. Parented'
  <2> SUFFICES ASSUME NEW e \in Entity, ~Root(e), NEW u \in Tx, ViewOf(u)'[e] # Absent
               PROVE  ViewOf(u)'[ParentOf[e]] # Absent
    BY <1>0 DEF Parented
  <2>1. ParentOf[e] \in Entity BY ParentNotSelf
  <2>2. CASE u = t
    <3>1. ViewOf(t)'[e] = db[e] /\ ViewOf(t)'[ParentOf[e]] = db[ParentOf[e]] BY <1>0, <2>1 DEF ViewOf
    <3> QED BY <2>2, <3>1 DEF Parented
  <2>3. CASE u # t
    <3>1. ViewOf(u)'[e] = ViewOf(u)[e] /\ ViewOf(u)'[ParentOf[e]] = ViewOf(u)[ParentOf[e]]
      BY <1>0, <2>1, <2>3 DEF ViewOf
    <3> QED BY <3>1 DEF Parented
  <2> QED BY <2>2, <2>3
<1>3. Guarded' BY <1>0, ParentNotSelf DEF Guarded, Wrote
<1>4. RootsLogged' BY <1>0 DEF RootsLogged, Wrote, Logged
<1>5. KidsLogged'
  <2> SUFFICES ASSUME NEW u \in Tx, NEW e \in Entity, ~Root(e), writes'[u][e] # Unwritten,
                      ParentOf[e] \notin moved
               PROVE  \E s \in ScopesIn(u, ParentOf[e])' : LoggedNow(u, e, s)
    BY <1>0 DEF KidsLogged, Wrote, Logged, LoggedNow
  <2>1. u # t /\ buf'[u] = buf[u] /\ writes[u][e] # Unwritten BY <1>0
  <2>2. PICK s \in ScopesIn(u, ParentOf[e]) : Logged(u, e, s) BY <2>1 DEF KidsLogged, Wrote
  <2>3. s \in ScopesIn(u, ParentOf[e])' BY <1>0, <2>1, <2>2, ParentNotSelf, ScopesGrow
  <2> QED BY <2>1, <2>2, <2>3 DEF Logged, LoggedNow
<1>6. EveryChangeLogged' BY <1>0 DEF EveryChangeLogged
<1> QED BY <1>1, <1>2, <1>3, <1>4, <1>5, <1>6

\* What a commit makes visible is logged in every scope it concerns, or it is a
\* child of a root that moved.
LEMMA CommitLogs ==
  ASSUME TypeOK, LogInv, NEW t \in Tx, Commit(t), NEW e \in Entity, NEW s \in Scope,
         ChangesFor(db', e, s), ~Tells(t, e, s)
  PROVE  ~Root(e) /\ ParentOf[e] \in moved'
<1> USE DEF LogInv
<1>0. /\ db' = ViewOf(t)
      /\ moved' = moved \cup {f \in Entity : Root(f) /\ \E a, b \in ScopesIn(t, f) : a # b}
      /\ Absent # Unwritten /\ NoScope \notin Scope
  BY FeedSentinels, FeedConstants DEF Commit
<1>1. /\ s \in {EffScope(db, e), EffScope(db', e)} \ {NoScope}
      /\ db[e] # db'[e] \/ EffScope(db, e) # EffScope(db', e)
  BY DEF ChangesFor
<1>2. ~Logged(t, e, s) BY DEF Tells, Logged
<1>3. CASE Root(e)
  <2>1. Wrote(t, e)
    <3> SUFFICES ASSUME ~Wrote(t, e) PROVE FALSE OBVIOUS
    <3>1. db'[e] = db[e] BY <1>0 DEF Wrote, ViewOf
    <3> QED BY <1>1, <1>3, <3>1 DEF EffScope
  <2>2. db'[e] = writes[t][e] BY <1>0, <2>1 DEF Wrote, ViewOf
  <2>3. CASE s = EffScope(db, e)
    <3>1. db[e] # Absent /\ s = db[e].scope BY <1>0, <1>3, <2>3 DEF EffScope
    <3> QED BY <1>2, <1>3, <2>1, <3>1 DEF RootsLogged
  <2>4. CASE s = EffScope(db', e)
    <3>1. writes[t][e] # Absent /\ s = writes[t][e].scope BY <1>0, <1>3, <2>2, <2>4 DEF EffScope
    <3> QED BY <1>2, <1>3, <2>1, <3>1 DEF RootsLogged
  <2> QED BY <1>1, <2>3, <2>4
<1>4. CASE ~Root(e)
  <2> DEFINE p == ParentOf[e]
  <2> SUFFICES ASSUME p \notin moved' PROVE FALSE BY <1>4
  <2>1. p \in Entity /\ Root(p) BY <1>4, ParentNotSelf
  <2>2. \A a, b \in ScopesIn(t, p) : a = b BY <1>0, <2>1
  <2>3. db[e] # Absent => db[p] # Absent /\ EffScope(db, e) = db[p].scope /\ db[p].scope \in ScopesIn(t, p)
    <3>1. db[e] # Absent => db[p] # Absent BY <1>4 DEF Parented
    <3> QED BY <1>4, <2>1, <3>1, ScopeKnown DEF EffScope
  <2>4. db'[e] # Absent => db'[p] # Absent /\ EffScope(db', e) = db'[p].scope /\ db'[p].scope \in ScopesIn(t, p)
    <3>1. ViewOf(t)[e] # Absent => ViewOf(t)[p] # Absent BY <1>4 DEF Parented
    <3> QED BY <1>0, <1>4, <2>1, <3>1, ScopeKnown DEF EffScope
  <2>5. s \in ScopesIn(t, p)
    BY <1>0, <1>1, <2>3, <2>4 DEF EffScope
  <2>6. CASE Wrote(t, e)
    <3>1. PICK a \in ScopesIn(t, p) : Logged(t, e, a) BY <1>0, <1>4, <2>6 DEF KidsLogged
    <3> QED BY <1>2, <2>2, <2>5, <3>1
  <2>7. CASE ~Wrote(t, e)
    <3>1. db'[e] = db[e] BY <1>0, <2>7 DEF Wrote, ViewOf
    <3>2. db[e] # Absent BY <1>1, <3>1 DEF EffScope
    <3> QED BY <1>1, <2>2, <2>3, <2>4, <3>1, <3>2
  <2> QED BY <2>6, <2>7
<1> QED BY <1>3, <1>4

LEMMA CommitKeeps ==
  ASSUME TypeOK, LogInv, NEW t \in Tx, Commit(t)
  PROVE  LogInv'
<1> USE DEF LogInv
<1>0. /\ db' = ViewOf(t) /\ nextSeq' = nextSeq
      /\ moved' = moved \cup {f \in Entity : Root(f) /\ \E a, b \in ScopesIn(t, f) : a # b}
      /\ \A u \in Tx : /\ \A e \in Entity : writes'[u][e] = IF u = t THEN Unwritten ELSE writes[u][e]
                       /\ buf'[u] = IF u = t THEN {} ELSE buf[u]
      /\ Absent # Unwritten /\ NoScope \notin Scope
  BY ResetEffect, FeedSentinels, FeedConstants DEF Commit
<1>1. \A e \in Entity : db'[e] = IF Wrote(t, e) THEN writes[t][e] ELSE db[e]
  BY <1>0 DEF ViewOf, Wrote
<1>2. Exclusive' BY <1>0 DEF Exclusive, Wrote
<1>3. Numbers'
  <2>1. \A x \in log' : x \in log \/ \E y \in buf[t] : x.seq = y.seq BY DEF Commit
  <2>2. \A x \in log' : x.seq < nextSeq BY <2>1 DEF Numbers
  <2> QED BY <1>0, <2>2 DEF Numbers
<1>4. Scoped' BY <1>0, <1>1 DEF Scoped, Wrote
<1>5. Parented'
  <2> SUFFICES ASSUME NEW e \in Entity, ~Root(e)
               PROVE  /\ db'[e] # Absent => db'[ParentOf[e]] # Absent
                      /\ \A u \in Tx : ViewOf(u)'[e] # Absent => ViewOf(u)'[ParentOf[e]] # Absent
    BY DEF Parented
  <2> DEFINE p == ParentOf[e]
  <2>1. p \in Entity BY ParentNotSelf
  <2>2. db'[e] # Absent => db'[p] # Absent BY <1>0 DEF Parented
  <2>3. ASSUME NEW u \in Tx, ViewOf(u)'[e] # Absent PROVE ViewOf(u)'[p] # Absent
    <3>1. CASE u = t
      <4>1. ViewOf(t)'[e] = db'[e] /\ ViewOf(t)'[p] = db'[p] BY <1>0, <2>1 DEF ViewOf
      <4> QED BY <2>2, <2>3, <3>1, <4>1
    <3>2. CASE u # t /\ Wrote(u, e)
      <4>1. ViewOf(u)[e] = ViewOf(u)'[e] BY <1>0, <3>2 DEF ViewOf, Wrote
      <4>2. ViewOf(u)[p] # Absent BY <2>3, <4>1 DEF Parented
      <4>3. CASE Wrote(u, p)
        <5>1. ViewOf(u)'[p] = ViewOf(u)[p] BY <1>0, <2>1, <3>2, <4>3 DEF ViewOf, Wrote
        <5> QED BY <4>2, <5>1
      <4>4. CASE ~Wrote(u, p)
        <5>1. db[p] # Absent BY <2>1, <4>2, <4>4 DEF ViewOf, Wrote
        <5>2. writes[t][p] # Absent BY <3>2 DEF Guarded
        <5>3. db'[p] # Absent BY <1>1, <2>1, <5>1, <5>2
        <5>4. ViewOf(u)'[p] = db'[p] BY <1>0, <2>1, <3>2, <4>4 DEF ViewOf, Wrote
        <5> QED BY <5>3, <5>4
      <4> QED BY <4>3, <4>4
    <3>3. CASE u # t /\ ~Wrote(u, e)
      <4>1. ViewOf(u)'[e] = db'[e] BY <1>0, <3>3 DEF ViewOf, Wrote
      <4>2. db'[p] # Absent BY <2>2, <2>3, <4>1
      <4>3. CASE ~Wrote(u, p)
        <5>1. ViewOf(u)'[p] = db'[p] BY <1>0, <2>1, <3>3, <4>3 DEF ViewOf, Wrote
        <5> QED BY <4>2, <5>1
      <4>4. CASE Wrote(u, p) /\ writes[u][p] = Absent
        <5>1. ~Wrote(t, e) BY <3>3, <4>4 DEF Guarded
        <5>2. db[e] # Absent BY <1>1, <2>3, <4>1, <5>1
        <5>3. ViewOf(u)[e] # Absent BY <3>3, <5>2 DEF ViewOf, Wrote
        <5>4. ViewOf(u)[p] = Absent BY <2>1, <4>4 DEF ViewOf, Wrote
        <5> QED BY <5>3, <5>4 DEF Parented
      <4>5. CASE Wrote(u, p) /\ writes[u][p] # Absent
        <5>1. ViewOf(u)'[p] = writes[u][p] BY <1>0, <2>1, <3>3, <4>5 DEF ViewOf, Wrote
        <5> QED BY <4>5, <5>1
      <4> QED BY <4>3, <4>4, <4>5
    <3> QED BY <3>1, <3>2, <3>3
  <2> QED BY <2>2, <2>3
<1>6. Guarded' BY <1>0, ParentNotSelf DEF Guarded, Wrote
<1>7. RootsLogged'
  <2> SUFFICES ASSUME NEW u \in Tx, NEW e \in Entity, Root(e), writes'[u][e] # Unwritten
               PROVE  /\ db'[e] # Absent => LoggedNow(u, e, db'[e].scope)
                      /\ writes'[u][e] # Absent => LoggedNow(u, e, writes'[u][e].scope)
    BY DEF RootsLogged, Wrote, Logged, LoggedNow
  <2>1. u # t /\ buf'[u] = buf[u] /\ writes'[u][e] = writes[u][e] /\ Wrote(u, e) BY <1>0 DEF Wrote
  <2>2. db'[e] = db[e] BY <1>1, <2>1 DEF Exclusive
  <2> QED BY <2>1, <2>2 DEF RootsLogged, Logged, LoggedNow
<1>8. KidsLogged'
  <2> SUFFICES ASSUME NEW u \in Tx, NEW e \in Entity, ~Root(e), writes'[u][e] # Unwritten,
                      ParentOf[e] \notin moved'
               PROVE  \E s \in ScopesIn(u, ParentOf[e])' : LoggedNow(u, e, s)
    BY DEF KidsLogged, Wrote, Logged, LoggedNow
  <2> DEFINE p == ParentOf[e]
  <2>1. p \in Entity /\ Root(p) BY ParentNotSelf
  <2>2. u # t /\ buf'[u] = buf[u] /\ Wrote(u, e) BY <1>0 DEF Wrote
  <2>3. PICK s \in ScopesIn(u, p) : Logged(u, e, s) BY <1>0, <2>2 DEF KidsLogged
  <2>4. LoggedNow(u, e, s) BY <2>2, <2>3 DEF Logged, LoggedNow
  <2>5. CASE s # EffScope(db, p)
    <3>1. s \in ScopesIn(u, p)' BY <2>2, <2>3, <2>5 DEF ScopesIn
    <3> QED BY <2>4, <3>1
  <2>6. CASE s = EffScope(db, p)
    <3>1. db[p] # Absent /\ s = db[p].scope /\ s # NoScope BY <2>1, <2>3, <2>6 DEF EffScope, ScopesIn
    <3>2. writes[t][p] # Absent BY <2>2 DEF Guarded
    <3>3. db'[p] # Absent /\ db'[p] = ViewOf(t)[p] BY <1>0, <1>1, <2>1, <3>1, <3>2
    <3>4. db[p].scope \in ScopesIn(t, p) /\ db'[p].scope \in ScopesIn(t, p)
      BY <2>1, <3>1, <3>3, ScopeKnown
    <3>5. db'[p].scope = s BY <1>0, <2>1, <3>1, <3>4
    <3>6. s \in ScopesIn(u, p)' BY <2>1, <3>1, <3>3, <3>5 DEF ScopesIn, EffScope
    <3> QED BY <2>4, <3>6
  <2> QED BY <2>5, <2>6
<1>9. EveryChangeLogged'
  <2> SUFFICES ASSUME NEW q \in unlogged' PROVE ~Root(q[1]) /\ ParentOf[q[1]] \in moved'
    BY DEF EveryChangeLogged
  <2>1. /\ q \in Entity \X Scope /\ ~Tells(t, q[1], q[2])
        /\ q \in unlogged \/ ChangesFor(db', q[1], q[2])
    BY DEF Commit
  <2>2. CASE q \in unlogged BY <1>0, <2>2 DEF EveryChangeLogged
  <2>3. CASE ChangesFor(db', q[1], q[2])
    <3>1. q[1] \in Entity /\ q[2] \in Scope BY <2>1
    <3> QED BY <2>1, <2>3, <3>1, CommitLogs
  <2> QED BY <2>1, <2>2, <2>3
<1> QED BY <1>2, <1>3, <1>4, <1>5, <1>6, <1>7, <1>8, <1>9

-----------------------------------------------------------------------------
(* The theorem. *)

\* Steps that write no row and end no transaction.
LEMMA QuietKeeps ==
  ASSUME LogInv, UNCHANGED <<db, nextSeq, writes, buf, history>>, log' \subseteq log
  PROVE  LogInv'
<1>1. Exclusive' /\ Numbers' /\ Scoped' BY DEF LogInv, Exclusive, Numbers, Scoped, Wrote
<1>2. Parented' /\ Guarded' BY DEF LogInv, Parented, Guarded, ViewOf, Wrote
<1>3. RootsLogged' /\ KidsLogged'
  BY DEF LogInv, RootsLogged, KidsLogged, Wrote, Logged, ScopesIn, EffScope, history
<1>4. EveryChangeLogged' BY DEF LogInv, EveryChangeLogged, history
<1> QED BY <1>1, <1>2, <1>3, <1>4 DEF LogInv

LEMMA LogStep ==
  ASSUME TypeOK, TypeOK', LogInv, Next
  PROVE  LogInv'
<1>1. CASE \E t \in Tx : Write(t) BY <1>1, WriteHasEffect, EffectKeeps
<1>2. ASSUME NEW t \in Tx, AssignCommitSeq(t) PROVE LogInv'
  BY <1>2, QuietKeeps DEF AssignCommitSeq
<1>3. CASE \E t \in Tx : Commit(t) BY <1>3, CommitKeeps
<1>4. CASE \E t \in Tx : Abort(t) BY <1>4, AbortKeeps
<1>5. ASSUME NEW b \in {x.cs : x \in log}, PurgeExpired(b) PROVE LogInv'
  <2>1. log' \subseteq log BY <1>5 DEF PurgeExpired
  <2> QED BY <1>5, <2>1, QuietKeeps DEF PurgeExpired, txvars
<1>6. ASSUME NEW r \in Reader, Read(r) PROVE LogInv'
  <2>1. UNCHANGED <<server, txvars, history>> BY <1>6, ReadFrame
  <2> QED BY <2>1, QuietKeeps DEF server, txvars
<1> QED BY <1>1, <1>2, <1>3, <1>4, <1>5, <1>6 DEF Next

LEMMA LogInit ==
  ASSUME Init
  PROVE  LogInv
<1>1. Absent # Unwritten BY FeedSentinels
<1>2. \A e \in Entity : db[e] # Absent =>
        /\ db[e].scope \in Scope \cup {NoScope}
        /\ IF Root(e) THEN db[e].scope # NoScope ELSE db[ParentOf[e]] # Absent
  BY DEF Init
<1>3. \A t \in Tx : (\A e \in Entity : writes[t][e] = Unwritten) /\ buf[t] = {} BY DEF Init
<1>4. Exclusive /\ Scoped BY <1>2, <1>3 DEF Exclusive, Scoped, Wrote
<1>5. Numbers BY <1>3 DEF Init, Numbers
<1>6. Guarded /\ RootsLogged /\ KidsLogged
  BY <1>1, <1>3, ParentNotSelf DEF Guarded, RootsLogged, KidsLogged, Wrote
<1>7. Parented
  <2> SUFFICES ASSUME NEW e \in Entity, ~Root(e)
               PROVE  /\ db[e] # Absent => db[ParentOf[e]] # Absent
                      /\ \A t \in Tx : ViewOf(t)[e] = db[e] /\ ViewOf(t)[ParentOf[e]] = db[ParentOf[e]]
    BY DEF Parented
  <2>1. ParentOf[e] \in Entity BY ParentNotSelf
  <2> QED BY <1>2, <1>3, <2>1 DEF ViewOf
<1>8. EveryChangeLogged BY DEF Init, EveryChangeLogged
<1> QED BY <1>4, <1>5, <1>6, <1>7, <1>8 DEF LogInv

\* What open transactions have logged is enough for what they have written.
THEOREM LogInvariant == Spec => []LogInv
<1>1. OrderInv /\ OrderInv' /\ LogInv /\ [Next]_vars => LogInv'
  <2> SUFFICES ASSUME OrderInv, OrderInv', LogInv, [Next]_vars PROVE LogInv' OBVIOUS
  <2>1. CASE Next BY <2>1, LogStep DEF OrderInv
  <2>2. CASE UNCHANGED vars BY <2>2, QuietKeeps DEF vars, server, txvars
  <2> QED BY <2>1, <2>2
<1> QED BY <1>1, LogInit, OrderInvariant, PTL DEF Spec

\* Every visible change is logged in every scope it concerns (the row triggers
\* of schema_sql.py), but for the children of a root that moved.
THEOREM EveryChangeLoggedHolds == Spec => []EveryChangeLogged
<1>1. LogInv => EveryChangeLogged BY DEF LogInv
<1> QED BY <1>1, LogInvariant, PTL

-----------------------------------------------------------------------------
(* The log is finite and its records have an order: pages exist. *)

\* No two log rows, committed or not, have the same number.
Distinct ==
  /\ \A x, y \in log : x.seq = y.seq => x = y
  /\ \A t \in Tx : \A x, y \in buf[t] : x.seq = y.seq => x = y
  /\ \A t \in Tx : \A x \in buf[t], y \in log : x.seq # y.seq
  /\ \A t, u \in Tx : t # u => \A x \in buf[t], y \in buf[u] : x.seq # y.seq

FiniteLog == IsFiniteSet(log) /\ \A t \in Tx : IsFiniteSet(buf[t])

\* A reader that is done with its bootstrap has no row left to fetch.
Fetched == \A r \in Reader : phase[r] = "live" => todo[r] = {}

RowsInv == Distinct /\ FiniteLog /\ Fetched

\* What a write adds to the log: finitely many rows with numbers of their own.
NewRows(t, new) ==
  /\ IsFiniteSet(new) /\ new \subseteq LogRow
  /\ \A x \in new : x.seq >= nextSeq
  /\ \A x, y \in new : x.seq = y.seq => x = y
  /\ buf'[t] = buf[t] \cup new

LEMMA PairFinite == ASSUME NEW a, NEW b PROVE IsFiniteSet({a}) /\ IsFiniteSet({a, b})
<1>1. IsFiniteSet({a}) BY FS_Singleton
<1>2. IsFiniteSet({a} \cup {b}) BY <1>1, FS_Singleton, FS_Union
<1>3. {a} \cup {b} = {a, b} OBVIOUS
<1> QED BY <1>1, <1>2, <1>3

LEMMA ImageFinite ==
  ASSUME NEW S, IsFiniteSet(S), NEW f, f = [x \in S |-> f[x]]
  PROVE  IsFiniteSet({f[x] : x \in S})
<1> DEFINE T == {f[x] : x \in S}
<1>1. f \in Surjection(S, T) BY DEF Surjection
<1> QED BY <1>1, FS_Surjection

LEMMA InsertRows ==
  ASSUME TypeOK, TypeOK', NEW t \in Tx, NEW e \in Entity, NEW s \in Scope, Insert(t, e, s)
  PROVE  \E new : NewRows(t, new)
<1>1. PICK sc : Emit(t, [writes[t] EXCEPT ![e] = [scope |-> IF Root(e) THEN s ELSE NoScope, rev |-> nextSeq]],
                     {LogEntry(e, sc, nextSeq)}, 1)
  BY DEF Insert
<1> DEFINE new == {LogEntry(e, sc, nextSeq)}
<1>2. buf'[t] = buf[t] \cup new BY <1>1, EmitEffect
<1>3. new \subseteq LogRow BY <1>2 DEF TypeOK
<1>4. IsFiniteSet(new) BY PairFinite
<1>5. nextSeq \in Int BY FeedConstants DEF TypeOK
<1>6. \A x \in new : x.seq >= nextSeq BY <1>5 DEF LogEntry
<1> QED BY <1>2, <1>3, <1>4, <1>6 DEF NewRows

LEMMA UpdateRows ==
  ASSUME TypeOK, TypeOK', NEW t \in Tx, NEW e \in Entity, NEW s \in Scope, Update(t, e, s)
  PROVE  \E new : NewRows(t, new)
<1> DEFINE row == [scope |-> IF Root(e) THEN s ELSE NoScope, rev |-> nextSeq]
           sc == TriggerScope([ViewOf(t) EXCEPT ![e] = row], LoggedBy(t), e)
           now == LogEntry(e, sc, nextSeq)
           was == LogEntry(e, ViewOf(t)[e].scope, nextSeq + 1)
<1>1. PICK new \in {{now}, {now, was}} :
        \E n \in {1, 2} : Emit(t, [writes[t] EXCEPT ![e] = row], new, n)
  BY DEF Update
<1>2. buf'[t] = buf[t] \cup new BY <1>1, EmitEffect
<1>3. new \subseteq LogRow BY <1>2 DEF TypeOK
<1>4. IsFiniteSet(new)
  <2> HIDE DEF now, was
  <2> QED BY <1>1, PairFinite
<1>5. nextSeq \in Int BY FeedConstants DEF TypeOK
<1>6. now.seq = nextSeq /\ was.seq = nextSeq + 1 BY DEF LogEntry
<1> HIDE DEF now, was
<1>7. \A x \in new : x.seq >= nextSeq BY <1>1, <1>5, <1>6
<1>8. \A x, y \in new : x.seq = y.seq => x = y BY <1>1, <1>5, <1>6
<1> QED BY <1>2, <1>3, <1>4, <1>7, <1>8 DEF NewRows

LEMMA DeleteRows ==
  ASSUME TypeOK, TypeOK', NEW t \in Tx, NEW e \in Entity, Delete(t, e)
  PROVE  \E new : NewRows(t, new)
<1> DEFINE kids == {k \in Children(e) : ViewOf(t)[k] # Absent}
           own == LogEntry(e, TriggerScope(ViewOf(t), LoggedBy(t), e), nextSeq)
           sc == ParentScope([ViewOf(t) EXCEPT ![e] = Absent], LoggedBy(t) \cup {own}, e)
<1>1. PICK n \in [kids -> (nextSeq + 1)..(nextSeq + Cardinality(kids))] :
        /\ \A j, k \in kids : n[j] = n[k] => j = k
        /\ Emit(t, [f \in Entity |-> IF f \in kids \cup {e} THEN Absent ELSE writes[t][f]],
                {own} \cup {LogEntry(k, sc, n[k]) : k \in kids}, Cardinality(kids) + 1)
  BY DEF Delete
<1> DEFINE of == {LogEntry(k, sc, n[k]) : k \in kids}
           new == {own} \cup of
<1>2. IsFiniteSet(kids)
  <2>1. kids \subseteq Entity BY DEF Children
  <2> QED BY <2>1, FS_Subset, FeedConstants
<1>3. Cardinality(kids) + 1 \in Nat BY <1>2, FS_CardinalityType
<1>4. buf'[t] = buf[t] \cup new
  <2> HIDE DEF kids, own, sc
  <2> QED BY <1>1, <1>3, EmitEffect
<1>5. new \subseteq LogRow BY <1>4 DEF TypeOK
<1>6. IsFiniteSet(new)
  <2>1. IsFiniteSet(of)
    <3> DEFINE f == [k \in kids |-> LogEntry(k, sc, n[k])]
    <3>1. of = {f[k] : k \in kids} OBVIOUS
    <3>2. f = [k \in kids |-> f[k]] OBVIOUS
    <3> HIDE DEF f, of, kids
    <3> QED BY <1>2, <3>1, <3>2, ImageFinite
  <2>2. IsFiniteSet({own}) BY FS_Singleton
  <2> QED BY <2>1, <2>2, FS_Union
<1>7. nextSeq \in Int BY FeedConstants DEF TypeOK
<1>8. own.seq = nextSeq BY DEF LogEntry
<1>9. \A k \in kids : n[k] \in Int /\ n[k] > nextSeq
  <2> HIDE DEF kids, own, sc
  <2>1. Cardinality(kids) \in Int BY <1>2, FS_CardinalityType
  <2>2. \A k \in kids : n[k] \in (nextSeq + 1)..(nextSeq + Cardinality(kids)) BY <1>1
  <2> QED BY <2>1, <2>2, <1>7
<1>10. \A x \in of : \E k \in kids : x = LogEntry(k, sc, n[k]) /\ x.seq = n[k]
  <2> HIDE DEF kids, sc
  <2> QED BY DEF LogEntry
<1> HIDE DEF kids, own, sc, of
<1>11. \A x \in new : x.seq >= nextSeq BY <1>7, <1>8, <1>9, <1>10
<1>12. ASSUME NEW x \in new, NEW y \in new, x.seq = y.seq PROVE x = y
  <2>1. CASE x \in of /\ y \in of
    <3>1. PICK j \in kids : x = LogEntry(j, sc, n[j]) /\ x.seq = n[j] BY <2>1, <1>10
    <3>2. PICK k \in kids : y = LogEntry(k, sc, n[k]) /\ y.seq = n[k] BY <2>1, <1>10
    <3>3. j = k BY <1>1, <1>12, <3>1, <3>2
    <3> QED BY <3>1, <3>2, <3>3
  <2> QED BY <1>7, <1>8, <1>9, <1>10, <1>12, <2>1
<1> QED BY <1>4, <1>5, <1>6, <1>11, <1>12 DEF NewRows

LEMMA WriteRows ==
  ASSUME TypeOK, TypeOK', LogInv, RowsInv, NEW t \in Tx, Write(t)
  PROVE  RowsInv'
<1> USE DEF RowsInv
<1>1. PICK new : NewRows(t, new) BY InsertRows, UpdateRows, DeleteRows DEF Write
<1>2. /\ UNCHANGED <<log, phase, todo>>
      /\ \A u \in Tx \ {t} : buf'[u] = buf[u]
  BY WriteHasEffect, WriteFrame DEF WriteEffect, readers
<1>3. /\ \A x \in log : x.seq \in Int /\ x.seq < nextSeq
      /\ \A u \in Tx : \A x \in buf[u] : x.seq \in Int /\ x.seq < nextSeq
  BY DEF TypeOK, Change, LogRow, LogInv, Numbers
<1>4. nextSeq \in Int BY FeedConstants DEF TypeOK
<1>5. \A x \in new : x.seq \in Int /\ x.seq >= nextSeq BY <1>1 DEF NewRows, LogRow
<1>6. \A x, y \in new : x.seq = y.seq => x = y BY <1>1 DEF NewRows
<1>7. buf'[t] = buf[t] \cup new /\ IsFiniteSet(new) BY <1>1 DEF NewRows
<1>8. \A u \in Tx : \A x \in buf'[u] : x \in buf[u] \/ (u = t /\ x \in new) BY <1>2, <1>7
<1>9. \A x, y \in log' : x.seq = y.seq => x = y BY <1>2 DEF Distinct
<1>10. \A u \in Tx : \A x, y \in buf'[u] : x.seq = y.seq => x = y
  BY <1>3, <1>4, <1>5, <1>6, <1>8 DEF Distinct
<1>11. \A u \in Tx : \A x \in buf'[u], y \in log' : x.seq # y.seq
  BY <1>2, <1>3, <1>4, <1>5, <1>8 DEF Distinct
<1>12. \A u, v \in Tx : u # v => \A x \in buf'[u], y \in buf'[v] : x.seq # y.seq
  BY <1>3, <1>4, <1>5, <1>8 DEF Distinct
<1>13. FiniteLog'
  <2>1. IsFiniteSet(buf'[t]) BY <1>7, FS_Union DEF FiniteLog
  <2> QED BY <1>2, <2>1 DEF FiniteLog
<1>14. Fetched' BY <1>2 DEF Fetched
<1> QED BY <1>9, <1>10, <1>11, <1>12, <1>13, <1>14 DEF Distinct

LEMMA CommitRows ==
  ASSUME TypeOK, RowsInv, NEW t \in Tx, Commit(t)
  PROVE  RowsInv'
<1> USE DEF RowsInv
<1> DEFINE of(x) == [seq |-> x.seq, entity |-> x.entity, scope |-> x.scope, cs |-> stamp[t]]
           new == {of(x) : x \in buf[t]}
<1>1. log' = log \cup new /\ UNCHANGED <<phase, todo>> BY DEF Commit, readers
<1>2. \A u \in Tx : buf'[u] = IF u = t THEN {} ELSE buf[u]
  BY ResetEffect DEF Commit
<1>3. \A y \in new : \E x \in buf[t] : y = of(x) /\ y.seq = x.seq OBVIOUS
<1>4. IsFiniteSet(new)
  <2>1. IsFiniteSet(buf[t]) BY DEF FiniteLog
  <2> DEFINE f == [x \in buf[t] |-> of(x)]
  <2>2. new = {f[x] : x \in buf[t]} OBVIOUS
  <2>3. f = [x \in buf[t] |-> f[x]] OBVIOUS
  <2> HIDE DEF f, new
  <2> QED BY <2>1, <2>2, <2>3, ImageFinite
<1> HIDE DEF new, of
<1>5. \A x, y \in log' : x.seq = y.seq => x = y
  <2> SUFFICES ASSUME NEW x \in log', NEW y \in log', x.seq = y.seq PROVE x = y OBVIOUS
  <2>1. CASE x \in new /\ y \in new
    <3>1. PICK a \in buf[t] : x = of(a) /\ x.seq = a.seq BY <1>3, <2>1
    <3>2. PICK b \in buf[t] : y = of(b) /\ y.seq = b.seq BY <1>3, <2>1
    <3>3. a = b BY <3>1, <3>2 DEF Distinct
    <3> QED BY <3>1, <3>2, <3>3
  <2>2. CASE x \in log /\ y \in log BY <2>2 DEF Distinct
  <2>3. CASE x \in new /\ y \in log BY <1>3, <2>3 DEF Distinct
  <2>4. CASE x \in log /\ y \in new BY <1>3, <2>4 DEF Distinct
  <2> QED BY <1>1, <2>1, <2>2, <2>3, <2>4
<1>6. \A u \in Tx : \A x, y \in buf'[u] : x.seq = y.seq => x = y BY <1>2 DEF Distinct
<1>7. \A u \in Tx : \A x \in buf'[u], y \in log' : x.seq # y.seq
  <2> SUFFICES ASSUME NEW u \in Tx, NEW x \in buf'[u], NEW y \in log' PROVE x.seq # y.seq OBVIOUS
  <2>1. u # t /\ x \in buf[u] BY <1>2
  <2>2. CASE y \in log BY <2>1, <2>2 DEF Distinct
  <2>3. CASE y \in new
    <3>1. PICK b \in buf[t] : y.seq = b.seq BY <1>3, <2>3
    <3> QED BY <2>1, <3>1 DEF Distinct
  <2> QED BY <1>1, <2>2, <2>3
<1>8. \A u, v \in Tx : u # v => \A x \in buf'[u], y \in buf'[v] : x.seq # y.seq
  BY <1>2 DEF Distinct
<1>9. FiniteLog'
  <2>1. IsFiniteSet(log') BY <1>1, <1>4, FS_Union DEF FiniteLog
  <2>2. \A u \in Tx : IsFiniteSet(buf'[u]) BY <1>2, FS_EmptySet DEF FiniteLog
  <2> QED BY <2>1, <2>2 DEF FiniteLog
<1>10. Fetched' BY <1>1 DEF Fetched
<1> QED BY <1>5, <1>6, <1>7, <1>8, <1>9, <1>10 DEF Distinct

LEMMA ReadRows ==
  ASSUME TypeOK, RowsInv, NEW r \in Reader, Read(r)
  PROVE  RowsInv'
<1> USE DEF RowsInv
<1>1. UNCHANGED <<log, buf>> BY ReadFrame DEF server, txvars
<1>2. Distinct' /\ FiniteLog' BY <1>1 DEF Distinct, FiniteLog
<1>3. ASSUME NEW q \in Reader, phase'[q] = "live" PROVE todo'[q] = {}
  <2>1. CASE ReadScopes(r)
    <3>1. q # r BY <1>3, <2>1 DEF ReadScopes, TypeOK
    <3> QED BY <1>3, <2>1, <3>1 DEF ReadScopes, TypeOK, Fetched
  <2>2. ASSUME NEW page \in SUBSET Entity, ReadBootstrap(r, page) PROVE todo'[q] = {}
    <3>1. CASE q = r
      <4>1. todo[r] = page BY <1>3, <2>2, <3>1 DEF ReadBootstrap, TypeOK
      <4> QED BY <2>2, <3>1, <4>1 DEF ReadBootstrap, TypeOK
    <3>2. CASE q # r BY <1>3, <2>2, <3>2 DEF ReadBootstrap, TypeOK, Fetched
    <3> QED BY <3>1, <3>2
  <2>3. CASE ReadChanges(r)
    <3>1. todo' = todo BY <2>3 DEF ReadChanges
    <3>2. phase[q] = "live" BY <1>3, <2>3, ChangesCases DEF TypeOK
    <3> QED BY <3>1, <3>2 DEF Fetched
  <2> QED BY <2>1, <2>2, <2>3 DEF Read
<1> QED BY <1>2, <1>3 DEF Fetched

LEMMA RowsStep ==
  ASSUME TypeOK, TypeOK', LogInv, RowsInv, [Next]_vars
  PROVE  RowsInv'
<1> USE DEF RowsInv
<1>1. CASE \E t \in Tx : Write(t) BY <1>1, WriteRows
<1>2. CASE \E t \in Tx : Commit(t) BY <1>2, CommitRows
<1>3. ASSUME NEW t \in Tx, Abort(t) PROVE RowsInv'
  <2>1. /\ UNCHANGED <<log, phase, todo>>
        /\ \A u \in Tx : buf'[u] = IF u = t THEN {} ELSE buf[u]
    BY <1>3, ResetEffect DEF Abort, server, readers
  <2> QED BY <2>1, FS_EmptySet DEF Distinct, FiniteLog, Fetched
<1>4. ASSUME NEW b \in {x.cs : x \in log}, PurgeExpired(b) PROVE RowsInv'
  <2>1. log' \subseteq log /\ UNCHANGED <<buf, phase, todo>>
    BY <1>4 DEF PurgeExpired, txvars, readers
  <2>2. IsFiniteSet(log') BY <2>1, FS_Subset DEF FiniteLog
  <2> QED BY <2>1, <2>2 DEF Distinct, FiniteLog, Fetched
<1>5. CASE \E r \in Reader : Read(r) BY <1>5, ReadRows
<1>6. ASSUME NEW t \in Tx, AssignCommitSeq(t) PROVE RowsInv'
  BY <1>6 DEF AssignCommitSeq, readers, Distinct, FiniteLog, Fetched
<1>7. CASE UNCHANGED vars
  BY <1>7 DEF vars, server, txvars, readers, Distinct, FiniteLog, Fetched
<1> QED BY <1>1, <1>2, <1>3, <1>4, <1>5, <1>6, <1>7 DEF Next

\* The numbers of the log are drawn once each, the log is finite, and a reader
\* that is done with its bootstrap has fetched every row.
THEOREM RowsInvariant == Spec => []RowsInv
<1>1. Init => RowsInv
  BY FS_EmptySet DEF Init, RowsInv, Distinct, FiniteLog, Fetched
<1>2. OrderInv /\ OrderInv' /\ LogInv /\ RowsInv /\ [Next]_vars => RowsInv'
  BY RowsStep DEF OrderInv
<1> QED BY <1>1, <1>2, OrderInvariant, LogInvariant, PTL DEF Spec

-----------------------------------------------------------------------------
(* Reading makes progress: what remains of Drains without fairness. *)

\* Numbered records are ordered by their position.
LEMMA BeforeOrder ==
  ASSUME NEW x \in Change, NEW y \in Change, x.seq # y.seq
  PROVE  Before(x, y) \/ Before(y, x)
<1>1. x.cs \in Int /\ y.cs \in Int /\ x.seq \in Int /\ y.seq \in Int BY DEF Change
<1> QED BY <1>1 DEF Before

LEMMA FirstExists ==
  ASSUME NEW S \in SUBSET Change, S # {}
  PROVE  \E x \in S : \A y \in S : ~Before(y, x)
<1> DEFINE C == {x.cs : x \in S}
<1>1. C \in SUBSET Nat /\ C # {} BY DEF Change
<1>2. PICK m \in C : \A n \in C : m <= n
  <2> HIDE DEF C
  <2> QED BY <1>1, LeastExists
<1>3. \A x \in S : x.cs \in C OBVIOUS
<1> DEFINE low == {x \in S : x.cs = m}
           Q == {x.seq : x \in low}
<1>4. low # {} BY <1>2
<1>5. Q \in SUBSET Nat /\ Q # {}
  <2>1. \A x \in low : x.seq \in Nat BY DEF Change
  <2> HIDE DEF low
  <2> QED BY <1>4, <2>1
<1>6. PICK q \in Q : \A n \in Q : q <= n
  <2> HIDE DEF Q
  <2> QED BY <1>5, LeastExists
<1>7. PICK x \in low : x.seq = q BY <1>6
<1>8. ASSUME NEW y \in S PROVE ~Before(y, x)
  <2>1. x.cs \in Nat /\ y.cs \in Nat /\ x.seq \in Nat /\ y.seq \in Nat /\ x.cs = m BY <1>7 DEF Change
  <2>2. m <= y.cs BY <1>2, <1>3
  <2>3. y.cs = m => q <= y.seq
    <3> SUFFICES ASSUME y.cs = m PROVE q <= y.seq OBVIOUS
    <3>1. y \in low OBVIOUS
    <3>2. y.seq \in Q BY <3>1
    <3> QED BY <1>6, <3>2
  <2> QED BY <1>7, <2>1, <2>2, <2>3 DEF Before
<1> QED BY <1>7, <1>8

\* The records of a finite set that come first, however many are asked for.
LEMMA PrefixExists ==
  ASSUME NEW raw \in SUBSET Change, IsFiniteSet(raw), \A x, y \in raw : x.seq = y.seq => x = y,
         NEW n \in Nat, n <= Cardinality(raw)
  PROVE  \E p \in SUBSET raw : Cardinality(p) = n /\ \A x \in p, y \in raw \ p : Before(x, y)
<1> DEFINE Prefix(p, k) == Cardinality(p) = k /\ \A x \in p, y \in raw \ p : Before(x, y)
           bad == {k \in 0..Cardinality(raw) : ~\E p \in SUBSET raw : Prefix(p, k)}
<1>1. Cardinality(raw) \in Nat BY FS_CardinalityType
<1>2. ASSUME bad # {} PROVE FALSE
  <2>1. bad \in SUBSET Nat BY <1>1
  <2>2. PICK k \in bad : \A j \in bad : k <= j
    <3> HIDE DEF bad
    <3> QED BY <1>2, <2>1, LeastExists
  <2>3. CASE k = 0
    <3>1. Prefix({}, 0) BY FS_EmptySet
    <3> QED BY <2>2, <2>3, <3>1
  <2>4. CASE k # 0
    <3>1. k - 1 \in 0..Cardinality(raw) /\ ~(k <= k - 1) BY <1>1, <2>2, <2>4
    <3>2. k - 1 \notin bad
      <4> HIDE DEF bad
      <4> QED BY <2>2, <3>1
    <3>3. PICK p \in SUBSET raw : Prefix(p, k - 1) BY <3>1, <3>2
    <3>4. raw \ p # {}
      <4>1. Cardinality(p) # Cardinality(raw) BY <1>1, <2>2, <3>3
      <4> QED BY <4>1
    <3>5. PICK x \in raw \ p : \A y \in raw \ p : ~Before(y, x)
      <4>1. raw \ p \in SUBSET Change OBVIOUS
      <4> QED BY <3>4, <4>1, FirstExists
    <3>6. \A y \in raw \ (p \cup {x}) : Before(x, y)
      <4> SUFFICES ASSUME NEW y \in raw \ (p \cup {x}) PROVE Before(x, y) OBVIOUS
      <4>1. x.seq # y.seq OBVIOUS
      <4>2. ~Before(y, x) BY <3>5
      <4> QED BY <4>1, <4>2, BeforeOrder
    <3>7. Cardinality(p \cup {x}) = k
      <4>1. IsFiniteSet(p) BY FS_Subset
      <4>2. Cardinality(p \cup {x}) = Cardinality(p) + 1 BY <3>5, <4>1, FS_AddElement
      <4>3. k \in Int BY <1>1, <2>2
      <4> QED BY <3>3, <4>2, <4>3
    <3>8. Prefix(p \cup {x}, k) BY <3>3, <3>6, <3>7
    <3>9. p \cup {x} \in SUBSET raw OBVIOUS
    <3>10. ~\E s \in SUBSET raw : Prefix(s, k) BY <2>2
    <3> HIDE DEF Prefix
    <3> QED BY <3>8, <3>9, <3>10
  <2> QED BY <2>3, <2>4
<1>3. n \in 0..Cardinality(raw) BY <1>1
<1>4. n \notin bad BY <1>2
<1> QED BY <1>3, <1>4

\* Whatever is left to read, there is a page: the first PageLimit records, or all.
LEMMA PageExists ==
  ASSUME NEW raw \in SUBSET Change, IsFiniteSet(raw), \A x, y \in raw : x.seq = y.seq => x = y,
         raw # {}
  PROVE  \E page \in SUBSET raw : IsPage(page, raw) /\ StopsAtNewEntity(page, raw)
<1>1. Cardinality(raw) \in Nat /\ PageLimit \in Nat /\ PageLimit >= 1 BY FS_CardinalityType, FeedConstants
<1>2. CASE Cardinality(raw) <= PageLimit
  <2>1. IsPage(raw, raw) /\ StopsAtNewEntity(raw, raw) BY <1>2 DEF IsPage, StopsAtNewEntity
  <2> QED BY <2>1
<1>3. CASE ~(Cardinality(raw) <= PageLimit)
  <2>1. PICK p \in SUBSET raw : Cardinality(p) = PageLimit /\ \A x \in p, y \in raw \ p : Before(x, y)
    BY <1>1, <1>3, PrefixExists
  <2>2. p # {} BY <1>1, <2>1, FS_EmptySet
  <2> QED BY <1>1, <2>1, <2>2 DEF IsPage, StopsAtNewEntity
<1> QED BY <1>2, <1>3

\* GET /changes is never stuck: while something is left after a cursor that is still
\* good, build_changes_page has a page to return that respects the limit, the order
\* of the log and the rule about where the byte budget may stop.
THEOREM ReadNeverStuck ==
  Spec => [](\A r \in Reader :
               RawChanges(r) # {} =>
                 \E page \in SUBSET RawChanges(r) :
                   IsPage(page, RawChanges(r)) /\ StopsAtNewEntity(page, RawChanges(r)))
<1>1. ASSUME TypeOK, RowsInv, NEW r \in Reader, RawChanges(r) # {}
      PROVE  \E page \in SUBSET RawChanges(r) :
               IsPage(page, RawChanges(r)) /\ StopsAtNewEntity(page, RawChanges(r))
  <2>1. RawChanges(r) \in SUBSET Change BY <1>1 DEF RawChanges, TypeOK
  <2>2. IsFiniteSet(RawChanges(r)) BY <1>1, FS_Subset DEF RawChanges, RowsInv, FiniteLog
  <2>3. \A x, y \in RawChanges(r) : x.seq = y.seq => x = y BY <1>1 DEF RawChanges, RowsInv, Distinct
  <2> QED BY <1>1, <2>1, <2>2, <2>3, PageExists
<1>2. TypeOK /\ RowsInv =>
        \A r \in Reader : RawChanges(r) # {} =>
          \E page \in SUBSET RawChanges(r) :
            IsPage(page, RawChanges(r)) /\ StopsAtNewEntity(page, RawChanges(r))
  BY <1>1
<1> QED BY <1>2, TypeCorrect, RowsInvariant, PTL

\* Every request that is not refused leaves less to read, or nothing at all.
LEMMA ReadShrinks ==
  ASSUME OrderInv, NEW r \in Reader, ReadChanges(r), ~CursorExpired(cursor[r])
  PROVE  /\ RawChanges(r)' \subseteq RawChanges(r)
         /\ RawChanges(r) # {} => RawChanges(r)' # RawChanges(r)
<1>1. log' = log /\ log \subseteq Change BY DEF ReadChanges, server, OrderInv, TypeOK
<1>2. \A x \in log : x.cs \in Nat /\ x.seq \in Nat /\ x.seq <= MAX_SEQ BY <1>1, FeedConstants DEF Change
<1>3. ASSUME cursor'[r] = HeadCursor PROVE RawChanges(r)' = {}
  <2>1. Head \in Nat /\ \A x \in log : x.cs <= Head BY HeadIsMax DEF OrderInv
  <2>2. \A x \in log : ~Before(HeadCursor, x)
    <3> SUFFICES ASSUME NEW x \in log PROVE ~Before(HeadCursor, x) OBVIOUS
    <3>1. HeadCursor.cs = Head /\ HeadCursor.seq = MAX_SEQ /\ MAX_SEQ \in Nat
      BY FeedConstants DEF HeadCursor
    <3>2. x.cs \in Nat /\ x.seq \in Nat /\ x.seq <= MAX_SEQ /\ x.cs <= Head BY <1>2, <2>1
    <3> QED BY <2>1, <3>1, <3>2 DEF Before
  <2> QED BY <1>1, <1>3, <2>2 DEF RawChanges
<1>4. CASE RawChanges(r) = {} /\ cursor' = [cursor EXCEPT ![r] = HeadCursor]
  <2>1. cursor'[r] = HeadCursor BY <1>4 DEF OrderInv, TypeOK
  <2> QED BY <1>3, <1>4, <2>1
<1>5. ASSUME NEW page \in SUBSET RawChanges(r), Page(r, page)
      PROVE  /\ RawChanges(r)' \subseteq RawChanges(r)
             /\ RawChanges(r)' # RawChanges(r)
  <2>1. page # {} BY <1>5 DEF Page, IsPage
  <2>2. CASE page = RawChanges(r)
    <3>1. cursor'[r] = HeadCursor BY <1>5, <2>2 DEF Page, OrderInv, TypeOK
    <3> QED BY <1>3, <2>1, <2>2, <3>1
  <2>3. CASE page # RawChanges(r)
    <3> DEFINE last == LastOf(page)
    <3>1. last \in page BY <1>5, PageLast DEF Page, OrderInv
    <3>2. last \in log /\ Before(cursor[r], last) BY <3>1 DEF RawChanges
    <3>3. cursor'[r] = [cs |-> last.cs, seq |-> last.seq] BY <1>5, <2>3 DEF Page, OrderInv, TypeOK
    <3>4. cursor'[r].cs = last.cs /\ cursor'[r].seq = last.seq BY <3>3
    <3>5. cursor[r].cs \in Nat /\ cursor[r].seq \in Nat BY FeedConstants DEF OrderInv, TypeOK, Cursor
    <3> HIDE DEF last
    <3>6. last \notin RawChanges(r)' BY <1>2, <3>2, <3>4 DEF RawChanges, Before
    <3>7. \A x \in log : Before(cursor'[r], x) => Before(cursor[r], x)
      BY <1>2, <3>2, <3>4, <3>5 DEF Before
    <3>8. RawChanges(r)' \subseteq RawChanges(r) BY <1>1, <3>7 DEF RawChanges
    <3> QED BY <3>1, <3>6, <3>8
  <2> QED BY <2>2, <2>3
<1> QED BY <1>4, <1>5, ChangesCases

\* Pages always make progress: a request that is not refused leaves a proper part of
\* the (finite) set of records to read, so that once writes stop finitely many
\* requests drain it.
THEOREM ReadsShrink ==
  Spec => [][\A r \in Reader :
               ReadChanges(r) /\ ~CursorExpired(cursor[r]) =>
                 /\ RawChanges(r)' \subseteq RawChanges(r)
                 /\ RawChanges(r) # {} => RawChanges(r)' # RawChanges(r)]_vars
<1>1. OrderInv /\ [Next]_vars =>
        [\A r \in Reader :
           ReadChanges(r) /\ ~CursorExpired(cursor[r]) =>
             /\ RawChanges(r)' \subseteq RawChanges(r)
             /\ RawChanges(r) # {} => RawChanges(r)' # RawChanges(r)]_vars
  BY ReadShrinks
<1> QED BY <1>1, OrderInvariant, PTL DEF Spec

-----------------------------------------------------------------------------
(* What a reader has when nothing is left to read. *)

\* A reader that has caught up has exactly the current row, or the current absence,
\* of every entity but the children of roots that moved between scopes.
THEOREM ConvergesButForMoves ==
  Spec => [](\A r \in Reader : CaughtUp(r) =>
               \A e \in Entity : Root(e) \/ ParentOf[e] \notin moved =>
                 SameRow(view[r][e], Entry(db, versions, r, e)))
<1>1. ASSUME NothingMissed, EveryChangeLogged, RowsInv, NEW r \in Reader, CaughtUp(r),
             NEW e \in Entity, Root(e) \/ ParentOf[e] \notin moved
      PROVE  SameRow(view[r][e], Entry(db, versions, r, e))
  <2>1. phase[r] = "live" /\ todo[r] = {} BY <1>1 DEF CaughtUp, RowsInv, Fetched
  <2>2. \A s \in Visible[r] : <<e, s>> \notin unlogged BY <1>1 DEF EveryChangeLogged
  <2> QED BY <1>1, <2>1, <2>2 DEF NothingMissed, CaughtUp
<1>2. NothingMissed /\ EveryChangeLogged /\ RowsInv =>
        \A r \in Reader : CaughtUp(r) =>
          \A e \in Entity : Root(e) \/ ParentOf[e] \notin moved =>
            SameRow(view[r][e], Entry(db, versions, r, e))
  BY <1>1
<1> QED BY <1>2, NothingMissedHolds, EveryChangeLoggedHolds, RowsInvariant, PTL

\* Where every table has a scope column of its own, a reader converges: the move of a
\* parent is the only way to break what the comment above the log's DDL promises.
THEOREM ConvergesWithoutChildren ==
  (\A e \in Entity : Root(e)) /\ Spec => []ReaderConverges
<1>1. ASSUME \A e \in Entity : Root(e)
      PROVE  (\A r \in Reader : CaughtUp(r) =>
                \A e \in Entity : Root(e) \/ ParentOf[e] \notin moved =>
                  SameRow(view[r][e], Entry(db, versions, r, e)))
             => ReaderConverges
  BY <1>1 DEF ReaderConverges
<1>2. (\A e \in Entity : Root(e)) => (Spec => []ReaderConverges)
  <2> SUFFICES ASSUME \A e \in Entity : Root(e) PROVE Spec => []ReaderConverges OBVIOUS
  <2> QED BY <1>1, ConvergesButForMoves, PTL
<1> QED BY <1>2

=============================================================================
