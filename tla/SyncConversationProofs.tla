----------------------- MODULE SyncConversationProofs -----------------------
(* Proofs about SyncConversation, for every set of transactions, users and  *)
(* messages.                                                                *)
EXTENDS SyncConversation, TLAPS

Exclusive(t) == "no key update" \in held[t] \/ "update" \in held[t]
Wrote(t, k) == writes[t][k] # Unwritten

\* Locks that are held together are shared, and no row has two writers.
Exclusion ==
  \A t, o \in Tx : t # o =>
    /\ Exclusive(t) => held[o] = {}
    /\ \A k \in Key : ~Wrote(t, k) \/ ~Wrote(o, k)

\* What a transaction has written without the lock is the row whose trigger waits.
LockedBy(t) ==
  \A k \in Key : Wrote(t, k) /\ stmt[t] # k => IF k \in Message THEN held[t] # {} ELSE Exclusive(t)

\* No message or participant is seen without the conversation.
WithoutSession(d) == \A k \in Key \ {Session} : d[k] = IF k \in User THEN Left ELSE Absent
Whole(d) == d[Session] = Absent => WithoutSession(d)
Foreign(t) ==
  /\ Whole(Sees(t))
  /\ writes[t][Session] = Absent => \A k \in Key : Wrote(t, k)
  /\ stmt[t] # Nothing => Wrote(t, stmt[t])

Viewer(d, u) == d[Session] # Absent /\ (d[Session].owner = u \/ d[u] = Joined)

\* What a transaction has told a user so far, the row whose trigger waits aside.
ToldSession(t, u) ==
  stmt[t] # u /\ Served(db, u, Session) # Served(Sees(t), u, Session) => <<Session, u>> \in log[t]
ToldOld(t, u, m) ==
  db[m] # Absent /\ Visible(db, u) =>
    /\ Wrote(t, m) /\ stmt[t] # m => <<m, u>> \in log[t]
    /\ ~Visible(Sees(t), u) /\ stmt[t] # u => <<m, u>> \in log[t]
ToldNew(t, u, m) ==
  Sees(t)[m] # Absent /\ stmt[t] \notin {m, u} =>
    /\ Wrote(t, m) /\ Viewer(Sees(t), u) => <<m, u>> \in log[t]
    /\ Visible(Sees(t), u) /\ ~Visible(db, u) => <<m, u>> \in log[t]

ToldBy(t) ==
  \A u \in User : ToldSession(t, u) /\ \A m \in Message : ToldOld(t, u, m) /\ ToldNew(t, u, m)

IInv == TypeOK /\ Exclusion /\ Whole(db) /\ \A t \in Tx : LockedBy(t) /\ Foreign(t) /\ ToldBy(t)
-----------------------------------------------------------------------------
(* What a statement sees *)

LEMMA Rows ==
  ASSUME TypeOK, NEW t \in Tx
  PROVE  /\ DOMAIN Sees(t) = Key
         /\ \A k \in Key : /\ Sees(t)[k] = IF Wrote(t, k) THEN writes[t][k] ELSE db[k]
                           /\ Sees(t)[k] \in Value(k) /\ db[k] \in Value(k)
         /\ Sees(t)[Session] \in SessionRow \cup {Absent} /\ db[Session] \in SessionRow \cup {Absent}
         /\ \A m \in Message : Sees(t)[m] \in Content \cup {Absent} /\ db[m] \in Content \cup {Absent}
         /\ \A u \in User : Sees(t)[u] \in Status /\ db[u] \in Status
<1>1. /\ DOMAIN Sees(t) = Key
      /\ \A k \in Key : Sees(t)[k] = IF Wrote(t, k) THEN writes[t][k] ELSE db[k]
  BY DEF Sees, Wrote
<1>2. \A k \in Key : Sees(t)[k] \in Value(k) /\ db[k] \in Value(k)
  BY <1>1 DEF TypeOK, Wrote
<1>3. Session \in Key /\ Value(Session) = SessionRow \cup {Absent}
  BY DEF Key, Entity, Value
<1>4. \A m \in Message : m \in Key /\ Value(m) = Content \cup {Absent}
  BY ConversationConstants DEF Key, Entity, Value
<1>5. \A u \in User : u \in Key /\ Value(u) = Status
  BY ConversationConstants DEF Key, Entity, Value
<1>. QED  BY <1>1, <1>2, <1>3, <1>4, <1>5

LEMMA ViewersAre ==
  ASSUME NEW d, NEW u \in User, d[Session] # Absent
  PROVE  /\ u \in Viewers(d, d[Session].owner) <=> Viewer(d, u)
         /\ Visible(d, u) => Viewer(d, u)
  BY DEF Viewers, Viewer, Visible

LEMMA ViewersType ==
  ASSUME NEW d, NEW owner
  PROVE  Viewers(d, owner) \subseteq User
  BY DEF Viewers

-----------------------------------------------------------------------------
(* The parts of an action *)

Modes == {"share", "no key update", "update"}

LEMMA PutIs ==
  ASSUME TypeOK, NEW t \in Tx, NEW k \in Key, NEW value \in Value(k), Put(t, k, value)
  PROVE  /\ writes' \in [Tx -> [Key -> SessionRow \cup Content \cup Status \cup {Absent, Unwritten}]]
         /\ \A o \in Tx, j \in Key : writes'[o][j] = IF o = t /\ j = k THEN value ELSE writes[o][j]
         /\ \A o \in Tx, j \in Key : writes'[o][j] \in Value(j) \cup {Unwritten}
         /\ \A o \in Tx \ {t} : writes'[o] = writes[o]
         /\ value # Unwritten
<1>1. Value(k) \subseteq SessionRow \cup Content \cup Status \cup {Absent}
  BY DEF Value
<1>2. value # Unwritten
  BY <1>1, ConversationConstants
<1>. QED  BY <1>1, <1>2 DEF TypeOK, Put

LEMMA EmitIs ==
  ASSUME TypeOK, NEW t \in Tx, NEW entities \in SUBSET Entity, NEW users \in SUBSET User, Emit(t, entities, users)
  PROVE  /\ log' \in [Tx -> SUBSET (Entity \X User)]
         /\ log'[t] = log[t] \cup (entities \X users)
         /\ \A o \in Tx \ {t} : log'[o] = log[o]
  BY DEF TypeOK, Emit

LEMMA LockIs ==
  ASSUME TypeOK, NEW t \in Tx, NEW mode \in Modes, Lock(t, mode)
  PROVE  /\ held' \in [Tx -> SUBSET Modes]
         /\ held'[t] = held[t] \cup {mode}
         /\ \A o \in Tx \ {t} : held'[o] = held[o]
  BY DEF TypeOK, Lock, Modes

LEMMA MessagesInType ==
  ASSUME NEW d
  PROVE  {Session} \cup MessagesIn(d) \in SUBSET Entity
  BY DEF MessagesIn, Entity

\* The other transactions keep what they have and what they have said.
LEMMA Frame ==
  ASSUME TypeOK, NEW o \in Tx, db' = db, writes'[o] = writes[o], stmt'[o] = stmt[o], log'[o] = log[o]
  PROVE  /\ Sees(o)' = Sees(o)
         /\ \A k \in Key : Wrote(o, k)' = Wrote(o, k)
         /\ ToldBy(o) => ToldBy(o)'
<1>1. Sees(o)' = Sees(o)
  BY DEF Sees
<1>2. \A k \in Key : Wrote(o, k)' = Wrote(o, k)
  BY DEF Wrote
<1>3. \A m \in Message : m \in Key
  BY DEF Key, Entity
<1>4. ASSUME ToldBy(o), NEW u \in User
      PROVE  (ToldSession(o, u) /\ \A m \in Message : ToldOld(o, u, m) /\ ToldNew(o, u, m))'
  <2>1. ToldSession(o, u)'
    BY <1>1, <1>4 DEF ToldBy, ToldSession
  <2>2. ASSUME NEW m \in Message PROVE ToldOld(o, u, m)' /\ ToldNew(o, u, m)'
    <3>1. ToldOld(o, u, m) /\ ToldNew(o, u, m) /\ Wrote(o, m)' = Wrote(o, m)
      BY <1>2, <1>3, <1>4 DEF ToldBy
    <3>. QED  BY <1>1, <3>1 DEF ToldOld, ToldNew
  <2>. QED  BY <2>1, <2>2
<1>. QED  BY <1>1, <1>2, <1>4 DEF ToldBy

\* A transaction takes a lock, or writes rows that nobody else has written.
LEMMA ExclusionStep ==
  ASSUME TypeOK, Exclusion, NEW t \in Tx,
         held' = held \/ \E mode \in Modes : Lock(t, mode),
         \A o \in Tx \ {t} : writes'[o] = writes[o],
         \A k \in Key : writes'[t][k] = Unwritten \/ Wrote(t, k) \/ Free(t, k)
  PROVE  Exclusion'
<1>1. ASSUME NEW a \in Tx, NEW o \in Tx, a # o, Exclusive(a)' PROVE held'[o] = {}
  <2>1. CASE held' = held
    BY <2>1, <1>1 DEF Exclusion, Exclusive
  <2>2. ASSUME NEW mode \in Modes, Lock(t, mode) PROVE held'[o] = {}
    <3>1. /\ held'[t] = held[t] \cup {mode}
          /\ \A p \in Tx \ {t} : held'[p] = held[p]
      BY <2>2, LockIs
    <3>2. \A p \in Tx \ {t} : \A other \in held[p] : mode = "share" /\ other = "share"
      BY <2>2 DEF Lock, Granted, Conflict
    <3>3. CASE a # t /\ o # t
      BY <3>1, <3>3, <1>1 DEF Exclusion, Exclusive
    <3>4. CASE a = t
      <4>1. CASE mode = "share"
        BY <3>1, <3>4, <4>1, <1>1 DEF Exclusion, Exclusive
      <4>2. CASE mode # "share"
        BY <3>1, <3>2, <3>4, <4>2, <1>1
      <4>. QED  BY <4>1, <4>2
    <3>5. CASE o = t
      <4>1. a \in Tx \ {t} /\ held'[a] = held[a]
        BY <3>1, <3>5, <1>1
      <4>2. "no key update" \in held[a] \/ "update" \in held[a]
        BY <4>1, <1>1 DEF Exclusive
      <4>. QED  BY <4>1, <4>2, <3>2
    <3>. QED  BY <3>3, <3>4, <3>5
  <2>. QED  BY <2>1, <2>2
<1>2. ASSUME NEW a \in Tx, NEW o \in Tx, a # o, NEW k \in Key PROVE ~Wrote(a, k)' \/ ~Wrote(o, k)'
  <2>1. CASE a # t /\ o # t
    BY <1>2, <2>1 DEF Exclusion, Wrote
  <2>2. ASSUME NEW p \in Tx \ {t} PROVE ~Wrote(t, k)' \/ ~Wrote(p, k)'
    BY <2>2 DEF Exclusion, Wrote, Free
  <2>. QED  BY <1>2, <2>1, <2>2
<1>. QED  BY <1>1, <1>2 DEF Exclusion

\* A statement of t: the other transactions are where they were.
LEMMA StatementOf ==
  ASSUME IInv, NEW t \in Tx, db' = db,
         \A o \in Tx \ {t} : writes'[o] = writes[o] /\ held'[o] = held[o] /\ log'[o] = log[o] /\ stmt'[o] = stmt[o],
         TypeOK', Exclusion', LockedBy(t)', Foreign(t)', ToldBy(t)'
  PROVE  IInv'
<1>1. ASSUME NEW o \in Tx \ {t} PROVE LockedBy(o)' /\ Foreign(o)' /\ ToldBy(o)'
  <2>1. Sees(o)' = Sees(o) /\ (\A k \in Key : Wrote(o, k)' = Wrote(o, k)) /\ ToldBy(o)'
    BY Frame DEF IInv
  <2>2. LockedBy(o)'
    BY <2>1 DEF IInv, LockedBy, Exclusive
  <2>3. (stmt[o] # Nothing => Wrote(o, stmt[o]))'
    BY DEF IInv, Foreign, Whole, Wrote
  <2>4. (writes[o][Session] = Absent => \A k \in Key : Wrote(o, k))'
    BY <2>1 DEF IInv, Foreign, Whole
  <2>. QED  BY <2>1, <2>2, <2>3, <2>4 DEF IInv, Foreign, Whole, WithoutSession
<1>2. Whole(db)'
  BY DEF IInv, Whole, WithoutSession
<1>. QED  BY <1>1, <1>2 DEF IInv

\* What is seen of a conversation depends on its row and on the viewer's.
LEMMA SameView ==
  ASSUME NEW d, NEW e, NEW u, d[Session] = e[Session], d[u] = e[u]
  PROVE  /\ Visible(d, u) <=> Visible(e, u)
         /\ Viewer(d, u) <=> Viewer(e, u)
         /\ Served(d, u, Session) = Served(e, u, Session)
  BY DEF Visible, Viewer, Served

\* After Put, what t sees has changed in one place.
LEMMA PutSees ==
  ASSUME TypeOK, NEW t \in Tx, NEW k \in Key, NEW value \in Value(k), Put(t, k, value), db' = db
  PROVE  /\ \A j \in Key : Sees(t)'[j] = IF j = k THEN value ELSE Sees(t)[j]
         /\ \A j \in Key : Wrote(t, j)' <=> (j = k \/ Wrote(t, j))
<1>1. /\ \A j \in Key : writes'[t][j] = IF j = k THEN value ELSE writes[t][j]
      /\ value # Unwritten
  BY PutIs
<1>. QED  BY <1>1 DEF Sees, Wrote

LEMMA Keys ==
  /\ Session \in Key /\ \A m \in Message : m \in Key /\ m # Session
  /\ \A u \in User : u \in Key /\ u # Session /\ u \notin Message
  /\ Nothing \notin Key
  /\ \A k \in Key : k = Session \/ k \in Message \/ k \in User
  BY ConversationConstants DEF Key, Entity

LEMMA CountedType ==
  ASSUME TypeOK, NEW t \in Tx, count[t] < MaxStatements, Counted(t)
  PROVE  count' \in [Tx -> 0..MaxStatements]
<1>1. count \in [Tx -> 0..MaxStatements] /\ count' = [count EXCEPT ![t] = count[t] + 1]
  BY DEF TypeOK, Counted
<1>2. MaxStatements \in Nat
  BY ConversationConstants
<1>3. count[t] + 1 \in 0..MaxStatements
  BY <1>1, <1>2
<1>. QED  BY <1>1, <1>3

LEMMA WriteMessageStep ==
  ASSUME IInv, NEW t \in Tx, NEW m \in Message, WriteMessage(t, m)
  PROVE  IInv'
<1>. USE Keys
<1>1. PICK value \in (Content \cup {Absent}) \ {Sees(t)[m]} : Put(t, m, value)
  BY DEF WriteMessage
<1>2. /\ TypeOK /\ db' = db /\ held' = held /\ log' = log
      /\ stmt[t] = Nothing /\ stmt' = [stmt EXCEPT ![t] = m] /\ Free(t, m) /\ Sees(t)[Session] # Absent
      /\ count[t] < MaxStatements /\ Counted(t)
  BY DEF WriteMessage, IInv, Ready
<1>3. value \in Value(m)
  BY DEF Value
<1>4. /\ writes' \in [Tx -> [Key -> SessionRow \cup Content \cup Status \cup {Absent, Unwritten}]]
      /\ \A o \in Tx, j \in Key : writes'[o][j] = IF o = t /\ j = m THEN value ELSE writes[o][j]
      /\ \A o \in Tx, j \in Key : writes'[o][j] \in Value(j) \cup {Unwritten}
      /\ \A o \in Tx \ {t} : writes'[o] = writes[o]
  BY <1>1, <1>2, <1>3, PutIs
<1>5. /\ \A j \in Key : Sees(t)'[j] = IF j = m THEN value ELSE Sees(t)[j]
      /\ \A j \in Key : Wrote(t, j)' <=> (j = m \/ Wrote(t, j))
  BY <1>1, <1>2, <1>3, PutSees
<1>6. stmt'[t] = m /\ \A o \in Tx \ {t} : stmt'[o] = stmt[o]
  BY <1>2 DEF TypeOK
<1>7. TypeOK'
  <2>1. count' \in [Tx -> 0..MaxStatements]
    BY <1>2, CountedType
  <2>. QED  BY <1>2, <1>4, <2>1 DEF TypeOK
<1>8. Exclusion'
  BY <1>2, <1>4, ExclusionStep DEF IInv, Wrote
<1>9. LockedBy(t)'
  BY <1>2, <1>5, <1>6 DEF IInv, LockedBy, Exclusive
<1>10. Foreign(t)'
  <2>1. Sees(t)'[Session] # Absent
    BY <1>2, <1>5
  <2>2. writes'[t][Session] # Absent
    BY <1>2, <1>4, ConversationConstants DEF Sees
  <2>. QED  BY <2>1, <2>2, <1>5, <1>6 DEF Foreign, Whole
<1>11. ToldBy(t)'
  <2>. SUFFICES ASSUME NEW u \in User
                PROVE  (ToldSession(t, u) /\ \A n \in Message : ToldOld(t, u, n) /\ ToldNew(t, u, n))'
    BY DEF ToldBy
  <2>1. /\ ToldSession(t, u)
        /\ \A n \in Message : ToldOld(t, u, n) /\ ToldNew(t, u, n)
    BY DEF IInv, ToldBy
  <2>2. /\ Visible(Sees(t)', u) <=> Visible(Sees(t), u)
        /\ Viewer(Sees(t)', u) <=> Viewer(Sees(t), u)
        /\ Served(Sees(t)', u, Session) = Served(Sees(t), u, Session)
    BY <1>5, SameView
  <2>3. ToldSession(t, u)'
    BY <1>2, <1>6, <2>1, <2>2 DEF ToldSession
  <2>4. ASSUME NEW n \in Message PROVE ToldOld(t, u, n)'
    BY <1>2, <1>5, <1>6, <2>1, <2>2 DEF ToldOld
  <2>5. ASSUME NEW n \in Message PROVE ToldNew(t, u, n)'
    BY <1>2, <1>5, <1>6, <2>1, <2>2 DEF ToldNew
  <2>. QED  BY <2>3, <2>4, <2>5
<1>. QED  BY <1>2, <1>4, <1>6, <1>7, <1>8, <1>9, <1>10, <1>11, StatementOf

LEMMA LogMessageStep ==
  ASSUME IInv, NEW t \in Tx, LogMessage(t)
  PROVE  IInv'
<1>. DEFINE d == Sees(t)
            users == Viewers(d, d[Session].owner)
<1>1. /\ TypeOK /\ db' = db /\ writes' = writes /\ count' = count /\ Lock(t, "share")
      /\ stmt[t] \in Message /\ d[Session] # Absent /\ Emit(t, {stmt[t]}, users)
      /\ stmt' = [stmt EXCEPT ![t] = Nothing]
  BY DEF LogMessage, IInv
<1>2. /\ held' \in [Tx -> SUBSET Modes]
      /\ held'[t] = held[t] \cup {"share"}
      /\ \A o \in Tx \ {t} : held'[o] = held[o]
  BY <1>1, LockIs DEF Modes
<1>3. users \in SUBSET User /\ {stmt[t]} \in SUBSET Entity
  BY <1>1, ViewersType DEF Entity
<1>4. /\ log' \in [Tx -> SUBSET (Entity \X User)]
      /\ log'[t] = log[t] \cup ({stmt[t]} \X users)
      /\ \A o \in Tx \ {t} : log'[o] = log[o]
  <2>. HIDE DEF users
  <2>. QED  BY <1>1, <1>3, EmitIs
<1>5. Sees(t)' = Sees(t) /\ \A k : Wrote(t, k)' <=> Wrote(t, k)
  BY <1>1 DEF Sees, Wrote
<1>6. stmt'[t] = Nothing /\ \A o \in Tx \ {t} : stmt'[o] = stmt[o]
  BY <1>1 DEF TypeOK
<1>. USE Keys
<1>7. TypeOK'
  BY <1>1, <1>2, <1>4 DEF TypeOK, Modes
<1>8. Exclusion'
  <2>1. \E mode \in Modes : Lock(t, mode)
    BY <1>1 DEF Modes
  <2>. QED  BY <1>1, <2>1, ExclusionStep DEF IInv, Wrote
<1>9. LockedBy(t)'
  BY <1>1, <1>2, <1>5, <1>6 DEF IInv, LockedBy, Exclusive
<1>10. Foreign(t)'
  BY <1>1, <1>5, <1>6 DEF IInv, Foreign, Whole, WithoutSession
<1>11. ToldBy(t)'
  <2>. SUFFICES ASSUME NEW u \in User
                PROVE  (ToldSession(t, u) /\ \A n \in Message : ToldOld(t, u, n) /\ ToldNew(t, u, n))'
    BY DEF ToldBy
  <2>1. /\ ToldSession(t, u)
        /\ \A n \in Message : ToldOld(t, u, n) /\ ToldNew(t, u, n)
    BY DEF IInv, ToldBy
  <2>2. Visible(Sees(t), u) => Viewer(Sees(t), u)
    BY <1>1, ViewersAre
  <2>3. Viewer(Sees(t), u) => <<stmt[t], u>> \in log'[t]
    BY <1>1, <1>4, ViewersAre
  <2>4. log[t] \subseteq log'[t]
    BY <1>4
  <2>5. ToldSession(t, u)'
    BY <1>1, <1>5, <2>1, <2>4 DEF ToldSession
  <2>6. ASSUME NEW n \in Message PROVE ToldOld(t, u, n)'
    BY <1>1, <1>5, <2>1, <2>2, <2>3, <2>4 DEF ToldOld
  <2>7. ASSUME NEW n \in Message PROVE ToldNew(t, u, n)'
    BY <1>1, <1>5, <2>1, <2>2, <2>3, <2>4 DEF ToldNew
  <2>. QED  BY <2>5, <2>6, <2>7
<1>. QED  BY <1>1, <1>2, <1>4, <1>6, <1>7, <1>8, <1>9, <1>10, <1>11, StatementOf

LEMMA WriteParticipantStep ==
  ASSUME IInv, NEW t \in Tx, NEW p \in User, WriteParticipant(t, p)
  PROVE  IInv'
<1>. USE Keys
<1>1. PICK value \in Status \ {Sees(t)[p]} : Put(t, p, value)
  BY DEF WriteParticipant
<1>2. /\ TypeOK /\ db' = db /\ held' = held /\ log' = log
      /\ stmt[t] = Nothing /\ stmt' = [stmt EXCEPT ![t] = p] /\ Free(t, p) /\ Sees(t)[Session] # Absent
      /\ count[t] < MaxStatements /\ Counted(t)
  BY DEF WriteParticipant, IInv, Ready
<1>3. value \in Value(p)
  BY DEF Value
<1>4. /\ writes' \in [Tx -> [Key -> SessionRow \cup Content \cup Status \cup {Absent, Unwritten}]]
      /\ \A o \in Tx, j \in Key : writes'[o][j] = IF o = t /\ j = p THEN value ELSE writes[o][j]
      /\ \A o \in Tx, j \in Key : writes'[o][j] \in Value(j) \cup {Unwritten}
      /\ \A o \in Tx \ {t} : writes'[o] = writes[o]
  BY <1>1, <1>2, <1>3, PutIs
<1>5. /\ \A j \in Key : Sees(t)'[j] = IF j = p THEN value ELSE Sees(t)[j]
      /\ \A j \in Key : Wrote(t, j)' <=> (j = p \/ Wrote(t, j))
  BY <1>1, <1>2, <1>3, PutSees
<1>6. stmt'[t] = p /\ \A o \in Tx \ {t} : stmt'[o] = stmt[o]
  BY <1>2 DEF TypeOK
<1>7. TypeOK'
  <2>1. count' \in [Tx -> 0..MaxStatements]
    BY <1>2, CountedType
  <2>. QED  BY <1>2, <1>4, <2>1 DEF TypeOK
<1>8. Exclusion'
  BY <1>2, <1>4, ExclusionStep DEF IInv, Wrote
<1>9. LockedBy(t)'
  BY <1>2, <1>5, <1>6 DEF IInv, LockedBy, Exclusive
<1>10. Foreign(t)'
  <2>1. Sees(t)'[Session] # Absent
    BY <1>2, <1>5
  <2>2. writes'[t][Session] # Absent
    BY <1>2, <1>4, ConversationConstants DEF Sees
  <2>. QED  BY <2>1, <2>2, <1>5, <1>6 DEF Foreign, Whole
<1>11. ToldBy(t)'
  <2>. SUFFICES ASSUME NEW u \in User
                PROVE  (ToldSession(t, u) /\ \A n \in Message : ToldOld(t, u, n) /\ ToldNew(t, u, n))'
    BY DEF ToldBy
  <2>1. /\ ToldSession(t, u)
        /\ \A n \in Message : ToldOld(t, u, n) /\ ToldNew(t, u, n)
    BY DEF IInv, ToldBy
  <2>2. u # p => /\ Visible(Sees(t)', u) <=> Visible(Sees(t), u)
                 /\ Viewer(Sees(t)', u) <=> Viewer(Sees(t), u)
                 /\ Served(Sees(t)', u, Session) = Served(Sees(t), u, Session)
    BY <1>5, SameView
  <2>3. ToldSession(t, u)'
    BY <1>2, <1>6, <2>1, <2>2 DEF ToldSession
  <2>4. ASSUME NEW n \in Message PROVE ToldOld(t, u, n)'
    BY <1>2, <1>5, <1>6, <2>1, <2>2 DEF ToldOld
  <2>5. ASSUME NEW n \in Message PROVE ToldNew(t, u, n)'
    BY <1>2, <1>5, <1>6, <2>1, <2>2 DEF ToldNew
  <2>. QED  BY <2>3, <2>4, <2>5
<1>. QED  BY <1>2, <1>4, <1>6, <1>7, <1>8, <1>9, <1>10, <1>11, StatementOf

LEMMA LogParticipantStep ==
  ASSUME IInv, NEW t \in Tx, LogParticipant(t)
  PROVE  IInv'
<1>. DEFINE d == Sees(t)
            entities == {Session} \cup MessagesIn(d)
<1>1. /\ TypeOK /\ db' = db /\ writes' = writes /\ count' = count /\ Lock(t, "no key update")
      /\ stmt[t] \in User /\ d[Session] # Absent /\ Emit(t, entities, {stmt[t]})
      /\ stmt' = [stmt EXCEPT ![t] = Nothing]
  BY DEF LogParticipant, IInv
<1>2. /\ held' \in [Tx -> SUBSET Modes]
      /\ held'[t] = held[t] \cup {"no key update"}
      /\ \A o \in Tx \ {t} : held'[o] = held[o]
  BY <1>1, LockIs DEF Modes
<1>3. entities \in SUBSET Entity
  BY MessagesInType
<1>4. /\ log' \in [Tx -> SUBSET (Entity \X User)]
      /\ log'[t] = log[t] \cup (entities \X {stmt[t]})
      /\ \A o \in Tx \ {t} : log'[o] = log[o]
  <2>. HIDE DEF entities
  <2>. QED  BY <1>1, <1>3, EmitIs
<1>5. Sees(t)' = Sees(t) /\ \A k : Wrote(t, k)' <=> Wrote(t, k)
  BY <1>1 DEF Sees, Wrote
<1>6. stmt'[t] = Nothing /\ \A o \in Tx \ {t} : stmt'[o] = stmt[o]
  BY <1>1 DEF TypeOK
<1>. USE Keys
<1>7. TypeOK'
  BY <1>1, <1>2, <1>4 DEF TypeOK, Modes
<1>8. Exclusion'
  <2>1. \E mode \in Modes : Lock(t, mode)
    BY <1>1 DEF Modes
  <2>. QED  BY <1>1, <2>1, ExclusionStep DEF IInv, Wrote
<1>9. LockedBy(t)'
  BY <1>1, <1>2, <1>5, <1>6 DEF IInv, LockedBy, Exclusive
<1>10. Foreign(t)'
  BY <1>1, <1>5, <1>6 DEF IInv, Foreign, Whole, WithoutSession
<1>11. ToldBy(t)'
  <2>. SUFFICES ASSUME NEW u \in User
                PROVE  (ToldSession(t, u) /\ \A n \in Message : ToldOld(t, u, n) /\ ToldNew(t, u, n))'
    BY DEF ToldBy
  <2>1. /\ ToldSession(t, u)
        /\ \A n \in Message : ToldOld(t, u, n) /\ ToldNew(t, u, n)
    BY DEF IInv, ToldBy
  <2>2. u = stmt[t] => /\ <<Session, u>> \in log'[t]
                       /\ \A n \in Message : d[n] # Absent => <<n, u>> \in log'[t]
    BY <1>4 DEF MessagesIn
  <2>3. log[t] \subseteq log'[t]
    BY <1>4
  <2>4. \A n \in Message : ~Wrote(t, n) => d[n] = db[n]
    BY <1>1, Rows
  <2>5. ToldSession(t, u)'
    BY <1>1, <1>5, <2>1, <2>2, <2>3 DEF ToldSession
  <2>6. ASSUME NEW n \in Message PROVE ToldOld(t, u, n)'
    BY <1>1, <1>5, <2>1, <2>2, <2>3, <2>4 DEF ToldOld
  <2>7. ASSUME NEW n \in Message PROVE ToldNew(t, u, n)'
    BY <1>1, <1>5, <2>1, <2>2, <2>3 DEF ToldNew
  <2>. QED  BY <2>5, <2>6, <2>7
<1>. QED  BY <1>1, <1>2, <1>4, <1>6, <1>7, <1>8, <1>9, <1>10, <1>11, StatementOf

LEMMA LockSessionStep ==
  ASSUME IInv, NEW t \in Tx, LockSession(t)
  PROVE  IInv'
<1>1. /\ TypeOK /\ db' = db /\ writes' = writes /\ log' = log /\ stmt' = stmt /\ count' = count
      /\ Lock(t, "update")
  BY DEF LockSession, IInv
<1>2. /\ held' \in [Tx -> SUBSET Modes]
      /\ held'[t] = held[t] \cup {"update"}
      /\ \A o \in Tx \ {t} : held'[o] = held[o]
  BY <1>1, LockIs DEF Modes
<1>3. Sees(t)' = Sees(t) /\ \A k : Wrote(t, k)' <=> Wrote(t, k)
  BY <1>1 DEF Sees, Wrote
<1>4. TypeOK'
  BY <1>1, <1>2 DEF TypeOK, Modes
<1>5. Exclusion'
  <2>1. \E mode \in Modes : Lock(t, mode)
    BY <1>1 DEF Modes
  <2>. QED  BY <1>1, <2>1, ExclusionStep DEF IInv, Wrote
<1>6. LockedBy(t)'
  BY <1>1, <1>2, <1>3 DEF IInv, LockedBy, Exclusive
<1>7. Foreign(t)'
  BY <1>1, <1>3 DEF IInv, Foreign, Whole, WithoutSession
<1>8. ToldBy(t)'
  BY <1>1, Frame DEF IInv
<1>. QED  BY <1>1, <1>2, <1>4, <1>5, <1>6, <1>7, <1>8, StatementOf

\* Who has written the row of the conversation holds its lock.
LEMMA SessionFree ==
  ASSUME IInv, NEW t \in Tx, NEW mode \in Modes \ {"share"}, Lock(t, mode)
  PROVE  Free(t, Session)
<1>1. SUFFICES ASSUME NEW o \in Tx \ {t}, Wrote(o, Session) PROVE FALSE
  BY DEF Free, Wrote
<1>2. stmt[o] # Session
  BY Keys DEF IInv, TypeOK
<1>3. Exclusive(o)
  BY <1>1, <1>2, Keys DEF IInv, LockedBy
<1>4. \A other \in held[o] : mode = "share"
  BY DEF Lock, Granted, Conflict
<1>. QED  BY <1>3, <1>4 DEF Exclusive

\* The row of the conversation is written under its lock.
LEMMA PutSession ==
  ASSUME IInv, NEW t \in Tx, NEW mode \in Modes \ {"share"}, NEW row \in SessionRow,
         NEW entities \in SUBSET Entity, NEW users \in SUBSET User,
         Ready(t), Lock(t, mode), Put(t, Session, row), Emit(t, entities, users), Counted(t),
         UNCHANGED <<db, stmt>>,
         ToldBy(t)'
  PROVE  IInv'
<1>. USE Keys
<1>1. TypeOK /\ row \in Value(Session) /\ Session \in Key
  BY DEF IInv, Value
<1>2. /\ writes' \in [Tx -> [Key -> SessionRow \cup Content \cup Status \cup {Absent, Unwritten}]]
      /\ \A o \in Tx, j \in Key : writes'[o][j] = IF o = t /\ j = Session THEN row ELSE writes[o][j]
      /\ \A o \in Tx, j \in Key : writes'[o][j] \in Value(j) \cup {Unwritten}
      /\ \A o \in Tx \ {t} : writes'[o] = writes[o]
  BY <1>1, PutIs
<1>3. /\ \A j \in Key : Sees(t)'[j] = IF j = Session THEN row ELSE Sees(t)[j]
      /\ \A j \in Key : Wrote(t, j)' <=> (j = Session \/ Wrote(t, j))
  BY <1>1, PutSees
<1>4. /\ held' \in [Tx -> SUBSET Modes]
      /\ held'[t] = held[t] \cup {mode}
      /\ \A o \in Tx \ {t} : held'[o] = held[o]
  BY <1>1, LockIs
<1>5. /\ log' \in [Tx -> SUBSET (Entity \X User)]
      /\ \A o \in Tx \ {t} : log'[o] = log[o]
  BY <1>1, EmitIs
<1>6. TypeOK'
  <2>1. count' \in [Tx -> 0..MaxStatements]
    BY <1>1, CountedType DEF Ready
  <2>. QED  BY <1>1, <1>2, <1>4, <1>5, <2>1 DEF TypeOK, Modes
<1>7. Exclusion'
  <2>1. \E x \in Modes : Lock(t, x)
    OBVIOUS
  <2>2. Free(t, Session)
    BY SessionFree
  <2>. QED  BY <1>1, <1>2, <2>1, <2>2, ExclusionStep DEF IInv, Wrote
<1>8. LockedBy(t)'
  BY <1>3, <1>4 DEF IInv, LockedBy, Exclusive, Modes
<1>9. Foreign(t)'
  <2>1. row # Absent
    BY ConversationConstants
  <2>2. stmt'[t] = Nothing
    BY DEF Ready
  <2>. QED  BY <1>1, <1>2, <1>3, <2>1, <2>2 DEF Foreign, Whole
<1>. QED  BY <1>1, <1>2, <1>4, <1>5, <1>6, <1>7, <1>8, <1>9, StatementOf

LEMMA InsertSessionStep ==
  ASSUME IInv, NEW t \in Tx, InsertSession(t)
  PROVE  IInv'
<1>. DEFINE d == Sees(t)
            users(row) == Viewers(d, row.owner)
<1>1. PICK row \in SessionRow : Put(t, Session, row) /\ Emit(t, {Session}, users(row))
  BY DEF InsertSession
<1>2. /\ TypeOK /\ Ready(t) /\ Free(t, Session) /\ d[Session] = Absent
      /\ Lock(t, "update") /\ Counted(t) /\ UNCHANGED <<db, stmt>>
  BY DEF InsertSession, IInv
<1>3. {Session} \in SUBSET Entity /\ users(row) \in SUBSET User
  BY ViewersType DEF Entity
<1>. USE Keys
<1>4. /\ \A j \in Key : Sees(t)'[j] = IF j = Session THEN row ELSE d[j]
      /\ \A j \in Key : Wrote(t, j)' <=> (j = Session \/ Wrote(t, j))
  BY <1>1, <1>2, PutSees DEF Value
<1>5. log'[t] = log[t] \cup ({Session} \X users(row))
  <2>. HIDE DEF users
  <2>1. TypeOK /\ Emit(t, {Session}, users(row))
    BY <1>1, <1>2
  <2>. QED  BY <2>1 DEF Emit, TypeOK
<1>6. \A n \in Message : d[n] = Absent
  BY <1>2 DEF IInv, Foreign, Whole, WithoutSession
<1>7. stmt[t] = Nothing /\ stmt' = stmt /\ db' = db
  BY <1>2 DEF Ready
<1>8. ToldBy(t)'
  <2>. SUFFICES ASSUME NEW u \in User
                PROVE  (ToldSession(t, u) /\ \A n \in Message : ToldOld(t, u, n) /\ ToldNew(t, u, n))'
    BY DEF ToldBy
  <2>1. /\ ToldSession(t, u)
        /\ \A n \in Message : ToldOld(t, u, n) /\ ToldNew(t, u, n)
    BY DEF IInv, ToldBy
  <2>2. Visible(Sees(t)', u) => u \in Viewers(d, row.owner)
    BY <1>4 DEF Visible, Viewers
  <2>3. ToldSession(t, u)'
    BY <1>2, <1>5, <1>7, <2>1, <2>2 DEF ToldSession, Served, Visible
  <2>4. ASSUME NEW n \in Message PROVE ToldOld(t, u, n)'
    BY <1>2, <1>4, <1>5, <1>7, <2>1 DEF ToldOld, Visible
  <2>5. ASSUME NEW n \in Message PROVE ToldNew(t, u, n)'
    BY <1>4, <1>6 DEF ToldNew
  <2>. QED  BY <2>3, <2>4, <2>5
<1>. QED  BY <1>1, <1>2, <1>3, <1>8, PutSession DEF Modes

LEMMA UpdateSessionStep ==
  ASSUME IInv, NEW t \in Tx, UpdateSession(t)
  PROVE  IInv'
<1>. DEFINE d == Sees(t)
            old == d[Session]
            differs(row) == row.owner # old.owner \/ row.project # old.project
            entities(row) == {Session} \cup (IF differs(row) THEN MessagesIn(d) ELSE {})
            users(row) == Viewers(d, row.owner) \cup ({old.owner} \cap User)
<1>1. PICK row \in SessionRow \ {old} : Put(t, Session, row) /\ Emit(t, entities(row), users(row))
  BY DEF UpdateSession
<1>2. /\ TypeOK /\ Ready(t) /\ old # Absent
      /\ Lock(t, "no key update") /\ Counted(t) /\ UNCHANGED <<db, stmt>>
  BY DEF UpdateSession, IInv
<1>3. entities(row) \in SUBSET Entity /\ users(row) \in SUBSET User
  BY ViewersType, MessagesInType DEF MessagesIn, Entity
<1>. USE Keys
<1>4. /\ \A j \in Key : Sees(t)'[j] = IF j = Session THEN row ELSE d[j]
      /\ \A j \in Key : Wrote(t, j)' <=> (j = Session \/ Wrote(t, j))
  BY <1>1, <1>2, PutSees DEF Value
<1>5. log'[t] = log[t] \cup (entities(row) \X users(row))
  <2>. HIDE DEF entities, users
  <2>. QED  BY <1>1, <1>2, <1>3, EmitIs
<1>6. stmt[t] = Nothing /\ stmt' = stmt /\ db' = db
  BY <1>2 DEF Ready
<1>7. \A n \in Message : d[n] = IF Wrote(t, n) THEN writes[t][n] ELSE db[n]
  BY <1>2, Rows
<1>8. ToldBy(t)'
  <2>. SUFFICES ASSUME NEW u \in User
                PROVE  (ToldSession(t, u) /\ \A n \in Message : ToldOld(t, u, n) /\ ToldNew(t, u, n))'
    BY DEF ToldBy
  <2>1. /\ ToldSession(t, u)
        /\ \A n \in Message : ToldOld(t, u, n) /\ ToldNew(t, u, n)
    BY DEF IInv, ToldBy
  <2>2. Viewer(d, u) \/ Viewer(Sees(t)', u) => u \in users(row)
    BY <1>2, <1>4 DEF Viewer, Viewers
  <2>3. u \in users(row) =>
          /\ <<Session, u>> \in log'[t]
          /\ differs(row) => \A n \in Message : d[n] # Absent => <<n, u>> \in log'[t]
    BY <1>5 DEF MessagesIn
  <2>4. log[t] \subseteq log'[t]
    BY <1>5
  <2>5. row # Absent /\ Sees(t)'[Session] = row /\ Sees(t)'[u] = d[u]
    BY <1>4, ConversationConstants
  <2>6. (Visible(d, u) => Viewer(d, u)) /\ (Visible(Sees(t)', u) => Viewer(Sees(t)', u))
    BY <1>2, <2>5, ViewersAre
  <2>7. ~differs(row) => /\ Visible(Sees(t)', u) <=> Visible(d, u)
                         /\ Viewer(Sees(t)', u) <=> Viewer(d, u)
    BY <1>2, <2>5 DEF Visible, Viewer
  <2>8. ToldSession(t, u)'
    BY <1>6, <2>1, <2>2, <2>3, <2>4, <2>6 DEF ToldSession, Served
  <2>. HIDE DEF users, differs
  <2>9. ASSUME NEW n \in Message PROVE ToldOld(t, u, n)'
    BY <1>4, <1>6, <1>7, <2>1, <2>2, <2>3, <2>4, <2>6, <2>7 DEF ToldOld
  <2>10. ASSUME NEW n \in Message PROVE ToldNew(t, u, n)'
    BY <1>4, <1>6, <2>1, <2>2, <2>3, <2>4, <2>6, <2>7 DEF ToldNew
  <2>. QED  BY <2>8, <2>9, <2>10
<1>. QED  BY <1>1, <1>2, <1>3, <1>8, PutSession DEF Modes

LEMMA DeleteSessionStep ==
  ASSUME IInv, NEW t \in Tx, DeleteSession(t)
  PROVE  IInv'
<1>. DEFINE d == Sees(t)
            gone == [k \in Key |-> IF k \in User THEN Left ELSE Absent]
            entities == {Session} \cup MessagesIn(d)
            users == Viewers(d, d[Session].owner)
<1>1. /\ TypeOK /\ Ready(t) /\ d[Session] # Absent /\ \A k \in Key : Free(t, k)
      /\ Lock(t, "update") /\ Emit(t, entities, users) /\ Counted(t) /\ UNCHANGED <<db, stmt>>
      /\ writes' = [writes EXCEPT ![t] = gone]
  BY DEF DeleteSession, IInv
<1>2. entities \in SUBSET Entity /\ users \in SUBSET User
  BY ViewersType, MessagesInType
<1>3. /\ log' \in [Tx -> SUBSET (Entity \X User)]
      /\ log'[t] = log[t] \cup (entities \X users)
      /\ \A o \in Tx \ {t} : log'[o] = log[o]
  <2>. HIDE DEF entities, users
  <2>. QED  BY <1>1, <1>2, EmitIs
<1>4. /\ held' \in [Tx -> SUBSET Modes]
      /\ held'[t] = held[t] \cup {"update"}
      /\ \A o \in Tx \ {t} : held'[o] = held[o]
  BY <1>1, LockIs DEF Modes
<1>. USE Keys
<1>5. /\ writes' \in [Tx -> [Key -> SessionRow \cup Content \cup Status \cup {Absent, Unwritten}]]
      /\ writes'[t] = gone /\ \A o \in Tx \ {t} : writes'[o] = writes[o]
  BY <1>1 DEF TypeOK, Status
<1>6. \A k \in Key : gone[k] \in Value(k) /\ gone[k] # Unwritten
  BY ConversationConstants DEF Value, Status
<1>7. /\ \A k \in Key : Wrote(t, k)'
      /\ \A k \in Key : Sees(t)'[k] = gone[k]
  BY <1>5, <1>6 DEF Wrote, Sees
<1>8. stmt[t] = Nothing /\ stmt' = stmt /\ db' = db
  BY <1>1 DEF Ready
<1>9. TypeOK'
  <2>1. count' \in [Tx -> 0..MaxStatements]
    BY <1>1, CountedType DEF Ready
  <2>2. \A o \in Tx, k \in Key : writes'[o][k] \in Value(k) \cup {Unwritten}
    <3>. HIDE DEF gone
    <3>. QED  BY <1>1, <1>5, <1>6 DEF TypeOK
  <2>. QED  BY <1>1, <1>3, <1>4, <1>5, <2>1, <2>2 DEF TypeOK, Modes
<1>10. Exclusion'
  <2>1. \E mode \in Modes : Lock(t, mode)
    BY <1>1 DEF Modes
  <2>. QED  BY <1>1, <1>5, <2>1, ExclusionStep DEF IInv
<1>11. LockedBy(t)'
  BY <1>4 DEF LockedBy, Exclusive
<1>12. Foreign(t)'
  BY <1>7, <1>8 DEF Foreign, Whole, WithoutSession
<1>13. \A n \in Message : d[n] = IF Wrote(t, n) THEN writes[t][n] ELSE db[n]
  BY <1>1, Rows
<1>14. ToldBy(t)'
  <2>. SUFFICES ASSUME NEW u \in User
                PROVE  (ToldSession(t, u) /\ \A n \in Message : ToldOld(t, u, n) /\ ToldNew(t, u, n))'
    BY DEF ToldBy
  <2>1. /\ ToldSession(t, u)
        /\ \A n \in Message : ToldOld(t, u, n) /\ ToldNew(t, u, n)
    BY DEF IInv, ToldBy
  <2>2. (Visible(d, u) => Viewer(d, u)) /\ (Viewer(d, u) => u \in users)
    BY <1>1, ViewersAre
  <2>3. u \in users => /\ <<Session, u>> \in log'[t]
                       /\ \A n \in Message : d[n] # Absent => <<n, u>> \in log'[t]
    BY <1>3 DEF MessagesIn
  <2>4. log[t] \subseteq log'[t]
    BY <1>3
  <2>5. /\ Sees(t)'[Session] = Absent
        /\ \A n \in Message : Sees(t)'[n] = Absent
    BY <1>7
  <2>. HIDE DEF users
  <2>6. ToldSession(t, u)'
    BY <1>8, <2>1, <2>2, <2>3, <2>4, <2>5 DEF ToldSession, Served, Visible
  <2>7. ASSUME NEW n \in Message PROVE ToldOld(t, u, n)'
    BY <1>8, <1>13, <2>1, <2>2, <2>3, <2>4 DEF ToldOld
  <2>8. ASSUME NEW n \in Message PROVE ToldNew(t, u, n)'
    BY <2>5 DEF ToldNew
  <2>. QED  BY <2>6, <2>7, <2>8
<1>. QED  BY <1>1, <1>3, <1>4, <1>5, <1>8, <1>9, <1>10, <1>11, <1>12, <1>14, StatementOf

-----------------------------------------------------------------------------
(* The end of a transaction *)

LEMMA EndIs ==
  ASSUME IInv, NEW t \in Tx, End(t), db' \in [Key -> SessionRow \cup Content \cup Status \cup {Absent}],
         \A k \in Key : db'[k] \in Value(k)
  PROVE  /\ TypeOK' /\ Exclusion' /\ LockedBy(t)' /\ log'[t] = {}
         /\ \A k \in Key : ~Wrote(t, k)'
         /\ Sees(t)' = db' /\ stmt'[t] = Nothing
         /\ \A o \in Tx \ {t} : writes'[o] = writes[o] /\ held'[o] = held[o] /\ log'[o] = log[o] /\ stmt'[o] = stmt[o]
<1>1. /\ writes' = [writes EXCEPT ![t] = [k \in Key |-> Unwritten]]
      /\ held' = [held EXCEPT ![t] = {}]
      /\ log' = [log EXCEPT ![t] = {}]
      /\ stmt' = [stmt EXCEPT ![t] = Nothing]
      /\ count' = [count EXCEPT ![t] = 0]
      /\ TypeOK
  BY DEF End, IInv
<1>2. /\ log'[t] = {} /\ stmt'[t] = Nothing /\ held'[t] = {}
      /\ \A k \in Key : writes'[t][k] = Unwritten
      /\ \A o \in Tx \ {t} : writes'[o] = writes[o] /\ held'[o] = held[o] /\ log'[o] = log[o] /\ stmt'[o] = stmt[o]
  BY <1>1 DEF TypeOK
<1>3. TypeOK'
  <2>1. 0 \in 0..MaxStatements
    BY ConversationConstants
  <2>. QED  BY <1>1, <2>1 DEF TypeOK
<1>4. \A k \in Key : ~Wrote(t, k)'
  BY <1>2 DEF Wrote
<1>5. Exclusion'
  <2>1. ASSUME NEW a \in Tx, NEW o \in Tx, a # o, Exclusive(a)' PROVE held'[o] = {}
    <3>1. a # t
      BY <1>2, <2>1 DEF Exclusive
    <3>2. Exclusive(a)
      BY <1>2, <2>1, <3>1 DEF Exclusive
    <3>. QED  BY <1>2, <2>1, <3>2 DEF IInv, Exclusion
  <2>2. ASSUME NEW a \in Tx, NEW o \in Tx, a # o, NEW k \in Key PROVE ~Wrote(a, k)' \/ ~Wrote(o, k)'
    <3>1. CASE a = t \/ o = t
      BY <1>4, <3>1
    <3>2. CASE a # t /\ o # t
      BY <1>2, <2>2, <3>2 DEF IInv, Exclusion, Wrote
    <3>. QED  BY <3>1, <3>2
  <2>. QED  BY <2>1, <2>2 DEF Exclusion
<1>6. Sees(t)' = db'
  BY <1>2 DEF Sees
<1>. QED  BY <1>2, <1>3, <1>4, <1>5, <1>6 DEF LockedBy

\* A transaction that has written nothing sees what everybody sees.
LEMMA EndOwn ==
  ASSUME IInv, NEW t \in Tx, End(t), db' \in [Key -> SessionRow \cup Content \cup Status \cup {Absent}],
         \A k \in Key : db'[k] \in Value(k), Whole(db')
  PROVE  Foreign(t)' /\ ToldBy(t)'
<1>. USE Keys
<1>1. /\ \A k \in Key : ~Wrote(t, k)'
      /\ Sees(t)' = db' /\ stmt'[t] = Nothing
  BY EndIs
<1>2. Foreign(t)'
  BY <1>1, ConversationConstants DEF Foreign, Whole, Wrote
<1>3. ToldBy(t)'
  BY <1>1 DEF ToldBy, ToldSession, ToldOld, ToldNew
<1>. QED  BY <1>2, <1>3

LEMMA AbortStep ==
  ASSUME IInv, NEW t \in Tx, Abort(t)
  PROVE  IInv'
<1>1. /\ End(t) /\ db' = db /\ db \in [Key -> SessionRow \cup Content \cup Status \cup {Absent}]
      /\ (\A k \in Key : db[k] \in Value(k)) /\ Whole(db)
  BY DEF Abort, IInv, TypeOK
<1>2. /\ TypeOK' /\ Exclusion' /\ LockedBy(t)'
      /\ \A o \in Tx \ {t} : writes'[o] = writes[o] /\ held'[o] = held[o] /\ log'[o] = log[o] /\ stmt'[o] = stmt[o]
  BY <1>1, EndIs
<1>3. Foreign(t)' /\ ToldBy(t)'
  BY <1>1, EndOwn
<1>. QED  BY <1>1, <1>2, <1>3, StatementOf

LEMMA CommitStep ==
  ASSUME IInv, NEW t \in Tx, Commit(t)
  PROVE  IInv'
<1>. USE Keys
<1>1. TypeOK /\ stmt[t] = Nothing /\ db' = Sees(t) /\ End(t)
  BY DEF Commit, IInv
<1>2. /\ db' \in [Key -> SessionRow \cup Content \cup Status \cup {Absent}]
      /\ \A k \in Key : db'[k] \in Value(k)
      /\ \A k \in Key : db'[k] = IF Wrote(t, k) THEN writes[t][k] ELSE db[k]
  <2>1. \A k \in Key : Sees(t)[k] \in Value(k) /\ Sees(t)[k] = IF Wrote(t, k) THEN writes[t][k] ELSE db[k]
    BY <1>1, Rows
  <2>2. \A k \in Key : Sees(t)[k] \in SessionRow \cup Content \cup Status \cup {Absent}
    BY <2>1 DEF Value
  <2>3. Sees(t) = [k \in Key |-> Sees(t)[k]]
    BY DEF Sees
  <2>. QED  BY <1>1, <2>1, <2>2, <2>3
<1>3. Whole(db')
  BY <1>1 DEF IInv, Foreign
<1>4. /\ TypeOK' /\ Exclusion' /\ LockedBy(t)' /\ Foreign(t)' /\ ToldBy(t)'
      /\ \A o \in Tx \ {t} : writes'[o] = writes[o] /\ held'[o] = held[o] /\ log'[o] = log[o] /\ stmt'[o] = stmt[o]
  BY <1>1, <1>2, <1>3, EndIs, EndOwn
<1>5. ASSUME NEW o \in Tx \ {t} PROVE LockedBy(o)' /\ Foreign(o)' /\ ToldBy(o)'
  <2>. DEFINE d == Sees(o)
  <2>1. \A k \in Key : Wrote(o, k)' <=> Wrote(o, k)
    BY <1>4 DEF Wrote
  <2>2. \A k \in Key : ~(Wrote(t, k) /\ Wrote(o, k))
    BY DEF IInv, Exclusion
  <2>3. /\ \A k \in Key : d[k] = IF Wrote(o, k) THEN writes[o][k] ELSE db[k]
        /\ \A k \in Key : Sees(o)'[k] = IF Wrote(o, k) THEN d[k] ELSE db'[k]
    <3>1. \A k \in Key : d[k] = IF Wrote(o, k) THEN writes[o][k] ELSE db[k]
      BY <1>1, Rows
    <3>2. \A k \in Key : Sees(o)'[k] = IF Wrote(o, k)' THEN writes'[o][k] ELSE db'[k]
      BY DEF Sees, Wrote
    <3>. QED  BY <1>4, <2>1, <3>1, <3>2
  <2>4. LockedBy(o)'
    BY <1>4, <2>1 DEF IInv, LockedBy, Exclusive
  <2>5. Foreign(o)'
    <3>1. Whole(Sees(o)')
      <4>. SUFFICES ASSUME Sees(o)'[Session] = Absent, NEW k \in Key \ {Session}
                    PROVE  Sees(o)'[k] = IF k \in User THEN Left ELSE Absent
        BY DEF Whole, WithoutSession
      <4>1. CASE Wrote(o, Session)
        <5>1. \A j \in Key : Wrote(o, j)
          BY <2>3, <4>1 DEF IInv, Foreign
        <5>. QED  BY <2>3, <5>1 DEF IInv, Foreign, Whole, WithoutSession
      <4>2. CASE ~Wrote(o, Session)
        <5>1. db'[k] = IF k \in User THEN Left ELSE Absent
          BY <1>3, <2>3, <4>2 DEF Whole, WithoutSession
        <5>2. CASE Wrote(t, Session)
          <6>1. Wrote(t, k)
            BY <1>2, <2>3, <4>2, <5>2 DEF IInv, Foreign
          <6>. QED  BY <2>2, <2>3, <5>1, <6>1
        <5>3. CASE ~Wrote(t, Session)
          <6>1. d[Session] = Absent
            BY <1>2, <2>3, <4>2, <5>3
          <6>. QED  BY <2>3, <5>1, <6>1 DEF IInv, Foreign, Whole, WithoutSession
        <5>. QED  BY <5>2, <5>3
      <4>. QED  BY <4>1, <4>2
    <3>. QED  BY <1>4, <2>1, <3>1 DEF IInv, Foreign, Wrote
  <2>6. ASSUME NEW u \in User
        PROVE  (ToldSession(o, u) /\ \A m \in Message : ToldOld(o, u, m) /\ ToldNew(o, u, m))'
    <3>1. /\ ToldSession(o, u)
          /\ \A m \in Message : ToldOld(o, u, m) /\ ToldNew(o, u, m)
      BY DEF IInv, ToldBy
    <3>2. stmt[o] # Session
      BY <1>1 DEF TypeOK
    <3>3. CASE Exclusive(t)
      <4>1. \A k \in Key : Wrote(o, k) => stmt[o] = k
        BY <3>3 DEF IInv, Exclusion, LockedBy, Exclusive
      <4>2. stmt[o] # u => Sees(o)'[Session] = db'[Session] /\ Sees(o)'[u] = db'[u]
        BY <2>3, <3>2, <4>1
      <4>3. stmt[o] # u => /\ Visible(Sees(o)', u) <=> Visible(db', u)
                           /\ Served(Sees(o)', u, Session) = Served(db', u, Session)
        BY <4>2, SameView
      <4>. QED  BY <1>4, <2>1, <4>1, <4>3 DEF ToldSession, ToldOld, ToldNew
    <3>4. CASE ~Exclusive(t)
      <4>1. \A k \in Key : Wrote(t, k) => k \in Message /\ held[t] # {}
        BY <1>1, <3>4 DEF IInv, LockedBy
      <4>2. /\ db'[Session] = db[Session] /\ db'[u] = db[u]
            /\ Sees(o)'[Session] = d[Session] /\ Sees(o)'[u] = d[u]
        BY <1>2, <2>3, <4>1
      <4>3. /\ Visible(db', u) <=> Visible(db, u)
            /\ Served(db', u, Session) = Served(db, u, Session)
        BY <4>2, SameView
      <4>4. /\ Visible(Sees(o)', u) <=> Visible(d, u)
            /\ Viewer(Sees(o)', u) <=> Viewer(d, u)
            /\ Served(Sees(o)', u, Session) = Served(d, u, Session)
        BY <4>2, SameView
      <4>5. ASSUME NEW m \in Message, Wrote(t, m), stmt[o] # u
            PROVE  Visible(d, u) <=> Visible(db, u)
        <5>1. ~Exclusive(o)
          BY <4>1, <4>5 DEF IInv, Exclusion
        <5>2. ~Wrote(o, Session) /\ ~Wrote(o, u)
          BY <3>2, <4>5, <5>1 DEF IInv, LockedBy
        <5>. QED  BY <2>3, <5>2, SameView
      <4>6. ToldSession(o, u)'
        BY <1>4, <3>1, <4>3, <4>4 DEF ToldSession
      <4>7. ASSUME NEW m \in Message PROVE ToldOld(o, u, m)' /\ ToldNew(o, u, m)'
        <5>1. CASE Wrote(t, m)
          BY <1>4, <2>1, <2>2, <4>3, <4>4, <4>5, <5>1 DEF ToldOld, ToldNew
        <5>2. CASE ~Wrote(t, m)
          <6>1. db'[m] = db[m] /\ Sees(o)'[m] = d[m]
            BY <1>2, <2>3, <5>2
          <6>. QED  BY <1>4, <2>1, <3>1, <4>3, <4>4, <6>1 DEF ToldOld, ToldNew
        <5>. QED  BY <5>1, <5>2
      <4>. QED  BY <4>6, <4>7
    <3>. QED  BY <3>3, <3>4
  <2>. QED  BY <2>4, <2>5, <2>6 DEF ToldBy
<1>. QED  BY <1>3, <1>4, <1>5 DEF IInv

-----------------------------------------------------------------------------
(* The theorems *)

LEMMA InitInv == Init => IInv
<1>. SUFFICES ASSUME Init PROVE IInv
  OBVIOUS
<1>. USE Keys DEF Init
<1>1. TypeOK
  <2>1. 0 \in 0..MaxStatements
    BY ConversationConstants
  <2>2. \A k \in Key : db[k] \in Value(k)
    BY DEF Value, Status
  <2>. QED  BY <2>1, <2>2 DEF TypeOK, Status
<1>2. \A t \in Tx, k \in Key : ~Wrote(t, k)
  BY DEF Wrote
<1>3. Exclusion
  BY <1>2 DEF Exclusion, Exclusive
<1>4. WithoutSession(db)
  BY DEF WithoutSession
<1>5. ASSUME NEW t \in Tx PROVE LockedBy(t) /\ Foreign(t) /\ ToldBy(t)
  <2>1. Sees(t) = db
    BY DEF Sees
  <2>2. Foreign(t)
    BY <1>4, <2>1, ConversationConstants DEF Foreign, Whole
  <2>. QED  BY <1>2, <2>1, <2>2 DEF LockedBy, ToldBy, ToldSession, ToldOld, ToldNew
<1>. QED  BY <1>1, <1>3, <1>4, <1>5 DEF IInv, Whole

LEMMA NextInv == IInv /\ [Next]_vars => IInv'
<1>. SUFFICES ASSUME IInv, [Next]_vars PROVE IInv'
  OBVIOUS
<1>1. ASSUME NEW t \in Tx, Statement(t) PROVE IInv'
  BY <1>1, WriteMessageStep, WriteParticipantStep, LogMessageStep, LogParticipantStep,
     LockSessionStep, InsertSessionStep, UpdateSessionStep, DeleteSessionStep DEF Statement
<1>2. ASSUME NEW t \in Tx, Commit(t) PROVE IInv'
  BY <1>2, CommitStep
<1>3. ASSUME NEW t \in Tx, Abort(t) PROVE IInv'
  BY <1>3, AbortStep
<1>4. CASE UNCHANGED vars
  <2>1. TypeOK'
    BY <1>4 DEF vars, IInv, TypeOK
  <2>2. Exclusion'
    BY <1>4 DEF vars, IInv, Exclusion, Exclusive, Wrote
  <2>3. Whole(db)'
    BY <1>4 DEF vars, IInv, Whole, WithoutSession
  <2>4. ASSUME NEW t \in Tx PROVE LockedBy(t)' /\ Foreign(t)' /\ ToldBy(t)'
    <3>1. Sees(t)' = Sees(t) /\ (\A k \in Key : Wrote(t, k)' = Wrote(t, k)) /\ ToldBy(t)'
      BY <1>4, Frame DEF vars, IInv
    <3>2. LockedBy(t)'
      BY <1>4, <3>1 DEF vars, IInv, LockedBy, Exclusive
    <3>. QED  BY <1>4, <3>1, <3>2 DEF vars, IInv, Foreign, Whole, WithoutSession, Wrote
  <2>. QED  BY <2>1, <2>2, <2>3, <2>4 DEF IInv
<1>. QED  BY <1>1, <1>2, <1>3, <1>4 DEF Next

\* The inductive invariant: which locks go with which writes, and what a
\* transaction has said of what it has changed.
THEOREM ConversationInvariant == Spec => []IInv
  BY InitInv, NextInv, PTL DEF Spec

\* Every variable keeps its type.
THEOREM TypeCorrect == Spec => []TypeOK
<1>1. IInv => TypeOK
  BY DEF IInv
<1>. QED  BY <1>1, ConversationInvariant, PTL

\* A transaction that commits has told every user of whatever it changes for them.
LEMMA CommitTells ==
  ASSUME IInv, NEW t \in Tx, Commit(t), NEW u \in User, NEW x \in Entity,
         Served(db, u, x) # Served(db', u, x)
  PROVE  log'[t] = {} /\ <<x, u>> \in log[t]
<1>. USE Keys
<1>1. TypeOK /\ stmt[t] = Nothing /\ db' = Sees(t) /\ End(t)
  BY DEF Commit, IInv
<1>2. log'[t] = {}
  BY <1>1 DEF End, TypeOK
<1>3. /\ ToldSession(t, u)
      /\ \A m \in Message : ToldOld(t, u, m) /\ ToldNew(t, u, m)
  BY DEF IInv, ToldBy
<1>4. CASE x = Session
  BY <1>1, <1>2, <1>3, <1>4 DEF ToldSession
<1>5. CASE x \in Message
  <2>1. Sees(t)[x] # db[x] => Wrote(t, x)
    BY <1>1, <1>5, Rows
  <2>2. Visible(Sees(t), u) => Viewer(Sees(t), u)
    BY DEF Visible, Viewer
  <2>. QED  BY <1>1, <1>2, <1>3, <1>5, <2>1, <2>2 DEF ToldOld, ToldNew, Served
<1>. QED  BY <1>4, <1>5 DEF Entity

\* I-C and I-J: no change of what a user may see of a conversation is missing
\* from the log of the transaction that makes it.
THEOREM EveryViewerToldHolds == Spec => EveryViewerTold
<1>. DEFINE Step ==
       \A u \in User, x \in Entity :
         Served(db, u, x) # Served(db', u, x) => \E t \in Tx : log'[t] = {} /\ <<x, u>> \in log[t]
<1>1. ASSUME IInv, [Next]_vars PROVE [Step]_vars
  <2>1. ASSUME NEW t \in Tx, Commit(t) PROVE Step
    BY <1>1, <2>1, CommitTells
  <2>2. ASSUME NEW t \in Tx, Statement(t) \/ Abort(t) PROVE db' = db
    BY <2>2 DEF Statement, Abort, WriteMessage, WriteParticipant, LogMessage, LogParticipant,
                LockSession, InsertSession, UpdateSession, DeleteSession
  <2>3. CASE db' = db
    BY <2>3
  <2>. QED  BY <1>1, <2>1, <2>2, <2>3 DEF Next, vars
<1>. QED  BY <1>1, ConversationInvariant, PTL DEF Spec, EveryViewerTold
=============================================================================
