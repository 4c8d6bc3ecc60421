-------------------------- MODULE SyncConversation --------------------------
(***************************************************************************)
(* The change log of a conversation.  Its scope is not a column but the    *)
(* set of its viewers, so that a change of the participants concerns every *)
(* message, and a change of a message every viewer: whoever becomes a      *)
(* viewer while messages are written must hear of all of them.  The        *)
(* triggers order the two with row locks on the conversation.              *)
(*                                                                         *)
(* Transactions are READ COMMITTED, as the triggers require: a statement   *)
(* sees what is committed when it begins, and what its own transaction has *)
(* written.  A trigger reads in a statement of its own, after it has the   *)
(* lock.  Locks last until the transaction ends.                           *)
(***************************************************************************)
EXTENDS Integers

CONSTANTS
  Tx,
  User,
  Message,
  Session,        \* the conversation
  Project,
  ReadableBy,     \* per project, the users who may read it
  NoUser,         \* the owner of a conversation from before there were accounts
  Content,        \* what a row holds besides
  Joined, Left,   \* of a participant; Left is also a row that is not there
  Absent, Unwritten, Nothing,
  MaxStatements   \* bound: row writes of a transaction

Entity == {Session} \cup Message
Key == Entity \cup User
SessionRow == [owner : User \cup {NoUser}, project : Project, content : Content]
Status == {Joined, Left}

ASSUME ConversationConstants ==
  /\ Session \notin User \cup Message /\ User \cap Message = {}
  /\ NoUser \notin User
  /\ Joined # Left
  /\ Absent \notin SessionRow \cup Content
  /\ Unwritten \notin SessionRow \cup Content \cup Status \cup {Absent}
  /\ Nothing \notin Key
  /\ MaxStatements \in Nat

VARIABLES
  db,      \* the committed rows: the conversation, its messages, its participants
  writes,  \* per transaction, the rows it has written
  held,    \* per transaction, its locks on the row of the conversation
  log,     \* per transaction, the records it has added: entity and owner_user_id
  stmt,    \* per transaction, the row whose trigger has not run yet
  count    \* per transaction, the rows it has written

vars == <<db, writes, held, log, stmt, count>>

Value(k) ==
  IF k = Session THEN SessionRow \cup {Absent}
  ELSE IF k \in Message THEN Content \cup {Absent} ELSE Status

-----------------------------------------------------------------------------
(* What a statement sees, and the locks *)

Sees(t) == [k \in Key |-> IF writes[t][k] = Unwritten THEN db[k] ELSE writes[t][k]]

\* Nobody else has written the row.
Free(t, k) == \A o \in Tx \ {t} : writes[o][k] = Unwritten

\* FOR SHARE, FOR NO KEY UPDATE, FOR UPDATE
Conflict(mode, other) == ~(mode = "share" /\ other = "share")
Granted(t, mode) == \A o \in Tx \ {t} : \A other \in held[o] : ~Conflict(mode, other)
Lock(t, mode) == Granted(t, mode) /\ held' = [held EXCEPT ![t] = @ \cup {mode}]

\* Mutant: an owner who is no account is kept.
ViewersUnfiltered(d, owner) == {owner} \cup {u \in User : d[u] = Joined}

\* sync_v3_session_viewers
Viewers(d, owner) == ({owner} \cap User) \cup {u \in User : d[u] = Joined}

Emit(t, entities, users) == log' = [log EXCEPT ![t] = @ \cup (entities \X users)]
MessagesIn(d) == {m \in Message : d[m] # Absent}

Ready(t) == stmt[t] = Nothing /\ count[t] < MaxStatements
Put(t, k, value) == writes' = [writes EXCEPT ![t][k] = value]
Counted(t) == count' = [count EXCEPT ![t] = @ + 1]

-----------------------------------------------------------------------------
(* Messages and participants: the row is written, then its trigger runs *)

WriteMessage(t, m) ==
  /\ Ready(t) /\ Free(t, m)
  /\ Sees(t)[Session] # Absent
  /\ \E value \in (Content \cup {Absent}) \ {Sees(t)[m]} : Put(t, m, value)
  /\ stmt' = [stmt EXCEPT ![t] = m]
  /\ Counted(t)
  /\ UNCHANGED <<db, held, log>>

\* Mutant: the viewers are read without the lock.
LogMessageUnlocked(t) ==
  /\ stmt[t] \in Message
  /\ Sees(t)[Session] # Absent
  /\ Emit(t, {stmt[t]}, Viewers(Sees(t), Sees(t)[Session].owner))
  /\ stmt' = [stmt EXCEPT ![t] = Nothing]
  /\ UNCHANGED <<db, writes, held, count>>

\* sync_v3_log_conversation_messages
LogMessage(t) ==
  /\ stmt[t] \in Message
  /\ Lock(t, "share")
  /\ Sees(t)[Session] # Absent
  /\ Emit(t, {stmt[t]}, Viewers(Sees(t), Sees(t)[Session].owner))
  /\ stmt' = [stmt EXCEPT ![t] = Nothing]
  /\ UNCHANGED <<db, writes, count>>

WriteParticipant(t, u) ==
  /\ Ready(t) /\ Free(t, u)
  /\ Sees(t)[Session] # Absent
  /\ \E value \in Status \ {Sees(t)[u]} : Put(t, u, value)
  /\ stmt' = [stmt EXCEPT ![t] = u]
  /\ Counted(t)
  /\ UNCHANGED <<db, held, log>>

\* sync_v3_dep_participants, sync_v3_emit_participant
LogParticipant(t) ==
  /\ stmt[t] \in User
  /\ Lock(t, "no key update")
  /\ Sees(t)[Session] # Absent
  /\ Emit(t, {Session} \cup MessagesIn(Sees(t)), {stmt[t]})
  /\ stmt' = [stmt EXCEPT ![t] = Nothing]
  /\ UNCHANGED <<db, writes, count>>

-----------------------------------------------------------------------------
(* The conversation: its row is locked when the trigger runs *)

\* SELECT ... FOR UPDATE, as writers of messages do first.
LockSession(t) ==
  /\ stmt[t] = Nothing
  /\ Sees(t)[Session] # Absent
  /\ Lock(t, "update")
  /\ UNCHANGED <<db, writes, log, stmt, count>>

InsertSession(t) ==
  /\ Ready(t) /\ Free(t, Session)
  /\ Sees(t)[Session] = Absent
  /\ Lock(t, "update")
  /\ \E row \in SessionRow :
       /\ Put(t, Session, row)
       /\ Emit(t, {Session}, Viewers(Sees(t), row.owner))
  /\ Counted(t)
  /\ UNCHANGED <<db, stmt>>

\* Mutant: a change of owner is logged for the new viewers.
UpdateSessionForNew(t) ==
  /\ Ready(t)
  /\ Sees(t)[Session] # Absent
  /\ Lock(t, "no key update")
  /\ LET old == Sees(t)[Session] IN
     \E row \in SessionRow \ {old} :
       /\ Put(t, Session, row)
       /\ Emit(t, {Session} \cup (IF row.owner # old.owner \/ row.project # old.project THEN MessagesIn(Sees(t)) ELSE {}),
               Viewers(Sees(t), row.owner))
  /\ Counted(t)
  /\ UNCHANGED <<db, stmt>>

\* sync_v3_log_conversation_sessions: the messages are of no concern unless the
\* owner or the project changes.
UpdateSession(t) ==
  /\ Ready(t)
  /\ Sees(t)[Session] # Absent
  /\ Lock(t, "no key update")
  /\ LET old == Sees(t)[Session] IN
     \E row \in SessionRow \ {old} :
       /\ Put(t, Session, row)
       /\ Emit(t, {Session} \cup (IF row.owner # old.owner \/ row.project # old.project THEN MessagesIn(Sees(t)) ELSE {}),
               Viewers(Sees(t), row.owner) \cup ({old.owner} \cap User))
  /\ Counted(t)
  /\ UNCHANGED <<db, stmt>>

\* The trigger runs before the row is deleted; messages and participants go with
\* it, when nobody else has written them, and log nothing.
DeleteSession(t) ==
  /\ Ready(t)
  /\ \A k \in Key : Free(t, k)
  /\ Sees(t)[Session] # Absent
  /\ Lock(t, "update")
  /\ Emit(t, {Session} \cup MessagesIn(Sees(t)), Viewers(Sees(t), Sees(t)[Session].owner))
  /\ writes' = [writes EXCEPT ![t] = [k \in Key |-> IF k \in User THEN Left ELSE Absent]]
  /\ Counted(t)
  /\ UNCHANGED <<db, stmt>>

-----------------------------------------------------------------------------
(* Transactions *)

End(t) ==
  /\ writes' = [writes EXCEPT ![t] = [k \in Key |-> Unwritten]]
  /\ held' = [held EXCEPT ![t] = {}]
  /\ log' = [log EXCEPT ![t] = {}]
  /\ stmt' = [stmt EXCEPT ![t] = Nothing]
  /\ count' = [count EXCEPT ![t] = 0]

Commit(t) ==
  /\ stmt[t] = Nothing
  /\ db' = Sees(t)
  /\ End(t)

\* A rollback, a crash, or the victim of a deadlock.
Abort(t) == End(t) /\ UNCHANGED db

Init ==
  /\ db = [k \in Key |-> IF k \in User THEN Left ELSE Absent]
  /\ writes = [t \in Tx |-> [k \in Key |-> Unwritten]]
  /\ held = [t \in Tx |-> {}]
  /\ log = [t \in Tx |-> {}]
  /\ stmt = [t \in Tx |-> Nothing]
  /\ count = [t \in Tx |-> 0]

Statement(t) ==
  \/ \E m \in Message : WriteMessage(t, m)
  \/ \E u \in User : WriteParticipant(t, u)
  \/ LogMessage(t) \/ LogParticipant(t)
  \/ LockSession(t) \/ InsertSession(t) \/ UpdateSession(t) \/ DeleteSession(t)

Next == \E t \in Tx : Statement(t) \/ Commit(t) \/ Abort(t)
Spec == Init /\ [][Next]_vars

-----------------------------------------------------------------------------
TypeOK ==
  /\ db \in [Key -> SessionRow \cup Content \cup Status \cup {Absent}]
  /\ \A k \in Key : db[k] \in Value(k)
  /\ writes \in [Tx -> [Key -> SessionRow \cup Content \cup Status \cup {Absent, Unwritten}]]
  /\ \A t \in Tx, k \in Key : writes[t][k] \in Value(k) \cup {Unwritten}
  /\ held \in [Tx -> SUBSET {"share", "no key update", "update"}]
  /\ log \in [Tx -> SUBSET (Entity \X User)]
  /\ stmt \in [Tx -> User \cup Message \cup {Nothing}]
  /\ count \in [Tx -> 0..MaxStatements]

\* _conversation_visibility_filter
Visible(d, u) ==
  /\ d[Session] # Absent
  /\ d[Session].owner = u \/ d[u] = Joined
  /\ u \in ReadableBy[d[Session].project]
Served(d, u, x) == IF Visible(d, u) THEN d[x] ELSE Absent

\* "Concurrent changes do not lose a record either" (schema_sql.py, I-C and I-J):
\* whatever changes for a user when a transaction commits, a message, the
\* conversation, or whether they are seen at all, is logged for this user by it.
EveryViewerTold ==
  [][\A u \in User, x \in Entity :
       Served(db, u, x) # Served(db', u, x) => \E t \in Tx : log'[t] = {} /\ <<x, u>> \in log[t]]_vars
=============================================================================
