------------------------------ MODULE SyncPull ------------------------------
(***************************************************************************)
(* The client half of Sync v3 pull: the mobile app keeps, per account, the *)
(* rows of the scopes it may see, the membership of each row (which scope  *)
(* brought it, in which generation) and a durable state: the changes       *)
(* cursor, the scope-set revision and a bootstrap position per scope.      *)
(*                                                                         *)
(* A run is a sequence of units.  A unit is one SQLite transaction that    *)
(* applies a page and saves a copy of the state the run holds in memory; a *)
(* run may be interrupted between any two of them.  The server is what     *)
(* SyncChangeFeed promises: a log in commit order that records every       *)
(* visible change.  Fetching a page and applying it is one step, since     *)
(* nothing but the server can move between the two.  The outbox is seen as *)
(* the set of rows it protects.                                            *)
(***************************************************************************)
EXTENDS Integers, FiniteSets, Sequences, FiniteSetsExt

CONSTANTS
  Scope,
  Entity,
  Absent,       \* there is no such row
  NoState,      \* no (or no readable) saved state; no state in memory
  Unsaved,      \* the state has no entry for the scope
  NoBoot,       \* bootstrap = null
  NoRevision,   \* scopeSetRevision = null
  Idle,         \* no /scopes response is being reconciled
  Editable,     \* the rows that are edited, or created, on this device
  BatchSize,    \* SYNC_V3_SWEEP_BATCH_SIZE
  FreshGrants,  \* BOOLEAN: a scope never comes back with a fingerprint it had before
  MaxLog,       \* bounds the changes of a run of the model,
  MaxGrant,     \* the fingerprints issued,
  MaxRequested  \* and the generation up to which a re-bootstrap is requested

NoCursor == -1
Local == -1      \* the contents of a row that only this device has

ASSUME PullConstants ==
  /\ IsFiniteSet(Entity) /\ IsFiniteSet(Scope) /\ Editable \subseteq Entity
  /\ BatchSize \in Nat \ {0}
  /\ FreshGrants \in BOOLEAN
  /\ MaxLog \in Nat /\ MaxGrant \in Nat \ {0} /\ MaxRequested \in Nat

VARIABLES
  srow,     \* server: the rows, with the scopes each is served in
  slog,     \* server: the change log; an index stands for a commit position
  purged,   \* server: the records up to here are no longer retained
  grant,    \* server: per scope the fingerprint for this account; 0 without access
  issued,   \* server: the last fingerprint issued
  saved,    \* client: the durable state
  rows,     \* client: per entity the contents held, or Absent
  members,  \* client: the table syncV3Membership
  guarded,  \* client: the rows with a pending operation or an open conflict
  mem,      \* run: the state in memory
  pc,       \* run: "idle", "scopes", "evict", "pull" or "finish"
  resp,     \* run: the /scopes response being reconciled and the scopes it has evicted
  strays    \* history: the <<entity, scope>> of members added before the scope was saved

server == <<srow, slog, purged, grant, issued>>
run == <<mem, pc, resp>>
local == <<saved, rows, members, guarded, strays>>
vars == <<server, local, run>>

ServerRow == [scopes : (SUBSET Scope) \ {{}}, rev : 0..MaxLog]
Change == [entity : Entity, scopes : SUBSET Scope]
Revision == [Scope -> 0..MaxGrant]
Boot == [todo : SUBSET Entity, fp : 1..MaxGrant]
ScopeState == [fp : 1..MaxGrant, gen : Nat \ {0}, boot : Boot \cup {NoBoot}, evicting : BOOLEAN]
State == [cursor : {NoCursor} \cup 0..MaxLog,
          revision : Revision \cup {NoRevision},
          scopes : [Scope -> ScopeState \cup {Unsaved}]]
Member == [entity : Entity, scope : Scope, gen : Nat \ {0}]
Response == [grant : Revision, head : 0..MaxLog, evicted : SUBSET Scope]

ASSUME PullSentinels ==
  /\ Absent \notin ServerRow \cup Int
  /\ NoState \notin State /\ Unsaved \notin ScopeState /\ NoBoot \notin Boot
  /\ NoRevision \notin Revision /\ Idle \notin Response

-----------------------------------------------------------------------------
Granted == {k \in Scope : grant[k] # 0}
ScopeKeys(e) == IF srow[e] = Absent THEN {} ELSE srow[e].scopes \cap Granted
Newest == Len(slog)

\* The log records a /changes request after cursor c may return.
Records(c) == {i \in (c + 1)..Newest : slog[i].scopes \cap Granted # {}}

EmptyState == [cursor |-> NoCursor, revision |-> NoRevision, scopes |-> [k \in Scope |-> Unsaved]]

\* parseSyncV3State: everything is read back but evictionPending.
Parse(st) ==
  IF st = NoState THEN EmptyState
  ELSE [st EXCEPT !.scopes = [k \in Scope |-> IF @[k] = Unsaved THEN Unsaved
                                               ELSE [@[k] EXCEPT !.evicting = FALSE]]]

InScope(k) == {m \in members : m.scope = k}
Pending == {k \in Scope : mem.scopes[k] # Unsaved /\ mem.scopes[k].boot # NoBoot}
\* Mutant: generations count from zero.
FreshFromZero(fp, gen, old) ==
  [fp |-> old, gen |-> gen - 1, boot |-> [todo |-> Entity, fp |-> fp], evicting |-> FALSE]

Fresh(fp, gen, old) == [fp |-> old, gen |-> gen, boot |-> [todo |-> Entity, fp |-> fp], evicting |-> FALSE]

\* The fingerprint the client has of a scope, or will have after its bootstrap.
Aim(sc) == IF sc.boot = NoBoot THEN sc.fp ELSE sc.boot.fp

\* Mutant: the bootstrap starts again in the same generation.
RebootstrappedSameGeneration(sc) ==
  [sc EXCEPT !.boot = [todo |-> Entity, fp |-> Aim(sc)]]

\* A fresh bootstrap of the next generation towards the fingerprint already aimed at.
Rebootstrapped(sc) ==
  [sc EXCEPT !.gen = @ + 1,
             !.boot = [todo |-> Entity, fp |-> Aim(sc)]]

\* One write unit: the next state is saved and, once committed, adopted.
Unit(next) == mem' = next /\ saved' = next

\* hasSyncV3ProtectedLocalRowInWriter: a row that is lost is not hidden while the
\* outbox still has something to say about it.
Hidden(e, held) == IF e \in guarded THEN held[e] ELSE Absent

StraysIn(left) == {p \in strays : \E m \in left : <<m.entity, m.scope>> = p}

\* Mutant: a row goes with any of its memberships.
KeepSolelyOwned(left, held) ==
  /\ members' = left
  /\ rows' = [e \in Entity |-> IF \E m \in members \ left : m.entity = e THEN Hidden(e, held) ELSE held[e]]

\* Mutant: pending operations do not protect a row.
KeepUnguarded(left, held) ==
  /\ members' = left
  /\ rows' = [e \in Entity |-> IF (\E m \in members : m.entity = e) /\ ~(\E m \in left : m.entity = e)
                               THEN Absent ELSE held[e]]

\* Membership `left` remains; a row whose last membership went is hidden.
Keep(left, held) ==
  /\ members' = left
  /\ rows' = [e \in Entity |-> IF (\E m \in members : m.entity = e) /\ ~(\E m \in left : m.entity = e)
                               THEN Hidden(e, held) ELSE held[e]]

\* dropSyncV3ScopeMembershipInWriter takes one batch of the candidates.
IsBatch(chunk, candidates) ==
  /\ chunk \subseteq candidates
  /\ Cardinality(chunk) = Min({BatchSize, Cardinality(candidates)})
Remaining(chunk) == Cardinality(chunk) = BatchSize

-----------------------------------------------------------------------------
\* A row is written, moved between scopes, or (with no scope) deleted.
ServerWrite(e, scopes) ==
  /\ Newest < MaxLog
  /\ srow[e] # Absent \/ scopes # {}
  /\ srow' = [srow EXCEPT ![e] = IF scopes = {} THEN Absent ELSE [scopes |-> scopes, rev |-> Newest + 1]]
  /\ slog' = Append(slog, [entity |-> e, scopes |-> scopes \cup (IF srow[e] = Absent THEN {} ELSE srow[e].scopes)])
  /\ UNCHANGED <<purged, grant, issued, local, run>>

\* Access to k is given, or its fingerprint (role, access, ACL) changes.
ServerGrant(k) ==
  \E fp \in {issued + 1} \cup (IF FreshGrants \/ grant[k] # 0 THEN {} ELSE {1}) :
    /\ fp <= MaxGrant
    /\ grant' = [grant EXCEPT ![k] = fp]
    /\ issued' = Max({issued, fp})
    /\ UNCHANGED <<srow, slog, purged, local, run>>

ServerRevoke(k) ==
  /\ grant[k] # 0
  /\ grant' = [grant EXCEPT ![k] = 0]
  /\ UNCHANGED <<srow, slog, purged, issued, local, run>>

ServerPurge(i) ==
  /\ purged < i
  /\ purged' = i
  /\ UNCHANGED <<srow, slog, grant, issued, local, run>>

-----------------------------------------------------------------------------
StartRun ==
  /\ pc = "idle"
  /\ mem' = Parse(saved)
  /\ pc' = IF mem'.cursor = NoCursor \/ mem'.revision = NoRevision THEN "scopes" ELSE "pull"
  /\ UNCHANGED <<server, local, resp>>

\* An error, an abort, the page or time budget, or the death of the app.
Interrupt ==
  /\ pc # "idle"
  /\ pc' = "idle" /\ mem' = NoState /\ resp' = Idle
  /\ UNCHANGED <<server, local>>

FetchScopes ==
  /\ pc = "scopes"
  /\ resp' = [grant |-> grant, head |-> Newest, evicted |-> {}]
  /\ pc' = "evict"
  /\ UNCHANGED <<server, local, mem>>

Gone == {k \in Scope : mem.scopes[k] # Unsaved /\ resp.grant[k] = 0}

\* One chunk of a scope that is no longer served, until a chunk is not full.
EvictChunk(k, chunk) ==
  /\ pc = "evict"
  /\ k \in Gone \ resp.evicted
  /\ IsBatch(chunk, InScope(k))
  /\ Keep(members \ chunk, rows)
  /\ strays' = StraysIn(members')
  /\ Unit([mem EXCEPT !.scopes[k].evicting = TRUE])
  /\ resp' = IF Remaining(chunk) THEN resp ELSE [resp EXCEPT !.evicted = @ \cup {k}]
  /\ UNCHANGED <<server, guarded, pc>>

\* What the final unit of reconcileScopes makes of one scope.
Reconciled(k) ==
  LET sc == mem.scopes[k]
      fp == resp.grant[k]
  IN  IF fp = 0 THEN Unsaved
      ELSE IF sc = Unsaved THEN Fresh(fp, 1, fp)
      ELSE IF sc.evicting \/ Aim(sc) # fp THEN Fresh(fp, sc.gen + 1, sc.fp)
      ELSE sc

\* Mutant: every reconciliation moves the cursor to the head.
AdoptScopesAtHead ==
  /\ pc = "evict"
  /\ Gone \subseteq resp.evicted
  /\ Unit([cursor |-> resp.head,
           revision |-> resp.grant,
           scopes |-> [k \in Scope |-> Reconciled(k)]])
  /\ resp' = Idle
  /\ pc' = "pull"
  /\ UNCHANGED <<server, rows, members, guarded, strays>>

AdoptScopes ==
  /\ pc = "evict"
  /\ Gone \subseteq resp.evicted
  /\ Unit([cursor |-> IF mem.cursor = NoCursor THEN resp.head ELSE mem.cursor,
           revision |-> resp.grant,
           scopes |-> [k \in Scope |-> Reconciled(k)]])
  /\ resp' = Idle
  /\ pc' = "pull"
  /\ UNCHANGED <<server, rows, members, guarded, strays>>

\* A bootstrap page of scope k; the one that ends the snapshot also sweeps the
\* first batch of older generations, and the bootstrap ends with the last batch.
BootstrapPage(k, page) ==
  LET sc == mem.scopes[k]
      found == {e \in page : k \in ScopeKeys(e)}
      added == {m \in members : ~(m.scope = k /\ m.entity \in found)}
                 \cup {[entity |-> e, scope |-> k, gen |-> sc.gen] : e \in found}
      held == [e \in Entity |-> IF e \in found THEN srow[e].rev ELSE rows[e]]
      stale == {m \in added : m.scope = k /\ m.gen < sc.gen}
      left == sc.boot.todo \ page
  IN  /\ pc = "pull" /\ k \in Pending
      /\ page \subseteq sc.boot.todo
      /\ sc.boot.todo # {} => page # {} /\ grant[k] # 0
      /\ IF left # {}
         THEN Keep(added, held) /\ Unit([mem EXCEPT !.scopes[k].boot.todo = left])
         ELSE \E chunk \in SUBSET stale :
                /\ IsBatch(chunk, stale)
                /\ Keep(added \ chunk, held)
                /\ Unit([mem EXCEPT !.scopes[k] =
                           IF Remaining(chunk) THEN [sc EXCEPT !.boot.todo = {}]
                           ELSE [sc EXCEPT !.boot = NoBoot, !.fp = sc.boot.fp]])
      /\ strays' = StraysIn(members') \ (found \X {k})
      /\ UNCHANGED <<server, guarded, pc, resp>>

\* Mutant: a scope that disappeared is asked for again.
BootstrapRetries(k) ==
  /\ pc = "pull" /\ k \in Pending
  /\ mem.scopes[k].boot.todo # {} /\ grant[k] = 0
  /\ UNCHANGED vars

\* 404: the scope disappeared between /scopes and /bootstrap.
BootstrapGone(k) ==
  /\ pc = "pull" /\ k \in Pending
  /\ mem.scopes[k].boot.todo # {} /\ grant[k] = 0
  /\ pc' = "scopes"
  /\ UNCHANGED <<server, local, mem, resp>>

\* 410: every scope is bootstrapped again and the head cursor adopted anew.
ExpireCursor ==
  /\ pc = "pull" /\ Pending = {}
  /\ mem.cursor < purged
  /\ Unit([mem EXCEPT !.cursor = NoCursor,
                      !.scopes = [k \in Scope |-> IF @[k] = Unsaved THEN Unsaved ELSE Rebootstrapped(@[k])]])
  /\ pc' = "scopes"
  /\ UNCHANGED <<server, rows, members, guarded, strays, resp>>

GenerationOf(k) == IF mem.scopes[k] = Unsaved THEN 1 ELSE mem.scopes[k].gen

\* A /changes page up to record `last`.  Every row it names is upserted with
\* exactly the scopes it has now, which the client may not know yet, or, without
\* any, deleted with the server's row (op = delete) or hidden (op = hide).
ReadChanges(last) ==
  LET raw == Records(mem.cursor)
      page == {i \in raw : i <= last}
      named == {slog[i].entity : i \in page}
      upserts == UNION {{[entity |-> e, scope |-> k, gen |-> GenerationOf(k)] : k \in ScopeKeys(e)} : e \in named}
  IN  /\ pc = "pull" /\ Pending = {}
      /\ mem.cursor >= purged
      /\ last \in raw \/ (raw = {} /\ last = Newest)
      /\ rows' = [e \in Entity |-> IF e \notin named THEN rows[e]
                                   ELSE IF ScopeKeys(e) # {} THEN srow[e].rev
                                   ELSE IF srow[e] = Absent THEN Absent ELSE Hidden(e, rows)]
      /\ members' = {m \in members : m.entity \notin named} \cup upserts
      /\ strays' = {p \in strays : p[1] \notin named}
                     \cup {<<m.entity, m.scope>> : m \in {u \in upserts : mem.scopes[u.scope] = Unsaved}}
      /\ Unit([mem EXCEPT !.cursor = IF page = raw THEN Newest ELSE last])
      /\ pc' = IF grant # mem.revision THEN "scopes" ELSE IF page = raw THEN "finish" ELSE "pull"
      /\ UNCHANGED <<server, guarded, resp>>

\* The final unit records the success.
Finish ==
  /\ pc = "finish"
  /\ saved' = mem
  /\ pc' = "idle" /\ mem' = NoState
  /\ UNCHANGED <<server, rows, members, guarded, strays, resp>>

\* requestV3ScopeRebootstrap, from the settings screen, in a transaction of its
\* own that reads the durable state; a run may be under way.
RequestRebootstrap(k) ==
  LET st == Parse(saved)
  IN  /\ saved # NoState /\ st.scopes[k] # Unsaved
      /\ st.scopes[k].gen < MaxRequested
      /\ saved' = [st EXCEPT !.scopes[k] = Rebootstrapped(@)]
      /\ UNCHANGED <<server, rows, members, guarded, strays, run>>

-----------------------------------------------------------------------------
\* The outbox.  A row is edited, or created under an identifier nobody has seen,
\* and protected until its last operation is settled: acknowledged (what it wrote
\* is a ServerWrite), or given up.
Edit(e) ==
  /\ e \in Editable \ guarded
  /\ rows[e] # Absent
  /\ guarded' = guarded \cup {e}
  /\ UNCHANGED <<server, saved, rows, members, strays, run>>

Create(e) ==
  /\ e \in Editable
  /\ rows[e] = Absent /\ srow[e] = Absent
  /\ \A i \in 1..Newest : slog[i].entity # e
  /\ rows' = [rows EXCEPT ![e] = Local]
  /\ guarded' = guarded \cup {e}
  /\ UNCHANGED <<server, saved, members, strays, run>>

Settle(e) ==
  /\ e \in guarded
  /\ guarded' = guarded \ {e}
  /\ UNCHANGED <<server, saved, rows, members, strays, run>>

-----------------------------------------------------------------------------
Init ==
  /\ srow \in [Entity -> [scopes : (SUBSET Scope) \ {{}}, rev : {0}] \cup {Absent}]
  /\ slog = <<>> /\ purged = 0
  /\ grant \in [Scope -> 0..1] /\ issued = 1
  /\ saved = NoState
  /\ rows = [e \in Entity |-> Absent] /\ members = {} /\ guarded = {} /\ strays = {}
  /\ mem = NoState /\ pc = "idle" /\ resp = Idle

Server ==
  \/ \E e \in Entity, scopes \in SUBSET Scope : ServerWrite(e, scopes)
  \/ \E k \in Scope : ServerGrant(k) \/ ServerRevoke(k)
  \/ \E i \in 1..Newest : ServerPurge(i)

Evict == \E k \in Scope, chunk \in SUBSET members : EvictChunk(k, chunk)
Bootstrap == \E k \in Scope : BootstrapGone(k) \/ \E page \in SUBSET Entity : BootstrapPage(k, page)
Changes == ExpireCursor \/ \E last \in 0..Newest : ReadChanges(last)
Outbox == \E e \in Entity : Edit(e) \/ Create(e) \/ Settle(e)
Reconcile == FetchScopes \/ Evict \/ AdoptScopes

Next ==
  \/ Server
  \/ StartRun \/ Reconcile \/ Bootstrap \/ Changes \/ Finish \/ Interrupt
  \/ Outbox
  \/ \E k \in Scope : RequestRebootstrap(k)

Spec == Init /\ [][Next]_vars

\* Runs are started again and again, and an interruption does not always come
\* before the same unit.
FairSpec ==
  /\ Spec
  /\ SF_vars(StartRun) /\ SF_vars(FetchScopes) /\ SF_vars(Evict) /\ SF_vars(AdoptScopes)
  /\ SF_vars(Bootstrap) /\ SF_vars(Changes) /\ SF_vars(Finish)

-----------------------------------------------------------------------------
TypeOK ==
  /\ srow \in [Entity -> ServerRow \cup {Absent}]
  /\ slog \in Seq(Change) /\ Newest <= MaxLog
  /\ purged \in 0..Newest
  /\ grant \in Revision /\ issued \in 1..MaxGrant
  /\ saved \in State \cup {NoState}
  /\ rows \in [Entity -> (0..MaxLog) \cup {Local, Absent}]
  /\ members \subseteq Member
  /\ guarded \subseteq Editable
  /\ mem \in State \cup {NoState}
  /\ (mem = NoState) <=> (pc = "idle")
  /\ pc \in {"idle", "scopes", "evict", "pull", "finish"}
  /\ resp \in Response \cup {Idle}
  /\ (resp = Idle) <=> (pc # "evict")
  /\ strays \subseteq Entity \X Scope

\* The saved state still leads to a new reconciliation or a new snapshot.
MustRescope ==
  \/ saved = NoState
  \/ saved.cursor = NoCursor \/ saved.cursor < purged
  \/ saved.revision # grant

\* A record about e is still after the saved cursor.
Recorded(e) == \E i \in Records(saved.cursor) : slog[i].entity = e

Bootstrapping(k) == saved.scopes[k] # Unsaved /\ saved.scopes[k].boot # NoBoot

\* Whatever was interrupted, a served row is held with its contents and its
\* membership unless the saved state still leads to it.
NothingMissed ==
  \A e \in Entity : \A k \in ScopeKeys(e) :
    \/ rows[e] = srow[e].rev /\ \E m \in members : m.entity = e /\ m.scope = k
    \/ MustRescope \/ Recorded(e)
    \/ Bootstrapping(k) /\ e \in saved.scopes[k].boot.todo

Accounted(e) == \E m \in members : m.entity = e

\* A row the account may not see any more is held only while the saved state
\* still leads to its removal (a record, or the sweep of an older generation),
\* when it came with a scope the client had not saved, or when no scope accounts
\* for it (see RowsAccounted).
Removable(e) ==
  \/ MustRescope \/ Recorded(e)
  \/ \E m \in members :
       /\ m.entity = e
       /\ \/ <<e, m.scope>> \in strays
          \/ Bootstrapping(m.scope)
             /\ (m.gen < saved.scopes[m.scope].gen \/ e \in saved.scopes[m.scope].boot.todo)
NothingLeftBehind ==
  \A e \in Entity : rows[e] # Absent => ScopeKeys(e) # {} \/ Removable(e) \/ ~Accounted(e)

\* Rows come and go with their membership.  A row is held exactly while some
\* scope accounts for it, unless it was created here, or lost its last scope while
\* the outbox protected it.  And a row goes for a reason: with something pending in
\* the outbox only when the server has deleted it, and from a scope that still
\* serves it, however often that is fetched again, only when the scope set or the
\* row changed.
InStep(e) == rows[e] # Absent <=> Accounted(e)
Served(e) == \E m \in members : m.entity = e /\ m.scope \in ScopeKeys(e)
RowsAccounted ==
  [][\A e \in Entity :
       /\ InStep(e) /\ ~InStep(e)' => e \in guarded' /\ rows'[e] # Absent
       /\ rows[e] # Absent /\ rows'[e] = Absent =>
            /\ e \in guarded => srow[e] = Absent
            /\ Served(e) => MustRescope \/ Recorded(e)]_vars

\* Nothing is left to fetch, and nothing is marked as half done.
UpToDate ==
  /\ ~MustRescope
  /\ Records(saved.cursor) = {}
  /\ \A k \in Scope : ~Bootstrapping(k) /\ (saved.scopes[k] # Unsaved => ~saved.scopes[k].evicting)

\* Interrupted again and again, the client still gets there.
Converges == []<>UpToDate

\* Between runs, a client that is up to date holds every row it is served, an
\* interrupted eviction included ("On cancellation, remaining membership itself
\* is the resumable position").
HoldsAll ==
  pc = "idle" /\ UpToDate => \A e \in Entity : ScopeKeys(e) # {} => rows[e] = srow[e].rev
=============================================================================
