--------------------------- MODULE SyncPullProofs ---------------------------
(***************************************************************************)
(* Theorems of SyncPull for every set of rows and scopes and every bound.  *)
(***************************************************************************)
EXTENDS SyncPull, FiniteSetTheorems, TLAPS

(* What holds of a state of the client, saved or in memory. *)

Has(st, k) == st.scopes[k] # Unsaved
Booting(st, k) == st.scopes[k].boot # NoBoot
Current(st, k) == Has(st, k) /\ Aim(st.scopes[k]) = grant[k]

\* The revision is what the scopes aim at.
Revised(st) ==
  st.revision # NoRevision =>
    \A k \in Scope : st.revision[k] = IF Has(st, k) THEN Aim(st.scopes[k]) ELSE 0

\* Nothing of it is from the future.
Past(st) == st.cursor <= Newest /\ \A k \in Scope : Has(st, k) => Aim(st.scopes[k]) <= issued

\* No member is of a later generation than its scope; one of a scope without an
\* entry is a stray of the first generation.
Generations(st) ==
  \A m \in members :
    IF Has(st, m.scope) THEN m.gen <= st.scopes[m.scope].gen
    ELSE m.gen = 1 /\ <<m.entity, m.scope>> \in strays

\* Without a cursor every scope is to be fetched from its first row, in a
\* generation of its own.
Anew(st) ==
  st.cursor = NoCursor =>
    /\ \A k \in Scope : Has(st, k) => Booting(st, k) /\ st.scopes[k].boot.todo = Entity
    /\ \A m \in members :
         Has(st, m.scope) => m.gen < st.scopes[m.scope].gen \/ <<m.entity, m.scope>> \in strays

\* A row of a scope whose fingerprint is current is held, in the generation that
\* is being fetched, unless the bootstrap has still to reach it, or its last
\* change is after the cursor.
HeldFor(st, e, k) ==
  \/ Booting(st, k) /\ e \in st.scopes[k].boot.todo
  \/ /\ rows[e] = srow[e].rev
     /\ \E m \in members :
          m.entity = e /\ m.scope = k /\ (Booting(st, k) => m.gen >= st.scopes[k].gen)
Covered(st) ==
  st.cursor # NoCursor =>
    \A e \in Entity : \A k \in ScopeKeys(e) :
      Current(st, k) /\ srow[e].rev <= st.cursor => HeldFor(st, e, k)

\* A member of such a scope that is not served any more is a stray, or a record
\* after the cursor, or the sweep of its generation, will take it away.
RecordOf(c, e, k) == \E i \in 1..Newest : i > c /\ slog[i].entity = e /\ k \in slog[i].scopes
Leaving(st, m) ==
  \/ <<m.entity, m.scope>> \in strays
  \/ RecordOf(st.cursor, m.entity, m.scope)
  \/ Booting(st, m.scope) /\ m.gen < st.scopes[m.scope].gen
Swept(st) ==
  st.cursor # NoCursor =>
    \A m \in members : Current(st, m.scope) /\ m.scope \notin ScopeKeys(m.entity) => Leaving(st, m)

StateInv(st) == Revised(st) /\ Past(st) /\ Generations(st) /\ Anew(st) /\ Covered(st) /\ Swept(st)

(* What holds beside. *)

\* A row's revision is the record of its last change.
Logged ==
  \A e \in Entity : srow[e] # Absent =>
    /\ srow[e].rev <= Newest
    /\ srow[e].rev > 0 => /\ slog[srow[e].rev].entity = e
                          /\ srow[e].scopes \subseteq slog[srow[e].rev].scopes

\* A run works on the cursor and the revision that are saved.
InRun ==
  /\ pc \in {"pull", "finish"} => mem.cursor # NoCursor
  /\ pc # "idle" /\ saved # NoState => mem.cursor = saved.cursor /\ mem.revision = saved.revision
  /\ saved = NoState => members = {} /\ (pc # "idle" => mem = EmptyState)

\* What is being evicted is not served under the fingerprint the client had, and
\* what has been evicted is gone.
Evicting ==
  pc = "evict" =>
    /\ resp.head <= Newest
    /\ \A k \in Scope : resp.grant[k] <= issued
    /\ \A k \in Gone : Aim(mem.scopes[k]) # grant[k]
    /\ \A k \in resp.evicted : InScope(k) = {}

Issued == \A k \in Scope : grant[k] <= issued
Finite == IsFiniteSet(members)

PullInv ==
  /\ saved # NoState => StateInv(saved)
  /\ mem # NoState => StateInv(mem)
  /\ Logged /\ InRun /\ Evicting /\ Issued /\ Finite

-----------------------------------------------------------------------------
(* States and scopes. *)

LEMMA Sentinels ==
  /\ NoState \notin State /\ Unsaved \notin ScopeState /\ NoBoot \notin Boot
  /\ NoRevision \notin Revision /\ Idle \notin Response
  /\ Absent \notin ServerRow /\ Absent \notin Int
BY PullSentinels

LEMMA Bounds == MaxLog \in Nat /\ MaxGrant \in Nat /\ MaxGrant >= 1 /\ BatchSize \in Nat /\ BatchSize >= 1
BY PullConstants

LEMMA MaxOf == ASSUME NEW a \in Int, NEW b \in Int PROVE Max({a, b}) = IF a >= b THEN a ELSE b
<1>1. \E x \in {a, b} : \A y \in {a, b} : x >= y OBVIOUS
<1>2. Max({a, b}) \in {a, b} /\ \A y \in {a, b} : Max({a, b}) >= y BY <1>1 DEF Max
<1> QED BY <1>2

LEMMA MinOf == ASSUME NEW a \in Int, NEW b \in Int PROVE Min({a, b}) = IF a <= b THEN a ELSE b
<1>1. \E x \in {a, b} : \A y \in {a, b} : x =< y OBVIOUS
<1>2. Min({a, b}) \in {a, b} /\ \A y \in {a, b} : Min({a, b}) =< y BY <1>1 DEF Min
<1> QED BY <1>2

\* A batch that is not full is all there was.
LEMMA BatchFacts ==
  ASSUME NEW chunk, NEW candidates, IsFiniteSet(candidates), IsBatch(chunk, candidates)
  PROVE  chunk \subseteq candidates /\ (~Remaining(chunk) => chunk = candidates)
<1>1. chunk \subseteq candidates BY DEF IsBatch
<1>2. ASSUME ~Remaining(chunk) PROVE chunk = candidates
  <2>1. Cardinality(candidates) \in Nat BY FS_CardinalityType
  <2>2. Cardinality(chunk) = Cardinality(candidates)
    BY <1>2, <2>1, Bounds, MinOf DEF IsBatch, Remaining
  <2> QED BY <1>1, <2>2, FS_Subset
<1> QED BY <1>1, <1>2

LEMMA ScopeFields ==
  ASSUME NEW sc \in ScopeState
  PROVE  /\ sc # Unsaved /\ sc.fp \in 1..MaxGrant /\ sc.gen \in Nat /\ sc.gen >= 1
         /\ sc.boot # NoBoot => sc.boot \in Boot /\ sc.boot.todo \subseteq Entity /\ sc.boot.fp \in 1..MaxGrant
         /\ Aim(sc) \in 1..MaxGrant
BY Sentinels DEF ScopeState, Boot, Aim

LEMMA StateFields ==
  ASSUME NEW st \in State
  PROVE  /\ st # NoState /\ st.cursor \in Int /\ st.cursor \in {NoCursor} \cup 0..MaxLog
         /\ st.revision \in Revision \cup {NoRevision}
         /\ \A k \in Scope : Has(st, k) => st.scopes[k] \in ScopeState
BY Sentinels, Bounds DEF State, Has, NoCursor

LEMMA FreshType ==
  ASSUME NEW fp \in 1..MaxGrant, NEW gen \in Nat \ {0}, NEW old \in 1..MaxGrant
  PROVE  /\ Fresh(fp, gen, old) \in ScopeState
         /\ Aim(Fresh(fp, gen, old)) = fp
BY Sentinels DEF Fresh, ScopeState, Boot, Aim

LEMMA RebootstrappedType ==
  ASSUME NEW sc \in ScopeState
  PROVE  /\ Rebootstrapped(sc) \in ScopeState
         /\ Aim(Rebootstrapped(sc)) = Aim(sc)
         /\ Rebootstrapped(sc).gen = sc.gen + 1
         /\ Rebootstrapped(sc).boot # NoBoot /\ Rebootstrapped(sc).boot.todo = Entity
<1> DEFINE again == [todo |-> Entity, fp |-> Aim(sc)]
<1>1. Aim(sc) \in 1..MaxGrant BY ScopeFields
<1>2. again \in Boot /\ again.todo = Entity /\ again.fp = Aim(sc) BY <1>1 DEF Boot
<1>3. again # NoBoot BY <1>2, Sentinels
<1> DEFINE next == [sc EXCEPT !.gen = sc.gen + 1]
<1>4. next \in ScopeState /\ next.gen = sc.gen + 1 BY DEF ScopeState
<1> HIDE DEF again
<1>5. Rebootstrapped(sc) = [next EXCEPT !.boot = again] BY DEF Rebootstrapped, again
<1> HIDE DEF next
<1>7. /\ Rebootstrapped(sc) \in ScopeState /\ Rebootstrapped(sc).gen = sc.gen + 1
      /\ Rebootstrapped(sc).boot = again
  BY <1>2, <1>4, <1>5 DEF ScopeState
<1>6. Aim(Rebootstrapped(sc)) = again.fp BY <1>3, <1>7 DEF Aim
<1> QED BY <1>2, <1>3, <1>7, <1>6

\* Two states that differ in what is being evicted at most.
Alike(a, b) ==
  /\ a.cursor = b.cursor /\ a.revision = b.revision
  /\ \A k \in Scope :
       /\ Has(a, k) <=> Has(b, k)
       /\ Has(a, k) => /\ a.scopes[k].fp = b.scopes[k].fp
                       /\ a.scopes[k].gen = b.scopes[k].gen
                       /\ a.scopes[k].boot = b.scopes[k].boot
                       /\ Aim(a.scopes[k]) = Aim(b.scopes[k])

LEMMA EmptyFacts ==
  /\ EmptyState \in State /\ EmptyState.cursor = NoCursor /\ EmptyState.revision = NoRevision
  /\ \A k \in Scope : ~Has(EmptyState, k)
BY DEF EmptyState, State, Has

LEMMA ParseFacts ==
  ASSUME NEW st \in State
  PROVE  Parse(st) \in State /\ Alike(Parse(st), st)
<1> DEFINE kept(k) == IF st.scopes[k] = Unsaved THEN Unsaved ELSE [st.scopes[k] EXCEPT !.evicting = FALSE]
<1>1. st # NoState BY StateFields
<1>2. Parse(st) = [st EXCEPT !.scopes = [k \in Scope |-> kept(k)]] BY <1>1 DEF Parse
<1>3. \A k \in Scope : kept(k) \in ScopeState \cup {Unsaved}
  BY StateFields DEF Has, ScopeState
<1>4. Parse(st) \in State
  <2>1. [k \in Scope |-> kept(k)] \in [Scope -> ScopeState \cup {Unsaved}] BY <1>3
  <2> HIDE DEF kept
  <2> QED BY <1>2, <2>1 DEF State
<1>5. Parse(st).cursor = st.cursor /\ Parse(st).revision = st.revision
  BY <1>2 DEF State
<1>6. ASSUME NEW k \in Scope PROVE Parse(st).scopes[k] = kept(k)
  <2> HIDE DEF kept
  <2> QED BY <1>2 DEF State
<1>7. ASSUME NEW k \in Scope
      PROVE  /\ Has(Parse(st), k) <=> Has(st, k)
             /\ Has(st, k) => /\ Parse(st).scopes[k].fp = st.scopes[k].fp
                              /\ Parse(st).scopes[k].gen = st.scopes[k].gen
                              /\ Parse(st).scopes[k].boot = st.scopes[k].boot
                              /\ Aim(Parse(st).scopes[k]) = Aim(st.scopes[k])
  <2>1. CASE ~Has(st, k) BY <2>1, <1>6 DEF Has
  <2>2. CASE Has(st, k)
    <3>1. st.scopes[k] \in ScopeState BY <2>2, StateFields
    <3>2. Parse(st).scopes[k] = [st.scopes[k] EXCEPT !.evicting = FALSE] BY <1>6, <2>2 DEF Has
    <3>3. Parse(st).scopes[k] \in ScopeState BY <3>1, <3>2 DEF ScopeState
    <3>4. Parse(st).scopes[k] # Unsaved BY <3>3, Sentinels
    <3> QED BY <2>2, <3>1, <3>2, <3>4 DEF Has, ScopeState, Aim
  <2> QED BY <2>1, <2>2
<1> QED BY <1>4, <1>5, <1>7 DEF Alike

\* One scope of a state is replaced.
Replaced(next, st, k, sc) ==
  /\ next \in State /\ next.cursor = st.cursor /\ next.revision = st.revision
  /\ next.scopes[k] = sc
  /\ \A l \in Scope \ {k} : next.scopes[l] = st.scopes[l]

LEMMA ReplaceScope ==
  ASSUME NEW st \in State, NEW k \in Scope, NEW sc \in ScopeState \cup {Unsaved}
  PROVE  Replaced([st EXCEPT !.scopes[k] = sc], st, k, sc)
<1> DEFINE scopes == [st.scopes EXCEPT ![k] = sc]
<1>1. /\ scopes \in [Scope -> ScopeState \cup {Unsaved}] /\ scopes[k] = sc
      /\ \A l \in Scope \ {k} : scopes[l] = st.scopes[l]
  BY DEF State
<1>2. [st EXCEPT !.scopes[k] = sc] = [st EXCEPT !.scopes = scopes] OBVIOUS
<1> HIDE DEF scopes
<1>3. /\ [st EXCEPT !.scopes = scopes] \in State
      /\ [st EXCEPT !.scopes = scopes].cursor = st.cursor
      /\ [st EXCEPT !.scopes = scopes].revision = st.revision
      /\ [st EXCEPT !.scopes = scopes].scopes = scopes
  BY <1>1 DEF State
<1> QED BY <1>1, <1>2, <1>3 DEF Replaced

-----------------------------------------------------------------------------
(* What a step of a run does, in terms of states and scopes. *)

LEMMA MemState == ASSUME TypeOK, pc # "idle" PROVE mem \in State /\ mem # NoState
BY Sentinels DEF TypeOK

LEMMA RespType == ASSUME TypeOK, pc = "evict" PROVE resp \in Response
BY DEF TypeOK

LEMMA EvictFacts ==
  ASSUME TypeOK, NEW k \in Scope, NEW chunk \in SUBSET members, EvictChunk(k, chunk)
  PROVE  /\ mem \in State /\ Has(mem, k) /\ resp \in Response /\ pc = "evict" /\ resp.grant[k] = 0
         /\ chunk \subseteq InScope(k) /\ Keep(members \ chunk, rows)
         /\ mem' \in State /\ saved' = mem' /\ Alike(mem', mem)
<1>1. pc = "evict" /\ k \in Gone \ resp.evicted /\ saved' = mem' BY DEF EvictChunk, Unit
<1>2. mem \in State /\ resp \in Response BY <1>1, MemState, RespType
<1>3. Has(mem, k) /\ resp.grant[k] = 0 BY <1>1 DEF Gone, Has
<1>4. mem.scopes[k] \in ScopeState BY <1>2, <1>3, StateFields
<1> DEFINE sc == [mem.scopes[k] EXCEPT !.evicting = TRUE]
<1>5. /\ sc \in ScopeState /\ sc.fp = mem.scopes[k].fp /\ sc.gen = mem.scopes[k].gen
      /\ sc.boot = mem.scopes[k].boot
  BY <1>4 DEF ScopeState
<1>7. mem' = [mem EXCEPT !.scopes[k] = sc] BY DEF EvictChunk, Unit
<1> HIDE DEF sc
<1>6. Aim(sc) = Aim(mem.scopes[k]) /\ sc # Unsaved BY <1>5, Sentinels DEF Aim
<1>8. Replaced(mem', mem, k, sc) BY <1>2, <1>5, <1>7, ReplaceScope
<1>9. Alike(mem', mem)
  BY <1>3, <1>5, <1>6, <1>8 DEF Replaced, Alike, Has
<1>10. chunk \subseteq InScope(k) /\ Keep(members \ chunk, rows) BY DEF EvictChunk, IsBatch
<1> QED BY <1>1, <1>2, <1>3, <1>8, <1>9, <1>10 DEF Replaced

LEMMA ReconciledFacts ==
  ASSUME mem \in State, resp \in Response, NEW k \in Scope
  PROVE  /\ Reconciled(k) \in ScopeState \cup {Unsaved}
         /\ resp.grant[k] = 0 => Reconciled(k) = Unsaved
         /\ resp.grant[k] # 0 => Reconciled(k) # Unsaved /\ Aim(Reconciled(k)) = resp.grant[k]
         /\ resp.grant[k] # 0 /\ ~Has(mem, k) =>
              Reconciled(k).gen = 1 /\ Reconciled(k).boot # NoBoot /\ Reconciled(k).boot.todo = Entity
         /\ resp.grant[k] # 0 /\ Has(mem, k) =>
              \/ /\ Reconciled(k).gen = mem.scopes[k].gen + 1
                 /\ Reconciled(k).boot # NoBoot /\ Reconciled(k).boot.todo = Entity
              \/ Reconciled(k) = mem.scopes[k]
<1> DEFINE fp == resp.grant[k]
           sc == mem.scopes[k]
<1>1. fp \in 0..MaxGrant BY DEF Response, Revision
<1>2. ASSUME NEW gen \in Nat \ {0}, NEW old \in 1..MaxGrant, fp # 0
      PROVE  /\ Fresh(fp, gen, old) \in ScopeState /\ Fresh(fp, gen, old) # Unsaved
             /\ Aim(Fresh(fp, gen, old)) = fp /\ Fresh(fp, gen, old).gen = gen
             /\ Fresh(fp, gen, old).boot # NoBoot /\ Fresh(fp, gen, old).boot.todo = Entity
  <2>1. fp \in 1..MaxGrant BY <1>1, <1>2
  <2>2. Fresh(fp, gen, old) \in ScopeState /\ Aim(Fresh(fp, gen, old)) = fp BY <2>1, FreshType
  <2>3. [todo |-> Entity, fp |-> fp] \in Boot BY <2>1 DEF Boot
  <2>4. Fresh(fp, gen, old).boot = [todo |-> Entity, fp |-> fp] /\ Fresh(fp, gen, old).gen = gen
    BY DEF Fresh
  <2> QED BY <2>2, <2>3, <2>4, Sentinels
<1>3. CASE fp = 0 BY <1>3 DEF Reconciled
<1>4. CASE fp # 0 /\ ~Has(mem, k)
  <2>1. Reconciled(k) = Fresh(fp, 1, fp) BY <1>4 DEF Reconciled, Has
  <2>2. fp \in 1..MaxGrant BY <1>1, <1>4
  <2> QED BY <1>2, <1>4, <2>1, <2>2
<1>5. CASE fp # 0 /\ Has(mem, k)
  <2>1. sc \in ScopeState /\ sc # Unsaved BY <1>5, StateFields, Sentinels
  <2>2. sc.gen + 1 \in Nat \ {0} /\ sc.fp \in 1..MaxGrant BY <2>1, ScopeFields
  <2>3. CASE sc.evicting \/ Aim(sc) # fp
    <3>1. Reconciled(k) = Fresh(fp, sc.gen + 1, sc.fp) BY <1>5, <2>1, <2>3 DEF Reconciled
    <3> QED BY <1>2, <1>5, <2>2, <3>1
  <2>4. CASE ~(sc.evicting \/ Aim(sc) # fp)
    <3>1. Reconciled(k) = sc BY <1>5, <2>1, <2>4 DEF Reconciled
    <3> QED BY <1>5, <2>1, <2>4, <3>1
  <2> QED BY <2>3, <2>4
<1> QED BY <1>3, <1>4, <1>5

LEMMA AdoptFacts ==
  ASSUME TypeOK, AdoptScopes
  PROVE  /\ mem \in State /\ resp \in Response /\ pc = "evict" /\ pc' = "pull" /\ Gone \subseteq resp.evicted
         /\ mem' \in State /\ saved' = mem' /\ mem'.revision = resp.grant
         /\ mem'.cursor = IF mem.cursor = NoCursor THEN resp.head ELSE mem.cursor
         /\ \A k \in Scope : mem'.scopes[k] = Reconciled(k)
<1>1. pc = "evict" /\ pc' = "pull" /\ Gone \subseteq resp.evicted /\ saved' = mem' BY DEF AdoptScopes, Unit
<1>2. mem \in State /\ resp \in Response BY <1>1, MemState, RespType
<1>3. mem' = [cursor |-> IF mem.cursor = NoCursor THEN resp.head ELSE mem.cursor,
              revision |-> resp.grant, scopes |-> [k \in Scope |-> Reconciled(k)]]
  BY DEF AdoptScopes, Unit
<1>4. [k \in Scope |-> Reconciled(k)] \in [Scope -> ScopeState \cup {Unsaved}]
  BY <1>2, ReconciledFacts
<1>5. /\ resp.grant \in Revision
      /\ (IF mem.cursor = NoCursor THEN resp.head ELSE mem.cursor) \in {NoCursor} \cup 0..MaxLog
  BY <1>2 DEF Response, State
<1>6. mem' \in State BY <1>3, <1>4, <1>5 DEF State
<1> QED BY <1>1, <1>2, <1>3, <1>6

\* The parts of a bootstrap page.
Found(k, page) == {e \in page : k \in ScopeKeys(e)}
Added(k, page) ==
  {m \in members : ~(m.scope = k /\ m.entity \in Found(k, page))}
    \cup {[entity |-> e, scope |-> k, gen |-> mem.scopes[k].gen] : e \in Found(k, page)}
HeldRows(k, page) == [e \in Entity |-> IF e \in Found(k, page) THEN srow[e].rev ELSE rows[e]]
Stale(k, page) == {m \in Added(k, page) : m.scope = k /\ m.gen < mem.scopes[k].gen}

LEMMA PageParts ==
  ASSUME NEW k \in Scope, NEW page \in SUBSET Entity, BootstrapPage(k, page)
  PROVE  /\ pc = "pull" /\ pc' = pc /\ k \in Pending /\ page \subseteq mem.scopes[k].boot.todo /\ saved' = mem'
         /\ strays' = StraysIn(members') \ (Found(k, page) \X {k})
         /\ IF mem.scopes[k].boot.todo \ page # {}
            THEN /\ Keep(Added(k, page), HeldRows(k, page))
                 /\ mem' = [mem EXCEPT !.scopes[k].boot.todo = mem.scopes[k].boot.todo \ page]
            ELSE \E chunk \in SUBSET Stale(k, page) :
                   /\ IsBatch(chunk, Stale(k, page))
                   /\ Keep(Added(k, page) \ chunk, HeldRows(k, page))
                   /\ mem' = [mem EXCEPT !.scopes[k] =
                                IF Remaining(chunk) THEN [mem.scopes[k] EXCEPT !.boot.todo = {}]
                                ELSE [mem.scopes[k] EXCEPT !.boot = NoBoot, !.fp = mem.scopes[k].boot.fp]]
<1> DEFINE sc == mem.scopes[k]
           left == sc.boot.todo \ page
<1>1. /\ pc = "pull" /\ pc' = pc /\ k \in Pending /\ page \subseteq sc.boot.todo
      /\ strays' = StraysIn(members') \ (Found(k, page) \X {k})
  BY DEF BootstrapPage, Found
<1>2. IF left # {}
      THEN Keep(Added(k, page), HeldRows(k, page)) /\ Unit([mem EXCEPT !.scopes[k].boot.todo = left])
      ELSE \E chunk \in SUBSET Stale(k, page) :
             /\ IsBatch(chunk, Stale(k, page))
             /\ Keep(Added(k, page) \ chunk, HeldRows(k, page))
             /\ Unit([mem EXCEPT !.scopes[k] =
                        IF Remaining(chunk) THEN [sc EXCEPT !.boot.todo = {}]
                        ELSE [sc EXCEPT !.boot = NoBoot, !.fp = sc.boot.fp]])
  BY Zenon DEF BootstrapPage, Found, Added, HeldRows, Stale
<1>3. CASE left # {} BY <1>1, <1>2, <1>3, Zenon DEF Unit
<1>4. CASE left = {}
  <2>1. PICK chunk \in SUBSET Stale(k, page) :
             /\ IsBatch(chunk, Stale(k, page))
             /\ Keep(Added(k, page) \ chunk, HeldRows(k, page))
             /\ Unit([mem EXCEPT !.scopes[k] =
                        IF Remaining(chunk) THEN [sc EXCEPT !.boot.todo = {}]
                        ELSE [sc EXCEPT !.boot = NoBoot, !.fp = sc.boot.fp]])
    BY <1>2, <1>4
  <2>2. mem' = [mem EXCEPT !.scopes[k] =
                        IF Remaining(chunk) THEN [sc EXCEPT !.boot.todo = {}]
                        ELSE [sc EXCEPT !.boot = NoBoot, !.fp = sc.boot.fp]]
        /\ saved' = mem'
    BY <2>1, Zenon DEF Unit
  <2> QED BY <1>1, <1>4, <2>1, <2>2, Zenon
<1> QED BY <1>3, <1>4

\* The bootstrap position moves, or the bootstrap is over.
LEMMA TodoType ==
  ASSUME NEW sc \in ScopeState, sc.boot # NoBoot, NEW left \in SUBSET Entity
  PROVE  LET next == [sc EXCEPT !.boot.todo = left]
         IN  /\ next \in ScopeState /\ next.gen = sc.gen /\ Aim(next) = Aim(sc)
             /\ next.boot # NoBoot /\ next.boot.todo = left
<1> DEFINE boot == [sc.boot EXCEPT !.todo = left]
           next == [sc EXCEPT !.boot = boot]
<1>1. sc.boot \in Boot BY ScopeFields
<1>2. boot \in Boot /\ boot.todo = left /\ boot.fp = sc.boot.fp BY <1>1 DEF Boot
<1>3. [sc EXCEPT !.boot.todo = left] = next OBVIOUS
<1> HIDE DEF boot
<1>4. next \in ScopeState /\ next.gen = sc.gen /\ next.boot = boot BY <1>2 DEF ScopeState
<1>5. boot # NoBoot BY <1>2, Sentinels
<1> HIDE DEF next
<1>6. Aim(next) = Aim(sc) BY <1>2, <1>4, <1>5 DEF Aim
<1> QED BY <1>2, <1>3, <1>4, <1>5, <1>6

LEMMA BootedType ==
  ASSUME NEW sc \in ScopeState, sc.boot # NoBoot
  PROVE  LET next == [sc EXCEPT !.boot = NoBoot, !.fp = sc.boot.fp]
         IN  next \in ScopeState /\ next.gen = sc.gen /\ Aim(next) = Aim(sc) /\ next.boot = NoBoot
<1> DEFINE once == [sc EXCEPT !.boot = NoBoot]
           next == [once EXCEPT !.fp = sc.boot.fp]
<1>1. sc.boot.fp \in 1..MaxGrant BY ScopeFields
<1>2. once \in ScopeState /\ once.gen = sc.gen /\ once.boot = NoBoot BY DEF ScopeState
<1>3. [sc EXCEPT !.boot = NoBoot, !.fp = sc.boot.fp] = next OBVIOUS
<1> HIDE DEF once
<1>4. next \in ScopeState /\ next.gen = sc.gen /\ next.boot = NoBoot /\ next.fp = sc.boot.fp
  BY <1>1, <1>2 DEF ScopeState
<1> HIDE DEF next
<1>5. Aim(next) = Aim(sc) BY <1>4 DEF Aim
<1> QED BY <1>3, <1>4, <1>5

\* What a page does to the state, and to the tables.
Paged(k, page) ==
  /\ mem' \in State /\ saved' = mem' /\ mem'.cursor = mem.cursor /\ mem'.revision = mem.revision
  /\ \A l \in Scope \ {k} : mem'.scopes[l] = mem.scopes[l]
  /\ Has(mem', k) /\ mem'.scopes[k].gen = mem.scopes[k].gen
  /\ Aim(mem'.scopes[k]) = Aim(mem.scopes[k])
  /\ \E chunk \in SUBSET Stale(k, page) :
       /\ Keep(Added(k, page) \ chunk, HeldRows(k, page))
       /\ chunk # {} => mem.scopes[k].boot.todo \ page = {}
       /\ \/ Booting(mem', k) /\ mem'.scopes[k].boot.todo = mem.scopes[k].boot.todo \ page
          \/ /\ ~Booting(mem', k) /\ mem.scopes[k].boot.todo \ page = {}
             /\ IsFiniteSet(Stale(k, page)) => chunk = Stale(k, page)

LEMMA PageFacts ==
  ASSUME TypeOK, NEW k \in Scope, NEW page \in SUBSET Entity, BootstrapPage(k, page)
  PROVE  /\ mem \in State /\ pc = "pull" /\ pc' = pc /\ Has(mem, k) /\ Booting(mem, k)
         /\ page \subseteq mem.scopes[k].boot.todo /\ mem.scopes[k].boot.todo \subseteq Entity
         /\ strays' = StraysIn(members') \ (Found(k, page) \X {k})
         /\ Paged(k, page)
<1> DEFINE sc == mem.scopes[k]
           left == sc.boot.todo \ page
<1>1. pc = "pull" /\ pc' = pc /\ k \in Pending /\ page \subseteq sc.boot.todo /\ saved' = mem'
  BY PageParts
<1>2. mem \in State /\ Has(mem, k) /\ Booting(mem, k) BY <1>1, MemState DEF Pending, Has, Booting
<1>3. sc \in ScopeState /\ sc.boot # NoBoot /\ sc.boot.todo \subseteq Entity /\ sc # Unsaved
  BY <1>2, StateFields, ScopeFields DEF Booting
<1>4. ASSUME NEW next \in ScopeState, mem' = [mem EXCEPT !.scopes[k] = next],
             next.gen = sc.gen, Aim(next) = Aim(sc)
      PROVE  /\ mem' \in State /\ mem'.cursor = mem.cursor /\ mem'.revision = mem.revision
             /\ \A l \in Scope \ {k} : mem'.scopes[l] = mem.scopes[l]
             /\ Has(mem', k) /\ mem'.scopes[k] = next
  <2>1. Replaced(mem', mem, k, next) BY <1>2, <1>4, ReplaceScope
  <2>2. next # Unsaved BY <1>4, ScopeFields
  <2> QED BY <2>1, <2>2 DEF Replaced, Has
<1>5. CASE left # {}
  <2> DEFINE next == [sc EXCEPT !.boot.todo = left]
  <2>1. /\ next \in ScopeState /\ next.gen = sc.gen /\ Aim(next) = Aim(sc)
        /\ next.boot # NoBoot /\ next.boot.todo = left
    BY <1>3, TodoType
  <2>2. Keep(Added(k, page), HeldRows(k, page)) BY <1>5, PageParts
  <2>3. mem' = [mem EXCEPT !.scopes[k].boot.todo = left] BY <1>5, PageParts
  <2>4. mem' = [mem EXCEPT !.scopes[k] = next] BY <2>3
  <2> HIDE DEF next, left, sc
  <2>5. /\ mem' \in State /\ mem'.cursor = mem.cursor /\ mem'.revision = mem.revision
        /\ \A l \in Scope \ {k} : mem'.scopes[l] = mem.scopes[l]
        /\ Has(mem', k) /\ mem'.scopes[k] = next
    BY <1>4, <2>1, <2>4
  <2>6. Added(k, page) \ {} = Added(k, page) OBVIOUS
  <2>7. Booting(mem', k) /\ mem'.scopes[k].boot.todo = sc.boot.todo \ page
    BY <2>1, <2>5 DEF Booting, left
  <2>8. Keep(Added(k, page) \ {}, HeldRows(k, page)) BY <2>2, <2>6
  <2>9. Paged(k, page)
    <3>1. {} \in SUBSET Stale(k, page) OBVIOUS
    <3> QED BY <1>1, <2>1, <2>5, <2>7, <2>8, <3>1 DEF Paged, sc
  <2> QED BY <1>1, <1>2, <1>3, <2>9, PageParts DEF sc
<1>6. CASE left = {}
  <2>1. PICK chunk \in SUBSET Stale(k, page) :
          /\ IsBatch(chunk, Stale(k, page))
          /\ Keep(Added(k, page) \ chunk, HeldRows(k, page))
          /\ mem' = [mem EXCEPT !.scopes[k] =
                       IF Remaining(chunk) THEN [sc EXCEPT !.boot.todo = {}]
                       ELSE [sc EXCEPT !.boot = NoBoot, !.fp = sc.boot.fp]]
    BY <1>6, PageParts
  <2>2. CASE Remaining(chunk)
    <3> DEFINE next == [sc EXCEPT !.boot.todo = {}]
    <3>1. /\ next \in ScopeState /\ next.gen = sc.gen /\ Aim(next) = Aim(sc)
          /\ next.boot # NoBoot /\ next.boot.todo = {}
      BY <1>3, TodoType
    <3>2. mem' = [mem EXCEPT !.scopes[k] = next] BY <2>1, <2>2
    <3> HIDE DEF next, sc
    <3>3. /\ mem' \in State /\ mem'.cursor = mem.cursor /\ mem'.revision = mem.revision
          /\ \A l \in Scope \ {k} : mem'.scopes[l] = mem.scopes[l]
          /\ Has(mem', k) /\ mem'.scopes[k] = next
      BY <1>4, <3>1, <3>2
    <3>4. Booting(mem', k) /\ mem'.scopes[k].boot.todo = left BY <1>6, <3>1, <3>3 DEF Booting
    <3>5. Paged(k, page)
      BY <1>1, <1>6, <2>1, <3>1, <3>3, <3>4 DEF Paged, sc
    <3> QED BY <1>1, <1>2, <1>3, <3>5, PageParts DEF sc
  <2>3. CASE ~Remaining(chunk)
    <3> DEFINE next == [sc EXCEPT !.boot = NoBoot, !.fp = sc.boot.fp]
    <3>1. next \in ScopeState /\ next.gen = sc.gen /\ Aim(next) = Aim(sc) /\ next.boot = NoBoot
      BY <1>3, BootedType
    <3>2. mem' = [mem EXCEPT !.scopes[k] = next] BY <2>1, <2>3
    <3> HIDE DEF next, sc
    <3>3. /\ mem' \in State /\ mem'.cursor = mem.cursor /\ mem'.revision = mem.revision
          /\ \A l \in Scope \ {k} : mem'.scopes[l] = mem.scopes[l]
          /\ Has(mem', k) /\ mem'.scopes[k] = next
      BY <1>4, <3>1, <3>2
    <3>4. ~Booting(mem', k) BY <3>1, <3>3 DEF Booting
    <3>5. IsFiniteSet(Stale(k, page)) => chunk = Stale(k, page) BY <2>1, <2>3, BatchFacts
    <3>6. Paged(k, page)
      BY <1>1, <1>6, <2>1, <3>1, <3>3, <3>4, <3>5 DEF Paged, sc
    <3> QED BY <1>1, <1>2, <1>3, <3>6, PageParts DEF sc
  <2> QED BY <2>2, <2>3
<1> QED BY <1>5, <1>6

LEMMA ExpireFacts ==
  ASSUME TypeOK, ExpireCursor
  PROVE  /\ mem \in State /\ mem' \in State /\ saved' = mem' /\ pc = "pull" /\ pc' = "scopes"
         /\ mem'.cursor = NoCursor /\ mem'.revision = mem.revision
         /\ \A k \in Scope : /\ Has(mem', k) <=> Has(mem, k)
                             /\ Has(mem, k) => mem'.scopes[k] = Rebootstrapped(mem.scopes[k])
<1> DEFINE again(k) == IF mem.scopes[k] = Unsaved THEN Unsaved ELSE Rebootstrapped(mem.scopes[k])
           scopes == [k \in Scope |-> again(k)]
           once == [mem EXCEPT !.cursor = NoCursor]
<1>1. mem \in State BY MemState DEF ExpireCursor
<1>2. \A k \in Scope : again(k) \in ScopeState \cup {Unsaved} /\ (again(k) # Unsaved <=> Has(mem, k))
  BY <1>1, StateFields, RebootstrappedType, ScopeFields DEF Has
<1>3. scopes \in [Scope -> ScopeState \cup {Unsaved}] /\ \A k \in Scope : scopes[k] = again(k)
  <2> HIDE DEF again
  <2> QED BY <1>2
<1>4. once \in State /\ once.cursor = NoCursor /\ once.revision = mem.revision BY <1>1 DEF State
<1>5. mem' = [once EXCEPT !.scopes = scopes] BY DEF ExpireCursor, Unit
<1> HIDE DEF scopes, once
<1>6. /\ mem' \in State /\ mem'.cursor = NoCursor /\ mem'.revision = mem.revision
      /\ mem'.scopes = scopes
  BY <1>3, <1>4, <1>5 DEF State
<1>7. ASSUME NEW k \in Scope
      PROVE  /\ Has(mem', k) <=> Has(mem, k)
             /\ Has(mem, k) => mem'.scopes[k] = Rebootstrapped(mem.scopes[k])
  BY <1>2, <1>3, <1>6 DEF Has
<1> QED BY <1>1, <1>6, <1>7 DEF ExpireCursor, Unit

\* The parts of a /changes page.
Named(last) == {slog[i].entity : i \in {j \in Records(mem.cursor) : j <= last}}
Upserts(last) ==
  UNION {{[entity |-> e, scope |-> k, gen |-> GenerationOf(k)] : k \in ScopeKeys(e)} : e \in Named(last)}
Done(last) == {j \in Records(mem.cursor) : j <= last} = Records(mem.cursor)

LEMMA ReadFacts ==
  ASSUME TypeOK, NEW last \in 0..Newest, ReadChanges(last)
  PROVE  /\ mem \in State /\ mem' \in State /\ saved' = mem' /\ pc = "pull" /\ Pending = {}
         /\ mem'.cursor = (IF Done(last) THEN Newest ELSE last)
         /\ mem'.revision = mem.revision /\ mem'.scopes = mem.scopes
         /\ last \in Records(mem.cursor) \/ (Records(mem.cursor) = {} /\ last = Newest)
         /\ pc' \in {"scopes", "finish", "pull"}
         /\ rows' = [e \in Entity |-> IF e \notin Named(last) THEN rows[e]
                                      ELSE IF ScopeKeys(e) # {} THEN srow[e].rev
                                      ELSE IF srow[e] = Absent THEN Absent ELSE Hidden(e, rows)]
         /\ members' = {m \in members : m.entity \notin Named(last)} \cup Upserts(last)
         /\ strays' = {p \in strays : p[1] \notin Named(last)}
                        \cup {<<m.entity, m.scope>> : m \in {u \in Upserts(last) : mem.scopes[u.scope] = Unsaved}}
<1> DEFINE c == IF Done(last) THEN Newest ELSE last
<1>1. mem \in State BY MemState DEF ReadChanges
<1>2. /\ pc = "pull" /\ Pending = {}
      /\ last \in Records(mem.cursor) \/ (Records(mem.cursor) = {} /\ last = Newest)
  BY DEF ReadChanges
<1>3. /\ mem' = [mem EXCEPT !.cursor = c] /\ saved' = mem' /\ pc' \in {"scopes", "finish", "pull"}
  BY DEF ReadChanges, Done, Unit
<1>4. /\ rows' = [e \in Entity |-> IF e \notin Named(last) THEN rows[e]
                                   ELSE IF ScopeKeys(e) # {} THEN srow[e].rev
                                   ELSE IF srow[e] = Absent THEN Absent ELSE Hidden(e, rows)]
      /\ members' = {m \in members : m.entity \notin Named(last)} \cup Upserts(last)
      /\ strays' = {p \in strays : p[1] \notin Named(last)}
                     \cup {<<m.entity, m.scope>> : m \in {u \in Upserts(last) : mem.scopes[u.scope] = Unsaved}}
  BY Zenon DEF ReadChanges, Named, Upserts
<1>5. c \in 0..MaxLog
  <2>1. Newest \in Nat /\ Newest <= MaxLog BY DEF TypeOK, Newest
  <2> QED BY <2>1, Bounds
<1> HIDE DEF c
<1>6. mem' \in State /\ mem'.cursor = c /\ mem'.revision = mem.revision /\ mem'.scopes = mem.scopes
  BY <1>1, <1>3, <1>5 DEF State
<1> QED BY <1>1, <1>2, <1>3, <1>4, <1>6 DEF c

LEMMA StartFacts ==
  ASSUME TypeOK, StartRun
  PROVE  /\ mem' \in State /\ mem' # NoState
         /\ saved = NoState => mem' = EmptyState
         /\ saved # NoState => saved \in State /\ Alike(mem', saved)
         /\ pc' = IF mem'.cursor = NoCursor \/ mem'.revision = NoRevision THEN "scopes" ELSE "pull"
<1>1. CASE saved = NoState BY <1>1, EmptyFacts, Sentinels DEF StartRun, Parse
<1>2. CASE saved # NoState
  <2>1. saved \in State BY <1>2 DEF TypeOK
  <2> QED BY <1>2, <2>1, ParseFacts, Sentinels DEF StartRun
<1> QED BY <1>1, <1>2

LEMMA RequestFacts ==
  ASSUME TypeOK, NEW k \in Scope, RequestRebootstrap(k)
  PROVE  /\ saved \in State /\ saved' \in State /\ Has(saved, k)
         /\ saved'.cursor = saved.cursor /\ saved'.revision = saved.revision
         /\ \A l \in Scope :
              /\ Has(saved', l) <=> Has(saved, l)
              /\ Has(saved, l) => Aim(saved'.scopes[l]) = Aim(saved.scopes[l])
              /\ Has(saved, l) /\ l # k =>
                   saved'.scopes[l].gen = saved.scopes[l].gen /\ saved'.scopes[l].boot = saved.scopes[l].boot
         /\ saved'.scopes[k].gen = saved.scopes[k].gen + 1
         /\ Booting(saved', k) /\ saved'.scopes[k].boot.todo = Entity
<1> DEFINE st == Parse(saved)
           sc == Rebootstrapped(st.scopes[k])
<1>1. saved \in State BY DEF RequestRebootstrap, TypeOK
<1>2. st \in State /\ Alike(st, saved) BY <1>1, ParseFacts
<1>3. Has(st, k) /\ saved' = [st EXCEPT !.scopes[k] = sc] BY DEF RequestRebootstrap, Has
<1> HIDE DEF st
<1>4. st.scopes[k] \in ScopeState BY <1>2, <1>3, StateFields
<1>5. /\ sc \in ScopeState /\ sc # Unsaved /\ sc.gen = st.scopes[k].gen + 1 /\ Aim(sc) = Aim(st.scopes[k])
      /\ sc.boot # NoBoot /\ sc.boot.todo = Entity
  BY <1>4, RebootstrappedType, ScopeFields
<1> HIDE DEF sc
<1>6. Replaced(saved', st, k, sc) BY <1>2, <1>3, <1>5, ReplaceScope
<1>7. ASSUME NEW l \in Scope, l # k
      PROVE  /\ Has(saved', l) <=> Has(saved, l)
             /\ Has(saved, l) => /\ Aim(saved'.scopes[l]) = Aim(saved.scopes[l])
                                 /\ saved'.scopes[l].gen = saved.scopes[l].gen
                                 /\ saved'.scopes[l].boot = saved.scopes[l].boot
  BY <1>2, <1>6, <1>7 DEF Replaced, Alike, Has
<1>8. /\ Has(saved, k) /\ Has(saved', k) /\ Aim(saved'.scopes[k]) = Aim(saved.scopes[k])
      /\ saved'.scopes[k].gen = saved.scopes[k].gen + 1
      /\ Booting(saved', k) /\ saved'.scopes[k].boot.todo = Entity
  BY <1>2, <1>3, <1>5, <1>6 DEF Replaced, Alike, Has, Booting
<1> QED BY <1>1, <1>2, <1>6, <1>7, <1>8 DEF Replaced, Alike

-----------------------------------------------------------------------------
(* Types. *)

Contents == (0..MaxLog) \cup {Local, Absent}

LEMMA RowFields ==
  ASSUME TypeOK, NEW e \in Entity, srow[e] # Absent
  PROVE  srow[e].rev \in 0..MaxLog /\ srow[e].rev \in Nat /\ srow[e].scopes \subseteq Scope
BY Bounds DEF TypeOK, ServerRow

LEMMA ServedRow ==
  ASSUME NEW e \in Entity, NEW k \in ScopeKeys(e)
  PROVE  srow[e] # Absent /\ k \in srow[e].scopes /\ k \in Scope /\ grant[k] # 0
BY DEF ScopeKeys, Granted

LEMMA KeepType ==
  ASSUME TypeOK, NEW left \in SUBSET Member, NEW held \in [Entity -> Contents], Keep(left, held)
  PROVE  members' \in SUBSET Member /\ rows' \in [Entity -> Contents]
BY Sentinels DEF Keep, Hidden, Contents

LEMMA ServerType ==
  ASSUME TypeOK, Server
  PROVE  TypeOK'
<1> USE Bounds
<1>1. ASSUME NEW e \in Entity, NEW scopes \in SUBSET Scope, ServerWrite(e, scopes) PROVE TypeOK'
  <2> DEFINE record == [entity |-> e, scopes |-> scopes \cup (IF srow[e] = Absent THEN {} ELSE srow[e].scopes)]
             row == IF scopes = {} THEN Absent ELSE [scopes |-> scopes, rev |-> Newest + 1]
  <2>1. Newest \in Nat /\ Newest < MaxLog /\ slog \in Seq(Change) BY <1>1 DEF ServerWrite, TypeOK, Newest
  <2>2. record \in Change BY RowFields DEF Change
  <2>3. row \in ServerRow \cup {Absent} BY <2>1 DEF ServerRow
  <2>4. slog' = Append(slog, record) /\ srow' = [srow EXCEPT ![e] = row] BY <1>1 DEF ServerWrite
  <2> HIDE DEF record, row
  <2>5. slog' \in Seq(Change) /\ Len(slog') = Len(slog) + 1 BY <2>1, <2>2, <2>4
  <2>6. Newest' = Newest + 1 BY <2>5 DEF Newest
  <2>7. srow' \in [Entity -> ServerRow \cup {Absent}] BY <2>3, <2>4 DEF TypeOK
  <2>8. purged' \in 0..Newest' /\ Newest' <= MaxLog BY <1>1, <2>1, <2>6 DEF ServerWrite, TypeOK
  <2> QED BY <1>1, <2>5, <2>7, <2>8 DEF ServerWrite, TypeOK, local, run
<1>2. ASSUME NEW k \in Scope, ServerGrant(k) PROVE TypeOK'
  <2>1. PICK fp \in {issued + 1} \cup (IF FreshGrants \/ grant[k] # 0 THEN {} ELSE {1}) :
          fp <= MaxGrant /\ grant' = [grant EXCEPT ![k] = fp] /\ issued' = Max({issued, fp})
    BY <1>2 DEF ServerGrant
  <2>2. issued \in 1..MaxGrant /\ fp \in 1..MaxGrant BY <2>1 DEF TypeOK
  <2>3. issued' \in 1..MaxGrant BY <2>1, <2>2, MaxOf
  <2>4. grant' \in Revision BY <2>1, <2>2 DEF TypeOK, Revision
  <2>5. slog' = slog /\ Newest' = Newest BY <1>2 DEF ServerGrant, Newest
  <2> QED BY <1>2, <2>3, <2>4, <2>5 DEF ServerGrant, TypeOK, local, run
<1>3. ASSUME NEW k \in Scope, ServerRevoke(k) PROVE TypeOK'
  <2>1. grant' \in Revision BY <1>3 DEF ServerRevoke, TypeOK, Revision
  <2>2. slog' = slog /\ Newest' = Newest BY <1>3 DEF ServerRevoke, Newest
  <2> QED BY <1>3, <2>1, <2>2 DEF ServerRevoke, TypeOK, local, run
<1>4. ASSUME NEW i \in 1..Newest, ServerPurge(i) PROVE TypeOK'
  <2>1. slog' = slog /\ Newest' = Newest /\ Newest \in Nat BY <1>4 DEF ServerPurge, Newest, TypeOK
  <2>2. purged' \in 0..Newest BY <1>4, <2>1 DEF ServerPurge
  <2> QED BY <1>4, <2>1, <2>2 DEF ServerPurge, TypeOK, local, run
<1> QED BY <1>1, <1>2, <1>3, <1>4 DEF Server

LEMMA SameServer == ASSUME UNCHANGED server PROVE Newest' = Newest
BY DEF server, Newest

LEMMA OutboxType == ASSUME TypeOK, Outbox PROVE TypeOK'
<1>1. PICK e \in Entity : Edit(e) \/ Create(e) \/ Settle(e) BY DEF Outbox
<1>2. UNCHANGED server BY <1>1 DEF Edit, Create, Settle
<1>3. guarded' \subseteq Editable BY <1>1 DEF Edit, Create, Settle, TypeOK
<1>4. rows' \in [Entity -> Contents] BY <1>1 DEF Edit, Create, Settle, TypeOK, Contents
<1>5. UNCHANGED <<saved, members, strays, run>> BY <1>1 DEF Edit, Create, Settle
<1> QED BY <1>2, <1>3, <1>4, <1>5, SameServer DEF TypeOK, Contents, server, run

LEMMA RequestType == ASSUME TypeOK, NEW k \in Scope, RequestRebootstrap(k) PROVE TypeOK'
<1>1. UNCHANGED <<server, rows, members, guarded, strays, run>> BY DEF RequestRebootstrap
<1>2. saved' \in State BY RequestFacts
<1> QED BY <1>1, <1>2, SameServer DEF TypeOK, server, run

LEMMA AdoptType == ASSUME TypeOK, AdoptScopes PROVE TypeOK'
<1>1. /\ mem' \in State /\ saved' = mem' /\ pc' = "pull" /\ resp' = Idle
      /\ UNCHANGED <<server, rows, members, guarded, strays>>
  BY AdoptFacts DEF AdoptScopes
<1> QED BY <1>1, SameServer, Sentinels DEF TypeOK, server

LEMMA ReconcileType == ASSUME TypeOK, Reconcile PROVE TypeOK'
<1>1. CASE FetchScopes
  <2>1. /\ pc = "scopes" /\ pc' = "evict" /\ resp' = [grant |-> grant, head |-> Newest, evicted |-> {}]
        /\ UNCHANGED <<server, local, mem>>
    BY <1>1 DEF FetchScopes
  <2>2. Newest \in 0..MaxLog BY DEF TypeOK, Newest
  <2>3. resp' \in Response /\ resp' # Idle BY <2>1, <2>2, Sentinels DEF Response, TypeOK
  <2> QED BY <2>1, <2>3, SameServer DEF TypeOK, server, local
<1>2. CASE Evict
  <2>1. PICK k \in Scope, chunk \in SUBSET members : EvictChunk(k, chunk) BY <1>2 DEF Evict
  <2>2. /\ resp \in Response /\ pc = "evict" /\ Keep(members \ chunk, rows)
        /\ mem' \in State /\ saved' = mem'
    BY <2>1, EvictFacts
  <2>3. members' \in SUBSET Member /\ rows' \in [Entity -> Contents]
    BY <2>2, KeepType DEF TypeOK, Contents
  <2>4. resp' \in Response
    <3>1. resp' = resp \/ resp' = [resp EXCEPT !.evicted = @ \cup {k}] BY <2>1 DEF EvictChunk
    <3>2. [resp EXCEPT !.evicted = @ \cup {k}] \in Response BY <2>2 DEF Response
    <3> QED BY <2>2, <3>1, <3>2
  <2>5. strays' \subseteq Entity \X Scope BY <2>1 DEF EvictChunk, StraysIn, TypeOK
  <2>6. UNCHANGED <<server, guarded, pc>> BY <2>1 DEF EvictChunk
  <2> QED BY <2>2, <2>3, <2>4, <2>5, <2>6, SameServer, Sentinels DEF TypeOK, Contents, server
<1>3. CASE AdoptScopes BY <1>3, AdoptType
<1> QED BY <1>1, <1>2, <1>3 DEF Reconcile

LEMMA AddedType ==
  ASSUME TypeOK, NEW k \in Scope, NEW page \in SUBSET Entity, mem \in State, Has(mem, k)
  PROVE  Added(k, page) \subseteq Member /\ HeldRows(k, page) \in [Entity -> Contents]
<1>1. mem.scopes[k].gen \in Nat \ {0} BY StateFields, ScopeFields
<1>2. Found(k, page) \subseteq Entity BY DEF Found
<1>3. \A e \in Found(k, page) : srow[e].rev \in 0..MaxLog
  BY <1>2, RowFields, ServedRow DEF Found
<1>4. {[entity |-> e, scope |-> k, gen |-> mem.scopes[k].gen] : e \in Found(k, page)} \subseteq Member
  BY <1>1, <1>2 DEF Member
<1> QED BY <1>3, <1>4 DEF Added, HeldRows, TypeOK, Contents

LEMMA BootstrapType == ASSUME TypeOK, Bootstrap PROVE TypeOK'
<1>1. ASSUME NEW k \in Scope, BootstrapGone(k) PROVE TypeOK'
  <2>1. pc = "pull" /\ pc' = "scopes" /\ UNCHANGED <<server, local, mem, resp>> BY <1>1 DEF BootstrapGone
  <2> QED BY <2>1, SameServer DEF TypeOK, server, local
<1>2. ASSUME NEW k \in Scope, NEW page \in SUBSET Entity, BootstrapPage(k, page) PROVE TypeOK'
  <2>1. /\ mem \in State /\ pc = "pull" /\ pc' = pc /\ Has(mem, k) /\ mem' \in State /\ saved' = mem'
        /\ strays' = StraysIn(members') \ (Found(k, page) \X {k})
    BY <1>2, PageFacts DEF Paged
  <2>2. PICK chunk \in SUBSET Stale(k, page) : Keep(Added(k, page) \ chunk, HeldRows(k, page))
    BY <1>2, PageFacts DEF Paged
  <2>3. members' \in SUBSET Member /\ rows' \in [Entity -> Contents]
    BY <2>1, <2>2, AddedType, KeepType
  <2>4. strays' \subseteq Entity \X Scope BY <2>1 DEF StraysIn, TypeOK
  <2>5. UNCHANGED <<server, guarded, pc, resp>> BY <1>2 DEF BootstrapPage
  <2> QED BY <2>1, <2>3, <2>4, <2>5, SameServer, Sentinels DEF TypeOK, Contents, server
<1> QED BY <1>1, <1>2 DEF Bootstrap

LEMMA NamedFacts ==
  ASSUME TypeOK, mem \in State, mem.cursor # NoCursor
  PROVE  \A i \in Records(mem.cursor) :
           /\ i \in Int /\ i > mem.cursor /\ i <= Newest /\ i \in 1..Newest
           /\ slog[i] \in Change /\ slog[i].entity \in Entity /\ slog[i].scopes \cap Granted # {}
<1> SUFFICES ASSUME NEW i \in Records(mem.cursor)
             PROVE  /\ i \in Int /\ i > mem.cursor /\ i <= Newest /\ i \in 1..Newest
                    /\ slog[i] \in Change /\ slog[i].entity \in Entity /\ slog[i].scopes \cap Granted # {}
  OBVIOUS
<1>1. mem.cursor \in Nat /\ Newest \in Nat
  BY StateFields, Bounds DEF NoCursor, TypeOK, Newest
<1>2. i \in (mem.cursor + 1)..Newest /\ slog[i].scopes \cap Granted # {} BY DEF Records
<1>3. i \in Int /\ i > mem.cursor /\ i <= Newest /\ i \in 1..Newest BY <1>1, <1>2
<1>4. slog \in Seq(Change) /\ i \in 1..Len(slog) BY <1>3 DEF TypeOK, Newest
<1>5. slog[i] \in Change BY <1>4
<1> QED BY <1>2, <1>3, <1>5 DEF Change

\* While changes are read there is a cursor.
LEMMA ReadCursor ==
  ASSUME TypeOK, NEW last \in 0..Newest, ReadChanges(last)
  PROVE  /\ mem \in State /\ mem.cursor # NoCursor /\ mem.cursor \in Nat /\ mem.cursor >= purged
         /\ Named(last) \subseteq Entity
<1>1. mem \in State BY MemState DEF ReadChanges
<1>2. purged \in Nat /\ mem.cursor >= purged BY DEF ReadChanges, TypeOK
<1>3. mem.cursor # NoCursor /\ mem.cursor \in Nat BY <1>1, <1>2, StateFields, Bounds DEF NoCursor
<1>4. \A i \in Records(mem.cursor) : slog[i].entity \in Entity BY <1>1, <1>3, NamedFacts
<1> QED BY <1>1, <1>2, <1>3, <1>4 DEF Named

LEMMA UpsertType ==
  ASSUME TypeOK, NEW last \in 0..Newest, ReadChanges(last)
  PROVE  \A m \in Upserts(last) :
           /\ m \in Member /\ m.entity \in Named(last) /\ m.scope \in ScopeKeys(m.entity)
           /\ m.gen = GenerationOf(m.scope)
<1> SUFFICES ASSUME NEW e \in Named(last), NEW k \in ScopeKeys(e), NEW m,
                    m = [entity |-> e, scope |-> k, gen |-> GenerationOf(k)]
             PROVE  /\ m \in Member /\ m.entity \in Named(last) /\ m.scope \in ScopeKeys(m.entity)
                    /\ m.gen = GenerationOf(m.scope)
  BY DEF Upserts
<1>1. e \in Entity /\ k \in Scope /\ mem \in State BY ReadCursor, ServedRow
<1>2. GenerationOf(k) \in Nat \ {0}
  BY <1>1, StateFields, ScopeFields DEF GenerationOf, Has
<1> QED BY <1>1, <1>2 DEF Member

LEMMA ChangesType == ASSUME TypeOK, Changes PROVE TypeOK'
<1>1. CASE ExpireCursor
  <2>1. /\ mem' \in State /\ saved' = mem' /\ pc' = "scopes" /\ pc = "pull"
        /\ UNCHANGED <<server, rows, members, guarded, strays, resp>>
    BY <1>1, ExpireFacts DEF ExpireCursor
  <2> QED BY <2>1, SameServer, Sentinels DEF TypeOK, server
<1>2. ASSUME NEW last \in 0..Newest, ReadChanges(last) PROVE TypeOK'
  <2>1. /\ mem' \in State /\ saved' = mem' /\ pc = "pull" /\ pc' \in {"scopes", "finish", "pull"}
        /\ members' = {m \in members : m.entity \notin Named(last)} \cup Upserts(last)
        /\ strays' = {p \in strays : p[1] \notin Named(last)}
                        \cup {<<m.entity, m.scope>> : m \in {u \in Upserts(last) : mem.scopes[u.scope] = Unsaved}}
        /\ rows' = [e \in Entity |-> IF e \notin Named(last) THEN rows[e]
                                     ELSE IF ScopeKeys(e) # {} THEN srow[e].rev
                                     ELSE IF srow[e] = Absent THEN Absent ELSE Hidden(e, rows)]
    BY <1>2, ReadFacts
  <2>2. members' \subseteq Member BY <1>2, <2>1, UpsertType DEF TypeOK
  <2>3. strays' \subseteq Entity \X Scope BY <1>2, <2>1, UpsertType DEF TypeOK, Member
  <2>4. rows' \in [Entity -> Contents]
    <3>1. \A e \in Entity : ScopeKeys(e) # {} => srow[e].rev \in Contents
      BY RowFields, ServedRow DEF Contents
    <3>2. \A e \in Entity : rows[e] \in Contents /\ Hidden(e, rows) \in Contents
      BY DEF TypeOK, Contents, Hidden
    <3>3. Absent \in Contents BY DEF Contents
    <3> QED BY <2>1, <3>1, <3>2, <3>3
  <2>5. UNCHANGED <<server, guarded, resp>> BY <1>2 DEF ReadChanges
  <2> QED BY <2>1, <2>2, <2>3, <2>4, <2>5, SameServer, Sentinels DEF TypeOK, Contents, server
<1> QED BY <1>1, <1>2 DEF Changes

LEMMA RunType == ASSUME TypeOK, StartRun \/ Finish \/ Interrupt PROVE TypeOK'
<1>1. CASE StartRun
  <2>1. pc = "idle" /\ pc' \in {"scopes", "pull"} /\ mem' \in State /\ UNCHANGED <<server, local, resp>>
    BY <1>1, StartFacts DEF StartRun
  <2> QED BY <2>1, SameServer, Sentinels DEF TypeOK, server, local
<1>2. CASE Finish
  <2>1. mem \in State /\ pc = "finish" BY <1>2, MemState DEF Finish
  <2> QED BY <1>2, <2>1, SameServer DEF Finish, TypeOK, server
<1>3. CASE Interrupt BY <1>3, SameServer DEF Interrupt, TypeOK, server, local
<1> QED BY <1>1, <1>2, <1>3

LEMMA NextType == ASSUME TypeOK, [Next]_vars PROVE TypeOK'
<1>1. CASE Server BY <1>1, ServerType
<1>2. CASE Reconcile BY <1>2, ReconcileType
<1>3. CASE Bootstrap BY <1>3, BootstrapType
<1>4. CASE Changes BY <1>4, ChangesType
<1>5. CASE StartRun \/ Finish \/ Interrupt BY <1>5, RunType
<1>6. CASE Outbox BY <1>6, OutboxType
<1>7. CASE \E k \in Scope : RequestRebootstrap(k) BY <1>7, RequestType
<1>8. CASE UNCHANGED vars BY <1>8, SameServer DEF TypeOK, vars, server, local, run
<1> QED BY <1>1, <1>2, <1>3, <1>4, <1>5, <1>6, <1>7, <1>8 DEF Next

LEMMA InitType == Init => TypeOK
<1> SUFFICES ASSUME Init PROVE TypeOK OBVIOUS
<1>1. srow \in [Entity -> ServerRow \cup {Absent}] BY Bounds DEF Init, ServerRow
<1>2. grant \in Revision /\ issued \in 1..MaxGrant BY Bounds DEF Init, Revision
<1>3. slog \in Seq(Change) /\ Newest = 0 /\ Newest <= MaxLog /\ purged \in 0..Newest
  BY Bounds DEF Init, Newest
<1> QED BY <1>1, <1>2, <1>3 DEF Init, TypeOK

\* The tables, the saved state and the state of a run are always of the form the
\* code reads them back in: generations count from one, the cursor is never past
\* the log, and a state is in memory exactly while a run is under way.
THEOREM TypeCorrect == Spec => []TypeOK
<1> QED BY InitType, NextType, PTL DEF Spec

-----------------------------------------------------------------------------
(* The invariant: what carries over from one step to the next. *)

LEMMA SavedNext == ASSUME NEW st, st = saved', StateInv(st)' PROVE StateInv(saved)'
BY DEF StateInv, Revised, Past, Generations, Anew, Covered, Swept, HeldFor, Leaving, RecordOf,
       Current, Has, Booting

LEMMA MemNext == ASSUME NEW st, st = mem', StateInv(st)' PROVE StateInv(mem)'
BY DEF StateInv, Revised, Past, Generations, Anew, Covered, Swept, HeldFor, Leaving, RecordOf,
       Current, Has, Booting

Tables == <<srow, slog, grant, issued, rows, members, strays>>

LEMMA Unmoved == ASSUME NEW st, StateInv(st), UNCHANGED Tables PROVE StateInv(st)'
<1>1. UNCHANGED <<srow, slog, grant, issued, rows, members, strays>> BY DEF Tables
<1>2. Newest' = Newest /\ \A e : ScopeKeys(e)' = ScopeKeys(e) BY <1>1 DEF Newest, ScopeKeys, Granted
<1>3. \A k : Current(st, k)' <=> Current(st, k) BY <1>1 DEF Current, Has
<1>4. Revised(st)' BY DEF StateInv, Revised, Has
<1>5. Past(st)' BY <1>1, <1>2 DEF StateInv, Past, Has
<1>6. Generations(st)' BY <1>1 DEF StateInv, Generations, Has
<1>7. Anew(st)' BY <1>1 DEF StateInv, Anew, Has, Booting
<1>8. Covered(st)'
  <2>1. \A e, k : HeldFor(st, e, k)' <=> HeldFor(st, e, k) BY <1>1 DEF HeldFor, Booting
  <2> QED BY <1>1, <1>2, <1>3, <2>1 DEF StateInv, Covered
<1>9. Swept(st)'
  <2>1. \A m : Leaving(st, m)' <=> Leaving(st, m) BY <1>1, <1>2 DEF Leaving, RecordOf, Booting
  <2> QED BY <1>1, <1>2, <1>3, <2>1 DEF StateInv, Swept
<1> QED BY <1>4, <1>5, <1>6, <1>7, <1>8, <1>9 DEF StateInv

LEMMA AlikeInv ==
  ASSUME NEW a, NEW b, Alike(a, b), StateInv(b), TypeOK
  PROVE  StateInv(a)
<1>1. \A m \in members : m.scope \in Scope BY DEF TypeOK, Member
<1>2. \A e \in Entity : ScopeKeys(e) \subseteq Scope BY ServedRow
<1>3. \A k \in Scope : /\ Has(a, k) <=> Has(b, k)
                       /\ Has(a, k) => /\ a.scopes[k].gen = b.scopes[k].gen
                                       /\ a.scopes[k].boot = b.scopes[k].boot
                                       /\ Aim(a.scopes[k]) = Aim(b.scopes[k])
  BY DEF Alike
<1>4. \A k \in Scope : Current(a, k) <=> Current(b, k) BY <1>3 DEF Current
<1>5. \A k \in Scope : Has(a, k) => (Booting(a, k) <=> Booting(b, k)) BY <1>3 DEF Booting
<1>6. a.cursor = b.cursor /\ a.revision = b.revision BY DEF Alike
<1>7. Revised(a) BY <1>3, <1>6 DEF StateInv, Revised
<1>8. Past(a) BY <1>3, <1>6 DEF StateInv, Past
<1>9. Generations(a) BY <1>1, <1>3 DEF StateInv, Generations
<1>10. Anew(a) BY <1>1, <1>3, <1>5, <1>6 DEF StateInv, Anew
<1>11. Covered(a)
  <2>1. \A e \in Entity, k \in Scope : Current(a, k) => (HeldFor(a, e, k) <=> HeldFor(b, e, k))
    BY <1>3, <1>5 DEF HeldFor, Current
  <2> QED BY <1>2, <1>4, <1>6, <2>1 DEF StateInv, Covered
<1>12. Swept(a)
  <2>1. \A m \in members : Current(a, m.scope) => (Leaving(a, m) <=> Leaving(b, m))
    BY <1>1, <1>3, <1>5, <1>6 DEF Leaving, Current
  <2> QED BY <1>1, <1>4, <1>6, <2>1 DEF StateInv, Swept
<1> QED BY <1>7, <1>8, <1>9, <1>10, <1>11, <1>12 DEF StateInv

LEMMA LogType ==
  ASSUME TypeOK
  PROVE  Newest \in Nat /\ Len(slog) = Newest /\ issued \in Nat /\ \A k \in Scope : grant[k] \in Nat
BY Bounds DEF TypeOK, Newest, Revision

-----------------------------------------------------------------------------
(* The server. *)

LEMMA WriteFacts ==
  ASSUME TypeOK, NEW e \in Entity, NEW scopes \in SUBSET Scope, ServerWrite(e, scopes)
  PROVE  /\ Newest' = Newest + 1 /\ UNCHANGED <<purged, grant, issued, local, run>>
         /\ \A i \in 1..Newest : slog'[i] = slog[i]
         /\ slog'[Newest + 1].entity = e
         /\ srow[e] # Absent => srow[e].scopes \subseteq slog'[Newest + 1].scopes
         /\ srow'[e] # Absent => srow'[e].rev = Newest + 1 /\ srow'[e].scopes \subseteq slog'[Newest + 1].scopes
         /\ \A f \in Entity \ {e} : srow'[f] = srow[f]
<1> DEFINE record == [entity |-> e, scopes |-> scopes \cup (IF srow[e] = Absent THEN {} ELSE srow[e].scopes)]
           row == IF scopes = {} THEN Absent ELSE [scopes |-> scopes, rev |-> Newest + 1]
<1>1. slog' = Append(slog, record) /\ srow' = [srow EXCEPT ![e] = row]
      /\ UNCHANGED <<purged, grant, issued, local, run>>
  BY DEF ServerWrite
<1>2. /\ row # Absent => row.rev = Newest + 1 /\ row.scopes = scopes
      /\ record.entity = e /\ scopes \subseteq record.scopes
      /\ srow[e] # Absent => srow[e].scopes \subseteq record.scopes
  OBVIOUS
<1> HIDE DEF record, row
<1>3. /\ Len(slog') = Len(slog) + 1 /\ slog'[Len(slog) + 1] = record
      /\ \A i \in 1..Len(slog) : slog'[i] = slog[i]
  BY <1>1 DEF TypeOK
<1>4. srow'[e] = row /\ \A f \in Entity \ {e} : srow'[f] = srow[f] BY <1>1 DEF TypeOK
<1> QED BY <1>1, <1>2, <1>3, <1>4 DEF Newest

LEMMA WriteState ==
  ASSUME TypeOK, NEW e \in Entity, NEW scopes \in SUBSET Scope, ServerWrite(e, scopes),
         NEW st \in State, StateInv(st)
  PROVE  StateInv(st)'
<1>1. /\ Newest' = Newest + 1 /\ UNCHANGED <<grant, issued, rows, members, strays>>
      /\ \A i \in 1..Newest : slog'[i] = slog[i]
      /\ slog'[Newest + 1].entity = e
      /\ srow[e] # Absent => srow[e].scopes \subseteq slog'[Newest + 1].scopes
      /\ srow'[e] # Absent => srow'[e].rev = Newest + 1
      /\ \A f \in Entity \ {e} : srow'[f] = srow[f]
  BY WriteFacts DEF local
<1>2. Newest \in Nat /\ st.cursor \in Int /\ st.cursor <= Newest
  BY LogType, StateFields DEF StateInv, Past
<1>3. Revised(st)' BY DEF StateInv, Revised, Has
<1>4. Past(st)' BY <1>1, <1>2 DEF StateInv, Past, Has
<1>5. Generations(st)' BY <1>1 DEF StateInv, Generations, Has
<1>6. Anew(st)' BY <1>1 DEF StateInv, Anew, Has, Booting
<1>7. \A f \in Entity \ {e} : ScopeKeys(f)' = ScopeKeys(f)
  BY <1>1 DEF ScopeKeys, Granted
<1>8. \A k : Current(st, k)' <=> Current(st, k) BY <1>1 DEF Current, Has
<1>9. Covered(st)'
  <2> SUFFICES ASSUME st.cursor # NoCursor, NEW f \in Entity, NEW k \in ScopeKeys(f)',
                      Current(st, k)', srow'[f].rev <= st.cursor
               PROVE  HeldFor(st, f, k)'
    BY DEF Covered
  <2>1. f # e BY <1>1, <1>2 DEF ScopeKeys
  <2>2. k \in ScopeKeys(f) /\ srow'[f] = srow[f] BY <1>1, <1>7, <2>1
  <2>3. HeldFor(st, f, k) BY <1>8, <2>2 DEF StateInv, Covered
  <2> QED BY <1>1, <2>2, <2>3 DEF HeldFor, Booting
<1>10. Swept(st)'
  <2> SUFFICES ASSUME st.cursor # NoCursor, NEW m \in members', Current(st, m.scope)',
                      m.scope \notin ScopeKeys(m.entity)'
               PROVE  Leaving(st, m)'
    BY DEF Swept
  <2>1. m \in members /\ Current(st, m.scope) /\ m.entity \in Entity
    BY <1>1, <1>8 DEF TypeOK, Member
  <2>2. CASE m.scope \notin ScopeKeys(m.entity)
    <3>1. Leaving(st, m) BY <2>1, <2>2 DEF StateInv, Swept
    <3>2. RecordOf(st.cursor, m.entity, m.scope) => RecordOf(st.cursor, m.entity, m.scope)'
      BY <1>1, <1>2 DEF RecordOf
    <3> QED BY <1>1, <3>1, <3>2 DEF Leaving, Booting
  <2>3. CASE m.scope \in ScopeKeys(m.entity)
    <3>1. m.entity = e BY <1>7, <2>1, <2>3
    <3>2. m.scope \in slog'[Newest + 1].scopes BY <1>1, <2>3, <3>1 DEF ScopeKeys
    <3>3. Newest + 1 \in 1..Newest' /\ Newest + 1 > st.cursor BY <1>1, <1>2
    <3>4. RecordOf(st.cursor, m.entity, m.scope)' BY <1>1, <3>1, <3>2, <3>3 DEF RecordOf
    <3> QED BY <3>4 DEF Leaving
  <2> QED BY <2>2, <2>3
<1> QED BY <1>3, <1>4, <1>5, <1>6, <1>9, <1>10 DEF StateInv

\* A scope that is revoked, or gets a new fingerprint, is not the one any state aims at.
Fenced(k) ==
  /\ grant' \in Revision /\ issued' >= issued /\ issued' \in Nat
  /\ grant'[k] = 0 \/ grant'[k] > issued
  /\ \A l \in Scope \ {k} : grant'[l] = grant[l]
  /\ \A l \in Scope : grant'[l] <= issued'
  /\ UNCHANGED <<srow, slog, purged, local, run>>

LEMMA FencedFacts ==
  ASSUME FreshGrants, TypeOK, Issued, NEW k \in Scope, ServerGrant(k) \/ ServerRevoke(k)
  PROVE  Fenced(k)
<1>1. CASE ServerGrant(k)
  <2>1. /\ grant' = [grant EXCEPT ![k] = issued + 1] /\ issued' = Max({issued, issued + 1})
        /\ issued + 1 <= MaxGrant /\ UNCHANGED <<srow, slog, purged, local, run>>
    BY <1>1 DEF ServerGrant
  <2>2. issued \in Nat /\ issued' = issued + 1 BY <2>1, LogType, MaxOf
  <2>3. grant' \in Revision BY <2>1, <2>2, Bounds DEF TypeOK, Revision
  <2>4. grant'[k] = issued + 1 /\ \A l \in Scope \ {k} : grant'[l] = grant[l]
    BY <2>1 DEF TypeOK, Revision
  <2>5. \A l \in Scope : grant'[l] <= issued' BY <2>2, <2>4, LogType DEF Issued
  <2> QED BY <2>1, <2>2, <2>3, <2>4, <2>5 DEF Fenced
<1>2. CASE ServerRevoke(k)
  <2>1. grant' = [grant EXCEPT ![k] = 0] /\ issued' = issued /\ UNCHANGED <<srow, slog, purged, local, run>>
    BY <1>2 DEF ServerRevoke
  <2>2. grant' \in Revision BY <2>1, Bounds DEF TypeOK, Revision
  <2> QED BY <2>1, <2>2, LogType DEF Fenced, Issued, TypeOK, Revision
<1> QED BY <1>1, <1>2

LEMMA FencedState ==
  ASSUME TypeOK, NEW k \in Scope, Fenced(k), NEW st \in State, StateInv(st)
  PROVE  StateInv(st)'
<1>1. UNCHANGED <<srow, slog, rows, members, strays>> /\ Newest' = Newest
  BY DEF Fenced, local, Newest
<1>2. \A l \in Scope : Has(st, l) => Aim(st.scopes[l]) \in Nat /\ Aim(st.scopes[l]) >= 1
                                     /\ Aim(st.scopes[l]) <= issued
  BY StateFields, ScopeFields DEF StateInv, Past
<1>3. ~Current(st, k)'
  <2>1. issued \in Nat /\ grant'[k] \in Nat BY LogType, Bounds DEF Fenced, Revision
  <2> QED BY <1>2, <2>1 DEF Current, Has, Fenced
<1>4. \A l \in Scope : Current(st, l)' => l # k /\ Current(st, l) BY <1>3 DEF Current, Has, Fenced
<1>5. \A e \in Entity : \A l \in Scope \ {k} : l \in ScopeKeys(e)' <=> l \in ScopeKeys(e)
  BY <1>1 DEF ScopeKeys, Granted, Fenced
<1>6. Revised(st)' BY DEF StateInv, Revised, Has
<1>7. Past(st)'
  <2>1. issued \in Nat /\ issued' \in Nat /\ issued <= issued' BY LogType DEF Fenced
  <2> QED BY <1>1, <1>2, <2>1 DEF StateInv, Past, Has
<1>8. Generations(st)' BY <1>1 DEF StateInv, Generations, Has
<1>9. Anew(st)' BY <1>1 DEF StateInv, Anew, Has, Booting
<1>10. Covered(st)'
  <2> SUFFICES ASSUME st.cursor # NoCursor, NEW e \in Entity, NEW l \in ScopeKeys(e)',
                      Current(st, l)', srow'[e].rev <= st.cursor
               PROVE  HeldFor(st, e, l)'
    BY DEF Covered
  <2>1. l \in Scope BY DEF ScopeKeys, Granted
  <2>2. l \in ScopeKeys(e) /\ Current(st, l) BY <1>4, <1>5, <2>1
  <2>3. HeldFor(st, e, l) BY <1>1, <2>2 DEF StateInv, Covered
  <2> QED BY <1>1, <2>3 DEF HeldFor, Booting
<1>11. Swept(st)'
  <2> SUFFICES ASSUME st.cursor # NoCursor, NEW m \in members', Current(st, m.scope)',
                      m.scope \notin ScopeKeys(m.entity)'
               PROVE  Leaving(st, m)'
    BY DEF Swept
  <2>1. m \in members /\ m.scope \in Scope /\ m.entity \in Entity BY <1>1 DEF TypeOK, Member
  <2>2. Current(st, m.scope) /\ m.scope \notin ScopeKeys(m.entity) BY <1>4, <1>5, <2>1
  <2>3. Leaving(st, m) BY <2>1, <2>2 DEF StateInv, Swept
  <2> QED BY <1>1, <2>3 DEF Leaving, RecordOf, Booting
<1> QED BY <1>6, <1>7, <1>8, <1>9, <1>10, <1>11 DEF StateInv

LEMMA KeptStates ==
  ASSUME TypeOK, PullInv, UNCHANGED <<saved, mem>>, \A st \in State : StateInv(st) => StateInv(st)'
  PROVE  (saved # NoState => StateInv(saved))' /\ (mem # NoState => StateInv(mem))'
<1>1. ASSUME saved' # NoState PROVE StateInv(saved)'
  <2>1. PICK st : st = saved' OBVIOUS
  <2>2. st = saved /\ saved # NoState BY <1>1, <2>1
  <2>3. st \in State /\ StateInv(st) BY <2>2 DEF PullInv, TypeOK
  <2>4. StateInv(st)' BY <2>3
  <2> QED BY <2>1, <2>4, SavedNext
<1>2. ASSUME mem' # NoState PROVE StateInv(mem)'
  <2>1. PICK st : st = mem' OBVIOUS
  <2>2. st = mem /\ mem # NoState BY <1>2, <2>1
  <2>3. st \in State /\ StateInv(st) BY <2>2 DEF PullInv, TypeOK
  <2>4. StateInv(st)' BY <2>3
  <2> QED BY <2>1, <2>4, MemNext
<1> QED BY <1>1, <1>2

LEMMA WriteInv ==
  ASSUME TypeOK, PullInv, NEW e \in Entity, NEW scopes \in SUBSET Scope, ServerWrite(e, scopes)
  PROVE  PullInv'
<1>1. UNCHANGED <<purged, grant, issued, saved, rows, members, guarded, strays, mem, pc, resp>>
  BY WriteFacts DEF local, run
<1>2. \A st \in State : StateInv(st) => StateInv(st)' BY WriteState
<1>3. (saved # NoState => StateInv(saved))' /\ (mem # NoState => StateInv(mem))'
  BY <1>1, <1>2, KeptStates
<1>4. Logged'
  <2> SUFFICES ASSUME NEW f \in Entity, srow'[f] # Absent
               PROVE  /\ srow'[f].rev <= Newest'
                      /\ srow'[f].rev > 0 => /\ slog'[srow'[f].rev].entity = f
                                             /\ srow'[f].scopes \subseteq slog'[srow'[f].rev].scopes
    BY DEF Logged
  <2>1. CASE f = e BY <2>1, WriteFacts, LogType
  <2>2. CASE f # e
    <3>1. srow'[f] = srow[f] BY <2>2, WriteFacts
    <3>2. srow[f].rev \in Nat /\ srow[f].rev <= Newest BY <3>1, RowFields DEF PullInv, Logged
    <3>3. srow[f].rev > 0 => srow[f].rev \in 1..Newest BY <3>2, LogType
    <3> QED BY <3>1, <3>2, <3>3, WriteFacts, LogType DEF PullInv, Logged
  <2> QED BY <2>1, <2>2
<1>5. InRun' BY <1>1 DEF PullInv, InRun
<1>6. Evicting'
  <2>1. Gone' = Gone /\ \A k : InScope(k)' = InScope(k) BY <1>1 DEF Gone, InScope
  <2>2. pc = "evict" => resp.head \in Int BY RespType, Bounds DEF Response
  <2> QED BY <1>1, <2>1, <2>2, WriteFacts, LogType DEF PullInv, Evicting
<1>7. Issued' /\ Finite' BY <1>1 DEF PullInv, Issued, Finite
<1> QED BY <1>3, <1>4, <1>5, <1>6, <1>7 DEF PullInv

LEMMA FencedInv ==
  ASSUME TypeOK, PullInv, NEW k \in Scope, Fenced(k)
  PROVE  PullInv'
<1>1. UNCHANGED <<srow, slog, purged, saved, rows, members, guarded, strays, mem, pc, resp>> /\ Newest' = Newest
  BY DEF Fenced, local, run, Newest
<1>2. \A st \in State : StateInv(st) => StateInv(st)' BY FencedState
<1>3. (saved # NoState => StateInv(saved))' /\ (mem # NoState => StateInv(mem))'
  BY <1>1, <1>2, KeptStates
<1>4. Logged' BY <1>1 DEF PullInv, Logged
<1>5. InRun' BY <1>1 DEF PullInv, InRun
<1>6. Evicting'
  <2> SUFFICES ASSUME pc = "evict"
               PROVE  /\ resp.head <= Newest
                      /\ \A l \in Scope : resp.grant[l] <= issued'
                      /\ \A l \in Gone : Aim(mem.scopes[l]) # grant'[l]
                      /\ \A l \in resp.evicted : InScope(l) = {}
    BY <1>1 DEF Evicting, Gone, InScope
  <2>1. mem \in State /\ mem # NoState BY MemState
  <2>2. \A l \in Scope : Has(mem, l) => Aim(mem.scopes[l]) \in Nat /\ Aim(mem.scopes[l]) >= 1
                                       /\ Aim(mem.scopes[l]) <= issued
    BY <2>1, StateFields, ScopeFields DEF PullInv, StateInv, Past
  <2>3. \A l \in Gone : Aim(mem.scopes[l]) # grant'[l]
    <3>1. issued \in Nat /\ grant'[k] \in Nat BY LogType, Bounds DEF Fenced, Revision
    <3> QED BY <2>2, <3>1 DEF Gone, Has, Fenced, PullInv, Evicting
  <2>4. \A l \in Scope : resp.grant[l] <= issued'
    <3>1. \A l \in Scope : resp.grant[l] \in Nat BY RespType, Bounds DEF Response, Revision
    <3> QED BY <3>1, LogType DEF Fenced, PullInv, Evicting
  <2> QED BY <2>3, <2>4 DEF PullInv, Evicting
<1>7. Issued' /\ Finite' BY <1>1 DEF PullInv, Issued, Finite, Fenced
<1> QED BY <1>3, <1>4, <1>5, <1>6, <1>7 DEF PullInv

LEMMA PurgeInv ==
  ASSUME TypeOK, PullInv, UNCHANGED <<Tables, saved, mem, pc, resp>>
  PROVE  PullInv'
<1>1. UNCHANGED <<srow, slog, grant, issued, rows, members, strays, saved, mem, pc, resp>> /\ Newest' = Newest
  BY DEF Tables, Newest
<1>2. \A st \in State : StateInv(st) => StateInv(st)' BY Unmoved
<1>3. (saved # NoState => StateInv(saved))' /\ (mem # NoState => StateInv(mem))'
  BY <1>1, <1>2, KeptStates
<1>4. Logged' /\ InRun' /\ Issued' /\ Finite' BY <1>1 DEF PullInv, Logged, InRun, Issued, Finite
<1>5. Evicting' BY <1>1 DEF PullInv, Evicting, Gone, InScope
<1> QED BY <1>3, <1>4, <1>5 DEF PullInv

LEMMA ServerInv == ASSUME FreshGrants, TypeOK, PullInv, Server PROVE PullInv'
<1>1. ASSUME NEW e \in Entity, NEW scopes \in SUBSET Scope, ServerWrite(e, scopes) PROVE PullInv'
  BY <1>1, WriteInv
<1>2. ASSUME NEW k \in Scope, ServerGrant(k) \/ ServerRevoke(k) PROVE PullInv'
  BY <1>2, FencedFacts, FencedInv DEF PullInv
<1>3. ASSUME NEW i \in 1..Newest, ServerPurge(i) PROVE PullInv'
  BY <1>3, PurgeInv DEF ServerPurge, Tables, local, run
<1> QED BY <1>1, <1>2, <1>3 DEF Server

-----------------------------------------------------------------------------
(* Runs start, end and are interrupted; the outbox. *)

LEMMA StartInv == ASSUME TypeOK, PullInv, StartRun PROVE PullInv'
<1>1. /\ pc = "idle" /\ pc' = IF mem'.cursor = NoCursor \/ mem'.revision = NoRevision THEN "scopes" ELSE "pull"
      /\ UNCHANGED <<Tables, saved, resp>> /\ Newest' = Newest
  BY DEF StartRun, server, local, Tables, Newest
<1>2. mem' \in State /\ mem' # NoState BY StartFacts
<1>3. PICK st : st = mem' OBVIOUS
<1>4. StateInv(st)
  <2>1. CASE saved = NoState
    <3>1. st = EmptyState /\ members = {} BY <1>3, <2>1, StartFacts DEF PullInv, InRun
    <3>2. st.cursor = NoCursor /\ st.revision = NoRevision /\ \A k \in Scope : ~Has(st, k)
      BY <3>1, EmptyFacts
    <3>3. NoCursor <= Newest BY LogType DEF NoCursor
    <3> QED BY <3>1, <3>2, <3>3
        DEF StateInv, Revised, Past, Generations, Anew, Covered, Swept
  <2>2. CASE saved # NoState
    <3>1. Alike(st, saved) /\ StateInv(saved) BY <1>3, <2>2, StartFacts DEF PullInv
    <3> QED BY <3>1, AlikeInv
  <2> QED BY <2>1, <2>2
<1>5. StateInv(mem)'
  <2>1. StateInv(st)' BY <1>1, <1>4, Unmoved
  <2> QED BY <1>3, <2>1, MemNext
<1>6. (saved # NoState => StateInv(saved))'
  <2>1. ASSUME saved' # NoState PROVE StateInv(saved)'
    <3>1. PICK s : s = saved' OBVIOUS
    <3>2. StateInv(s) BY <1>1, <2>1, <3>1 DEF PullInv
    <3>3. StateInv(s)' BY <1>1, <3>2, Unmoved
    <3> QED BY <3>1, <3>3, SavedNext
  <2> QED BY <2>1
<1>7. Logged' /\ Issued' /\ Finite' BY <1>1 DEF PullInv, Logged, Issued, Finite, Tables
<1>8. InRun' BY <1>1, StartFacts DEF PullInv, InRun, Alike, Tables
<1>9. Evicting' BY <1>1 DEF Evicting
<1> QED BY <1>5, <1>6, <1>7, <1>8, <1>9 DEF PullInv

LEMMA EndInv == ASSUME TypeOK, PullInv, Finish \/ Interrupt PROVE PullInv'
<1>1. UNCHANGED Tables /\ Newest' = Newest /\ pc # "idle" /\ pc' = "idle" /\ mem' = NoState
  BY DEF Finish, Interrupt, Tables, server, local, Newest
<1>2. mem # NoState /\ (saved' = saved \/ saved' = mem) BY <1>1, MemState DEF Finish, Interrupt, local
<1>3. (saved # NoState => StateInv(saved))'
  <2>1. ASSUME saved' # NoState PROVE StateInv(saved)'
    <3>1. PICK s : s = saved' OBVIOUS
    <3>2. StateInv(s) BY <1>2, <2>1, <3>1 DEF PullInv
    <3>3. StateInv(s)' BY <1>1, <3>2, Unmoved
    <3> QED BY <3>1, <3>3, SavedNext
  <2> QED BY <2>1
<1>4. Logged' /\ Issued' /\ Finite' BY <1>1 DEF PullInv, Logged, Issued, Finite, Tables
<1>5. InRun' BY <1>1, <1>2 DEF PullInv, InRun, Tables
<1>6. Evicting' BY <1>1 DEF Evicting
<1> QED BY <1>1, <1>3, <1>4, <1>5, <1>6 DEF PullInv

\* A row nobody has on the server comes or goes on this device only.
LEMMA RowsState ==
  ASSUME UNCHANGED <<srow, slog, grant, issued, members, strays>>,
         \A e \in Entity : srow[e] # Absent => rows'[e] = rows[e],
         NEW st, StateInv(st)
  PROVE  StateInv(st)'
<1>2. Newest' = Newest /\ \A e : ScopeKeys(e)' = ScopeKeys(e) BY DEF Newest, ScopeKeys, Granted
<1>3. \A k : Current(st, k)' <=> Current(st, k) BY DEF Current, Has
<1>4. Revised(st)' BY DEF StateInv, Revised, Has
<1>5. Past(st)' BY <1>2 DEF StateInv, Past, Has
<1>6. Generations(st)' BY DEF StateInv, Generations, Has
<1>7. Anew(st)' BY DEF StateInv, Anew, Has, Booting
<1>8. Covered(st)'
  <2>1. \A e \in Entity : \A k \in ScopeKeys(e) : HeldFor(st, e, k)' <=> HeldFor(st, e, k)
    BY ServedRow DEF HeldFor, Booting
  <2> QED BY <1>2, <1>3, <2>1 DEF StateInv, Covered
<1>9. Swept(st)'
  <2>1. \A m : Leaving(st, m)' <=> Leaving(st, m) BY <1>2 DEF Leaving, RecordOf, Booting
  <2> QED BY <1>2, <1>3, <2>1 DEF StateInv, Swept
<1> QED BY <1>4, <1>5, <1>6, <1>7, <1>8, <1>9 DEF StateInv

LEMMA OutboxInv == ASSUME TypeOK, PullInv, Outbox PROVE PullInv'
<1>1. PICK e \in Entity : Edit(e) \/ Create(e) \/ Settle(e) BY DEF Outbox
<1>2. /\ UNCHANGED <<srow, slog, grant, issued, members, strays, saved, mem, pc, resp>> /\ Newest' = Newest
      /\ \A f \in Entity : srow[f] # Absent => rows'[f] = rows[f]
  BY <1>1 DEF Edit, Create, Settle, server, run, TypeOK, Newest
<1>3. \A st \in State : StateInv(st) => StateInv(st)' BY <1>2, RowsState
<1>4. (saved # NoState => StateInv(saved))' /\ (mem # NoState => StateInv(mem))'
  BY <1>2, <1>3, KeptStates
<1>5. Logged' /\ InRun' /\ Issued' /\ Finite' BY <1>2 DEF PullInv, Logged, InRun, Issued, Finite
<1>6. Evicting' BY <1>2 DEF PullInv, Evicting, Gone, InScope
<1> QED BY <1>4, <1>5, <1>6 DEF PullInv

\* A scope that is bootstrapped again, from its first row in the next generation.
LEMMA RequestState ==
  ASSUME TypeOK, PullInv, NEW k \in Scope, RequestRebootstrap(k), NEW st, st = saved'
  PROVE  StateInv(st)
<1>1. /\ saved \in State /\ st \in State /\ Has(saved, k)
      /\ st.cursor = saved.cursor /\ st.revision = saved.revision
      /\ \A l \in Scope :
           /\ Has(st, l) <=> Has(saved, l)
           /\ Has(saved, l) => Aim(st.scopes[l]) = Aim(saved.scopes[l])
           /\ Has(saved, l) /\ l # k =>
                st.scopes[l].gen = saved.scopes[l].gen /\ st.scopes[l].boot = saved.scopes[l].boot
      /\ st.scopes[k].gen = saved.scopes[k].gen + 1
      /\ Booting(st, k) /\ st.scopes[k].boot.todo = Entity
  BY RequestFacts DEF Has, Booting
<1>2. StateInv(saved) BY <1>1, StateFields DEF PullInv
<1>3. \A m \in members : m.scope \in Scope /\ m.entity \in Entity /\ m.gen \in Nat BY DEF TypeOK, Member
<1>4. \A l \in Scope : Current(st, l) <=> Current(saved, l) BY <1>1 DEF Current
<1>5. \A l \in Scope \ {k} : Has(st, l) => (Booting(st, l) <=> Booting(saved, l)) BY <1>1 DEF Booting
<1>6. \A m \in members : m.scope = k => m.gen < st.scopes[k].gen
  <2> SUFFICES ASSUME NEW m \in members, m.scope = k PROVE m.gen < st.scopes[k].gen OBVIOUS
  <2>1. saved.scopes[k].gen \in Nat /\ m.gen \in Nat BY <1>1, <1>3, StateFields, ScopeFields
  <2>2. m.gen <= saved.scopes[k].gen BY <1>1, <1>2 DEF StateInv, Generations
  <2>3. st.scopes[k].gen = saved.scopes[k].gen + 1 BY <1>1
  <2> QED BY <2>1, <2>2, <2>3
<1>7. Revised(st) BY <1>1, <1>2 DEF StateInv, Revised
<1>8. Past(st) BY <1>1, <1>2 DEF StateInv, Past
<1>9. Generations(st)
  <2> SUFFICES ASSUME NEW m \in members
               PROVE  IF Has(st, m.scope) THEN m.gen <= st.scopes[m.scope].gen
                      ELSE m.gen = 1 /\ <<m.entity, m.scope>> \in strays
    BY DEF Generations
  <2>1. CASE m.scope = k
    <3>1. m.gen < st.scopes[k].gen /\ Has(st, k) BY <1>1, <1>6, <2>1
    <3>2. m.gen \in Nat /\ st.scopes[k].gen \in Nat BY <1>1, <1>3, <3>1, StateFields, ScopeFields
    <3>3. m.gen <= st.scopes[k].gen BY <3>1, <3>2
    <3> QED BY <2>1, <3>1, <3>3
  <2>2. CASE m.scope # k BY <1>1, <1>2, <1>3, <2>2 DEF StateInv, Generations
  <2> QED BY <2>1, <2>2
<1>10. Anew(st) BY <1>1, <1>2, <1>3, <1>5, <1>6 DEF StateInv, Anew
<1>11. Covered(st)
  <2> SUFFICES ASSUME st.cursor # NoCursor, NEW e \in Entity, NEW l \in ScopeKeys(e),
                      Current(st, l), srow[e].rev <= st.cursor
               PROVE  HeldFor(st, e, l)
    BY DEF Covered
  <2>1. l \in Scope BY ServedRow
  <2>2. CASE l = k BY <1>1, <2>2 DEF HeldFor
  <2>3. CASE l # k
    <3>1. HeldFor(saved, e, l) BY <1>1, <1>2, <1>4, <2>1 DEF StateInv, Covered
    <3>2. Has(saved, l) BY <1>4, <2>1 DEF Current
    <3> QED BY <1>1, <1>5, <2>1, <2>3, <3>1, <3>2 DEF HeldFor
  <2> QED BY <2>2, <2>3
<1>12. Swept(st)
  <2> SUFFICES ASSUME st.cursor # NoCursor, NEW m \in members, Current(st, m.scope),
                      m.scope \notin ScopeKeys(m.entity)
               PROVE  Leaving(st, m)
    BY DEF Swept
  <2>1. m.scope \in Scope BY <1>3
  <2>2. CASE m.scope = k BY <1>1, <1>6, <2>2 DEF Leaving
  <2>3. CASE m.scope # k
    <3>1. Leaving(saved, m) BY <1>1, <1>2, <1>4, <2>1 DEF StateInv, Swept
    <3>2. Has(saved, m.scope) BY <1>4, <2>1 DEF Current
    <3> QED BY <1>1, <1>5, <2>1, <2>3, <3>1, <3>2 DEF Leaving
  <2> QED BY <2>2, <2>3
<1> QED BY <1>7, <1>8, <1>9, <1>10, <1>11, <1>12 DEF StateInv

LEMMA RequestInv == ASSUME TypeOK, PullInv, NEW k \in Scope, RequestRebootstrap(k) PROVE PullInv'
<1>1. UNCHANGED <<Tables, mem, pc, resp>> /\ Newest' = Newest
  BY DEF RequestRebootstrap, server, run, Tables, Newest
<1>2. StateInv(saved)'
  <2>1. PICK st : st = saved' OBVIOUS
  <2>2. StateInv(st) BY <2>1, RequestState
  <2>3. StateInv(st)' BY <1>1, <2>2, Unmoved
  <2> QED BY <2>1, <2>3, SavedNext
<1>3. (mem # NoState => StateInv(mem))'
  <2>1. ASSUME mem' # NoState PROVE StateInv(mem)'
    <3>1. PICK s : s = mem' OBVIOUS
    <3>2. StateInv(s) BY <1>1, <2>1, <3>1 DEF PullInv
    <3>3. StateInv(s)' BY <1>1, <3>2, Unmoved
    <3> QED BY <3>1, <3>3, MemNext
  <2> QED BY <2>1
<1>4. Logged' /\ Issued' /\ Finite' BY <1>1 DEF PullInv, Logged, Issued, Finite, Tables
<1>5. saved # NoState /\ saved' # NoState /\ saved'.cursor = saved.cursor /\ saved'.revision = saved.revision
  BY RequestFacts, StateFields
<1>6. InRun' BY <1>1, <1>5 DEF PullInv, InRun, Tables
<1>7. Evicting' BY <1>1 DEF PullInv, Evicting, Gone, InScope, Tables
<1> QED BY <1>2, <1>3, <1>4, <1>6, <1>7 DEF PullInv

-----------------------------------------------------------------------------
(* Reconciliation. *)

LEMMA FetchInv == ASSUME TypeOK, PullInv, FetchScopes PROVE PullInv'
<1>1. /\ UNCHANGED <<Tables, saved, mem>> /\ Newest' = Newest /\ pc = "scopes" /\ pc' = "evict"
      /\ resp' = [grant |-> grant, head |-> Newest, evicted |-> {}]
  BY DEF FetchScopes, server, local, Tables, Newest
<1>2. \A st \in State : StateInv(st) => StateInv(st)' BY <1>1, Unmoved
<1>3. (saved # NoState => StateInv(saved))' /\ (mem # NoState => StateInv(mem))'
  BY <1>1, <1>2, KeptStates
<1>4. Logged' /\ Issued' /\ Finite' BY <1>1 DEF PullInv, Logged, Issued, Finite, Tables
<1>5. InRun' BY <1>1 DEF PullInv, InRun, Tables
<1>6. Evicting'
  <2>1. resp'.head = Newest /\ resp'.grant = grant /\ resp'.evicted = {} BY <1>1
  <2>2. \A k \in Gone' : Aim(mem.scopes[k]) # grant[k]
    <3>1. mem \in State BY <1>1, MemState
    <3>2. \A k \in Gone' : k \in Scope /\ Has(mem, k) /\ grant[k] = 0 BY <1>1, <2>1 DEF Gone, Has
    <3> QED BY <3>1, <3>2, StateFields, ScopeFields
  <2> QED BY <1>1, <2>1, <2>2, LogType DEF PullInv, Evicting, Issued, Tables
<1> QED BY <1>3, <1>4, <1>5, <1>6 DEF PullInv

\* Members of scopes that are not current go, and with them rows.
LEMMA EvictState ==
  ASSUME TypeOK, NEW k \in Scope, NEW chunk \in SUBSET members, EvictChunk(k, chunk),
         NEW st, StateInv(st), ~Current(st, k)
  PROVE  StateInv(st)'
<1>1. /\ UNCHANGED <<srow, slog, grant, issued>> /\ Newest' = Newest
      /\ members' = members \ chunk /\ strays' = StraysIn(members')
      /\ Keep(members \ chunk, rows) /\ chunk \subseteq InScope(k)
  BY EvictFacts DEF EvictChunk, server, Newest, Keep
<1>2. \A e : ScopeKeys(e)' = ScopeKeys(e) BY <1>1 DEF ScopeKeys, Granted
<1>3. \A l : Current(st, l)' <=> Current(st, l) BY <1>1 DEF Current, Has
<1>4. \A m \in members' : <<m.entity, m.scope>> \in strays => <<m.entity, m.scope>> \in strays'
  BY <1>1 DEF StraysIn
<1>5. Revised(st)' BY DEF StateInv, Revised, Has
<1>6. Past(st)' BY <1>1 DEF StateInv, Past, Has
<1>7. Generations(st)' BY <1>1, <1>4 DEF StateInv, Generations, Has
<1>8. Anew(st)' BY <1>1, <1>4 DEF StateInv, Anew, Has, Booting
<1>9. Covered(st)'
  <2> SUFFICES ASSUME st.cursor # NoCursor, NEW e \in Entity, NEW l \in ScopeKeys(e),
                      Current(st, l), srow[e].rev <= st.cursor
               PROVE  HeldFor(st, e, l)'
    BY <1>1, <1>2, <1>3 DEF Covered
  <2>1. HeldFor(st, e, l) /\ l # k BY DEF StateInv, Covered
  <2>2. \A m \in members : m.scope = l => m \in members' BY <1>1, <2>1 DEF InScope
  <2>3. (\E m \in members' : m.entity = e) => rows'[e] = rows[e] BY <1>1 DEF Keep
  <2> QED BY <1>1, <2>1, <2>2, <2>3 DEF HeldFor, Booting
<1>10. Swept(st)'
  <2> SUFFICES ASSUME st.cursor # NoCursor, NEW m \in members', Current(st, m.scope),
                      m.scope \notin ScopeKeys(m.entity)
               PROVE  Leaving(st, m)'
    BY <1>2, <1>3 DEF Swept
  <2>1. Leaving(st, m) BY <1>1 DEF StateInv, Swept
  <2> QED BY <1>1, <1>4, <2>1 DEF Leaving, RecordOf, Booting
<1> QED BY <1>5, <1>6, <1>7, <1>8, <1>9, <1>10 DEF StateInv

\* Both states after a unit are the one it wrote.
LEMMA UnitInv ==
  ASSUME TypeOK, NEW st \in State, st = mem', saved' = mem', StateInv(st)'
  PROVE  (saved # NoState => StateInv(saved))' /\ (mem # NoState => StateInv(mem))'
         /\ saved' # NoState /\ mem' # NoState
BY SavedNext, MemNext, StateFields

LEMMA EvictInv ==
  ASSUME TypeOK, PullInv, NEW k \in Scope, NEW chunk \in SUBSET members, EvictChunk(k, chunk)
  PROVE  PullInv'
<1>1. /\ mem \in State /\ Has(mem, k) /\ resp \in Response /\ pc = "evict" /\ resp.grant[k] = 0
      /\ chunk \subseteq InScope(k) /\ mem' \in State /\ saved' = mem' /\ Alike(mem', mem)
  BY EvictFacts
<1>2. PICK st \in State : st = mem' BY <1>1
<1>3. StateInv(st) /\ ~Current(st, k)
  <2>1. StateInv(mem) BY <1>1, StateFields DEF PullInv
  <2>2. ~Current(mem, k) BY <1>1 DEF PullInv, Evicting, Gone, Has, Current
  <2> QED BY <1>1, <1>2, <2>1, <2>2, AlikeInv DEF Alike, Current
<1>4. StateInv(st)' BY <1>3, EvictState
<1>5. (saved # NoState => StateInv(saved))' /\ (mem # NoState => StateInv(mem))'
      /\ saved' # NoState /\ mem' # NoState
  BY <1>1, <1>2, <1>4, UnitInv
<1>6. /\ UNCHANGED <<srow, slog, grant, issued, pc>> /\ Newest' = Newest /\ members' = members \ chunk
      /\ resp' = IF Remaining(chunk) THEN resp ELSE [resp EXCEPT !.evicted = resp.evicted \cup {k}]
      /\ IsBatch(chunk, InScope(k))
  BY DEF EvictChunk, server, Newest, Keep
<1>7. Logged' /\ Issued' BY <1>6 DEF PullInv, Logged, Issued
<1>8. Finite'
  <2>1. IsFiniteSet(members \ chunk) BY FS_Difference DEF PullInv, Finite
  <2> QED BY <1>6, <2>1 DEF Finite
<1>9. InRun' BY <1>1, <1>5, <1>6 DEF InRun
<1>10. Evicting'
  <2>1. resp'.head = resp.head /\ resp'.grant = resp.grant
        /\ resp'.evicted \subseteq resp.evicted \cup {k} /\ (Remaining(chunk) => resp'.evicted = resp.evicted)
    BY <1>1, <1>6 DEF Response
  <2>2. \A l \in Gone' : l \in Gone /\ Aim(mem'.scopes[l]) = Aim(mem.scopes[l])
    BY <1>1, <2>1 DEF Gone, Alike, Has
  <2>3. \A l : InScope(l)' \subseteq InScope(l) \ chunk BY <1>6 DEF InScope
  <2>4. ~Remaining(chunk) => InScope(k)' = {}
    <3>1. IsFiniteSet(InScope(k)) BY FS_Subset DEF PullInv, Finite, InScope
    <3> QED BY <1>6, <2>3, <3>1, BatchFacts
  <2>5. \A l \in resp'.evicted : InScope(l)' = {}
    BY <1>1, <2>1, <2>3, <2>4 DEF PullInv, Evicting
  <2> QED BY <1>1, <1>6, <2>1, <2>2, <2>5 DEF PullInv, Evicting
<1> QED BY <1>5, <1>7, <1>8, <1>9, <1>10 DEF PullInv

LEMMA AdoptState ==
  ASSUME TypeOK, PullInv, AdoptScopes, NEW st, st = mem'
  PROVE  StateInv(st)
<1>1. /\ mem \in State /\ resp \in Response /\ pc = "evict" /\ Gone \subseteq resp.evicted
      /\ st \in State /\ st.revision = resp.grant
      /\ st.cursor = IF mem.cursor = NoCursor THEN resp.head ELSE mem.cursor
      /\ \A k \in Scope : st.scopes[k] = Reconciled(k)
  BY AdoptFacts
<1>2. StateInv(mem) BY <1>1, StateFields DEF PullInv
<1>3. /\ resp.head \in Nat /\ resp.head <= Newest /\ st.cursor # NoCursor
      /\ \A k \in Scope : resp.grant[k] \in Nat /\ resp.grant[k] <= issued
  BY <1>1, Bounds DEF PullInv, Evicting, Response, Revision, NoCursor
<1>4. \A m \in members : m.scope \in Scope /\ m.entity \in Entity /\ m.gen \in Nat BY DEF TypeOK, Member
<1>5. \A k \in Scope : /\ Has(st, k) <=> resp.grant[k] # 0
                       /\ Has(st, k) => Aim(st.scopes[k]) = resp.grant[k]
  BY <1>1, ReconciledFacts DEF Has
\* What is new is in a generation of its own, to be fetched from the first row.
<1>6. ASSUME NEW k \in Scope, Has(st, k), ~Has(mem, k)
      PROVE  st.scopes[k].gen = 1 /\ Booting(st, k) /\ st.scopes[k].boot.todo = Entity
  BY <1>1, <1>5, <1>6, ReconciledFacts DEF Booting
<1>7. ASSUME NEW k \in Scope, Has(st, k), Has(mem, k)
      PROVE  \/ /\ st.scopes[k].gen = mem.scopes[k].gen + 1
                /\ Booting(st, k) /\ st.scopes[k].boot.todo = Entity
             \/ st.scopes[k] = mem.scopes[k]
  BY <1>1, <1>5, <1>7, ReconciledFacts DEF Booting
<1>8. \A k \in Scope : Has(mem, k) => mem.scopes[k].gen \in Nat BY <1>1, StateFields, ScopeFields
<1>9. \A m \in members : IF Has(mem, m.scope) THEN m.gen <= mem.scopes[m.scope].gen
                         ELSE m.gen = 1 /\ <<m.entity, m.scope>> \in strays
  BY <1>2 DEF StateInv, Generations
<1>10. Revised(st) BY <1>1, <1>5 DEF Revised
<1>11. Past(st) BY <1>1, <1>2, <1>3, <1>5 DEF StateInv, Past
<1>12. Generations(st)
  <2> SUFFICES ASSUME NEW m \in members
               PROVE  IF Has(st, m.scope) THEN m.gen <= st.scopes[m.scope].gen
                      ELSE m.gen = 1 /\ <<m.entity, m.scope>> \in strays
    BY DEF Generations
  <2> DEFINE k == m.scope
  <2>1. k \in Scope /\ m.gen \in Nat BY <1>4
  <2>2. CASE Has(st, k) /\ Has(mem, k)
    <3>1. m.gen <= mem.scopes[k].gen /\ mem.scopes[k].gen \in Nat BY <1>8, <1>9, <2>2, <2>1
    <3>2. st.scopes[k].gen = mem.scopes[k].gen + 1 \/ st.scopes[k].gen = mem.scopes[k].gen
      BY <1>7, <2>2, <2>1
    <3>3. m.gen <= st.scopes[k].gen BY <2>1, <3>1, <3>2
    <3> QED BY <2>2, <3>3
  <2>3. CASE Has(st, k) /\ ~Has(mem, k)
    <3>1. m.gen = 1 /\ st.scopes[k].gen = 1 BY <1>6, <1>9, <2>3, <2>1
    <3>2. m.gen <= st.scopes[k].gen BY <3>1
    <3> QED BY <2>3, <3>2
  <2>4. CASE ~Has(st, m.scope)
    <3>1. ~Has(mem, m.scope)
      BY <1>1, <1>4, <1>5, <2>4 DEF Gone, Has, PullInv, Evicting, InScope
    <3> QED BY <1>9, <2>4, <3>1
  <2> QED BY <2>2, <2>3, <2>4
<1>13. Anew(st) BY <1>3 DEF Anew
<1>14. Covered(st)
  <2> SUFFICES ASSUME NEW e \in Entity, NEW k \in ScopeKeys(e), Current(st, k), srow[e].rev <= st.cursor
               PROVE  HeldFor(st, e, k)
    BY DEF Covered
  <2>1. k \in Scope /\ Has(st, k) BY ServedRow DEF Current
  <2>2. CASE Booting(st, k) /\ st.scopes[k].boot.todo = Entity BY <2>2 DEF HeldFor
  <2>3. CASE Has(mem, k) /\ st.scopes[k] = mem.scopes[k]
    <3>1. Current(mem, k) BY <2>3 DEF Current
    <3>2. CASE mem.cursor = NoCursor BY <1>2, <2>1, <2>3, <3>2 DEF StateInv, Anew, HeldFor, Booting
    <3>3. CASE mem.cursor # NoCursor
      <4>1. HeldFor(mem, e, k) BY <1>1, <1>2, <3>1, <3>3 DEF StateInv, Covered
      <4> QED BY <2>3, <4>1 DEF HeldFor, Booting
    <3> QED BY <3>2, <3>3
  <2> QED BY <1>6, <1>7, <2>1, <2>2, <2>3
<1>15. Swept(st)
  <2> SUFFICES ASSUME NEW m \in members, Current(st, m.scope), m.scope \notin ScopeKeys(m.entity)
               PROVE  Leaving(st, m)
    BY DEF Swept
  <2>1. m.scope \in Scope /\ Has(st, m.scope) BY <1>4 DEF Current
  <2>2. CASE ~Has(mem, m.scope) BY <1>9, <2>2 DEF Leaving
  <2>3. CASE Has(mem, m.scope) /\ st.scopes[m.scope] = mem.scopes[m.scope]
    <3>1. Current(mem, m.scope) BY <2>3 DEF Current
    <3>2. CASE mem.cursor = NoCursor BY <1>2, <2>1, <2>3, <3>2 DEF StateInv, Anew, Leaving, Booting
    <3>3. CASE mem.cursor # NoCursor
      <4>1. Leaving(mem, m) BY <1>2, <3>1, <3>3 DEF StateInv, Swept
      <4> QED BY <1>1, <2>3, <3>3, <4>1 DEF Leaving, Booting
    <3> QED BY <3>2, <3>3
  <2>4. CASE Has(mem, m.scope) /\ st.scopes[m.scope].gen = mem.scopes[m.scope].gen + 1 /\ Booting(st, m.scope)
    <3>1. m.gen \in Nat /\ mem.scopes[m.scope].gen \in Nat BY <1>4, <1>8, <2>1, <2>4
    <3>2. m.gen <= mem.scopes[m.scope].gen BY <1>9, <2>4
    <3>3. st.scopes[m.scope].gen = mem.scopes[m.scope].gen + 1 BY <2>4
    <3>4. m.gen < st.scopes[m.scope].gen BY <3>1, <3>2, <3>3
    <3> QED BY <2>4, <3>4 DEF Leaving
  <2> QED BY <1>7, <2>1, <2>2, <2>3, <2>4
<1> QED BY <1>10, <1>11, <1>12, <1>13, <1>14, <1>15 DEF StateInv

LEMMA AdoptInv == ASSUME TypeOK, PullInv, AdoptScopes PROVE PullInv'
<1>1. /\ UNCHANGED Tables /\ Newest' = Newest /\ pc' = "pull" /\ saved' = mem' /\ mem' \in State
  BY AdoptFacts DEF AdoptScopes, server, Tables, Newest
<1>2. PICK st \in State : st = mem' BY <1>1
<1>3. StateInv(st)'
  <2>1. StateInv(st) BY <1>2, AdoptState
  <2> QED BY <1>1, <2>1, Unmoved
<1>4. (saved # NoState => StateInv(saved))' /\ (mem # NoState => StateInv(mem))'
      /\ saved' # NoState /\ mem' # NoState
  BY <1>1, <1>2, <1>3, UnitInv
<1>5. Logged' /\ Issued' /\ Finite' BY <1>1 DEF PullInv, Logged, Issued, Finite, Tables
<1>6. mem'.cursor # NoCursor BY AdoptFacts, Bounds DEF Response, NoCursor
<1>7. InRun' BY <1>1, <1>4, <1>6 DEF InRun
<1>8. Evicting' BY <1>1 DEF Evicting
<1> QED BY <1>4, <1>5, <1>7, <1>8 DEF PullInv

-----------------------------------------------------------------------------
(* Bootstrap. *)

\* What a page leaves: a member of the page's scope stays when its row was found, or
\* when it is of the generation that is being fetched.
LEMMA PageTables ==
  ASSUME TypeOK, NEW k \in Scope, NEW page \in SUBSET Entity, BootstrapPage(k, page)
  PROVE  /\ UNCHANGED <<srow, slog, grant, issued, resp>> /\ Newest' = Newest
         /\ members' \subseteq Added(k, page)
         /\ \A m \in members : m.scope # k => m \in members'
         /\ \A m \in members : m.scope = k /\ m.entity \notin Found(k, page) /\ m.gen >= mem.scopes[k].gen => m \in members'
         /\ \A e \in Found(k, page) : [entity |-> e, scope |-> k, gen |-> mem.scopes[k].gen] \in members'
         /\ \A e \in Entity : (\E m \in members' : m.entity = e) =>
              rows'[e] = IF e \in Found(k, page) THEN srow[e].rev ELSE rows[e]
         /\ mem.scopes[k].boot.todo \ page # {} => members' = Added(k, page)
         /\ ~Booting(mem', k) /\ Finite => members' \cap Stale(k, page) = {}
<1>1. mem \in State /\ Has(mem, k) /\ Paged(k, page) BY PageFacts
<1>2. PICK chunk \in SUBSET Stale(k, page) :
        /\ Keep(Added(k, page) \ chunk, HeldRows(k, page))
        /\ chunk # {} => mem.scopes[k].boot.todo \ page = {}
        /\ \/ Booting(mem', k)
           \/ IsFiniteSet(Stale(k, page)) => chunk = Stale(k, page)
  BY <1>1 DEF Paged
<1>3. mem.scopes[k].gen \in Nat BY <1>1, StateFields, ScopeFields
<1>4. members' = Added(k, page) \ chunk BY <1>2 DEF Keep
<1>5. \A m \in members : m.gen \in Nat BY DEF TypeOK, Member
<1>6. UNCHANGED <<srow, slog, grant, issued, resp>> /\ Newest' = Newest
  BY DEF BootstrapPage, server, Newest
<1>7. \A m \in Stale(k, page) : m.scope = k /\ m.gen < mem.scopes[k].gen BY DEF Stale
<1>8. \A m \in members : m.scope # k => m \in members' BY <1>4, <1>7 DEF Added
<1>9. \A m \in members : m.scope = k /\ m.entity \notin Found(k, page) /\ m.gen >= mem.scopes[k].gen => m \in members'
  BY <1>3, <1>4, <1>5, <1>7 DEF Added
<1>10. \A e \in Found(k, page) : [entity |-> e, scope |-> k, gen |-> mem.scopes[k].gen] \in members'
  <2> TAKE e \in Found(k, page)
  <2> DEFINE new == [entity |-> e, scope |-> k, gen |-> mem.scopes[k].gen]
  <2>1. new \in Added(k, page) BY DEF Added
  <2>2. new.gen = mem.scopes[k].gen OBVIOUS
  <2>3. new \notin chunk BY <1>3, <1>7, <2>2
  <2> QED BY <1>4, <2>1, <2>3
<1>11. \A e \in Entity : (\E m \in members' : m.entity = e) =>
              rows'[e] = IF e \in Found(k, page) THEN srow[e].rev ELSE rows[e]
  BY <1>2, <1>4 DEF Keep, HeldRows
<1>12. mem.scopes[k].boot.todo \ page # {} => members' = Added(k, page) BY <1>2, <1>4
<1>13. ASSUME ~Booting(mem', k), Finite PROVE members' \cap Stale(k, page) = {}
  <2> DEFINE all == {[entity |-> e, scope |-> k, gen |-> mem.scopes[k].gen] : e \in Found(k, page)}
  <2>1. Stale(k, page) \subseteq members
    <3>1. \A m \in all : m.gen = mem.scopes[k].gen OBVIOUS
    <3>2. Stale(k, page) \cap all = {} BY <1>3, <1>7, <3>1
    <3> QED BY <3>2 DEF Stale, Added
  <2>2. IsFiniteSet(Stale(k, page)) BY <1>13, <2>1, FS_Subset DEF Finite
  <2> QED BY <1>2, <1>4, <1>13, <2>2
<1> QED BY <1>4, <1>6, <1>8, <1>9, <1>10, <1>11, <1>12, <1>13

LEMMA PageState ==
  ASSUME TypeOK, PullInv, NEW k \in Scope, NEW page \in SUBSET Entity, BootstrapPage(k, page),
         NEW st, st = mem'
  PROVE  StateInv(st)'
<1> DEFINE F == Found(k, page)
           gen == mem.scopes[k].gen
           todo == mem.scopes[k].boot.todo
<1>1. /\ mem \in State /\ pc = "pull" /\ Has(mem, k) /\ Booting(mem, k)
      /\ strays' = StraysIn(members') \ (F \X {k})
      /\ st \in State /\ st.cursor = mem.cursor /\ st.revision = mem.revision
      /\ \A l \in Scope \ {k} : st.scopes[l] = mem.scopes[l]
      /\ Has(st, k) /\ st.scopes[k].gen = gen /\ Aim(st.scopes[k]) = Aim(mem.scopes[k])
      /\ \/ Booting(st, k) /\ st.scopes[k].boot.todo = todo \ page
         \/ ~Booting(st, k) /\ todo \ page = {}
  <2>1. Paged(k, page) BY PageFacts
  <2>2. /\ st \in State /\ st.cursor = mem.cursor /\ st.revision = mem.revision
        /\ \A l \in Scope \ {k} : st.scopes[l] = mem.scopes[l]
        /\ Has(st, k) /\ st.scopes[k].gen = gen /\ Aim(st.scopes[k]) = Aim(mem.scopes[k])
    BY <2>1 DEF Paged
  <2>3. \/ Booting(st, k) /\ st.scopes[k].boot.todo = todo \ page
        \/ ~Booting(st, k) /\ todo \ page = {}
    BY <2>1 DEF Paged
  <2> QED BY <2>2, <2>3, PageFacts DEF F
<1>2. StateInv(mem) /\ st.cursor # NoCursor BY <1>1, StateFields DEF PullInv, InRun
<1>3. /\ UNCHANGED <<srow, slog, grant, issued>> /\ Newest' = Newest
      /\ members' \subseteq Added(k, page)
      /\ \A m \in members : m.scope # k => m \in members'
      /\ \A m \in members : m.scope = k /\ m.entity \notin F /\ m.gen >= gen => m \in members'
      /\ \A e \in F : [entity |-> e, scope |-> k, gen |-> gen] \in members'
      /\ \A e \in Entity : (\E m \in members' : m.entity = e) =>
              rows'[e] = IF e \in F THEN srow[e].rev ELSE rows[e]
      /\ ~Booting(st, k) => members' \cap Stale(k, page) = {}
  BY <1>1, PageTables DEF PullInv, Booting
<1>4. \A e : ScopeKeys(e)' = ScopeKeys(e) BY <1>3 DEF ScopeKeys, Granted
<1>5. /\ \A l \in Scope : Has(st, l) <=> Has(mem, l)
      /\ \A l \in Scope : Has(st, l) => Aim(st.scopes[l]) = Aim(mem.scopes[l]) /\ st.scopes[l].gen = mem.scopes[l].gen
      /\ \A l \in Scope \ {k} : Booting(st, l) <=> Booting(mem, l)
  BY <1>1 DEF Has, Booting
<1>6. \A l \in Scope : Current(st, l)' <=> Current(mem, l) BY <1>3, <1>5 DEF Current, Has
<1>7. gen \in Nat /\ \A m \in members : m.scope \in Scope /\ m.entity \in Entity /\ m.gen \in Nat
  BY <1>1, StateFields, ScopeFields DEF TypeOK, Member
\* A member is an old one, of another scope or of a row that was not found, or brought by the page.
<1>8. ASSUME NEW m \in members'
      PROVE  \/ m \in members /\ ~(m.scope = k /\ m.entity \in F)
                /\ (<<m.entity, m.scope>> \in strays => <<m.entity, m.scope>> \in strays')
             \/ m.entity \in F /\ m.scope = k /\ m.gen = gen
  <2>1. CASE m \in members /\ ~(m.scope = k /\ m.entity \in F)
    <3>1. <<m.entity, m.scope>> \notin F \X {k} BY <2>1
    <3>2. <<m.entity, m.scope>> \in strays => <<m.entity, m.scope>> \in StraysIn(members') BY DEF StraysIn
    <3> QED BY <1>1, <2>1, <3>1, <3>2
  <2>2. CASE \E e \in F : m = [entity |-> e, scope |-> k, gen |-> gen] BY <2>2
  <2> QED BY <1>3, <2>1, <2>2 DEF Added
<1>9. F \subseteq Entity /\ F \subseteq page /\ \A e \in F : k \in ScopeKeys(e) BY DEF Found
<1> HIDE DEF F
<1>10. Revised(st)' BY <1>1, <1>2, <1>5 DEF StateInv, Revised, Has
<1>11. Past(st)' BY <1>1, <1>2, <1>3, <1>5 DEF StateInv, Past, Has
<1>12. Generations(st)'
  <2> SUFFICES ASSUME NEW m \in members'
               PROVE  IF Has(st, m.scope) THEN m.gen <= st.scopes[m.scope].gen
                      ELSE m.gen = 1 /\ <<m.entity, m.scope>> \in strays'
    BY DEF Generations, Has
  <2>1. CASE m \in members /\ (<<m.entity, m.scope>> \in strays => <<m.entity, m.scope>> \in strays')
    <3>1. m.scope \in Scope BY <1>7, <2>1
    <3>2. IF Has(mem, m.scope) THEN m.gen <= mem.scopes[m.scope].gen
          ELSE m.gen = 1 /\ <<m.entity, m.scope>> \in strays
      BY <1>2, <2>1 DEF StateInv, Generations
    <3> QED BY <1>5, <2>1, <3>1, <3>2
  <2>2. CASE m.scope = k /\ m.gen = gen
    <3>1. m.gen <= gen BY <1>7, <2>2
    <3> QED BY <1>1, <2>2, <3>1
  <2> QED BY <1>8, <2>1, <2>2
<1>13. Anew(st)' BY <1>2 DEF Anew
<1>14. Covered(st)'
  <2> SUFFICES ASSUME NEW e \in Entity, NEW l \in ScopeKeys(e), Current(mem, l), srow[e].rev <= mem.cursor
               PROVE  HeldFor(st, e, l)'
    BY <1>1, <1>3, <1>4, <1>6, ServedRow DEF Covered
  <2>1. HeldFor(mem, e, l) /\ l \in Scope /\ Has(mem, l) BY <1>1, <1>2, ServedRow DEF StateInv, Covered, Current
  <2>2. CASE l # k
    <3>1. CASE Booting(mem, l) /\ e \in mem.scopes[l].boot.todo
      BY <1>1, <1>5, <2>1, <2>2, <3>1 DEF HeldFor, Booting
    <3>2. CASE ~(Booting(mem, l) /\ e \in mem.scopes[l].boot.todo)
      <4>1. PICK m \in members : m.entity = e /\ m.scope = l /\ (Booting(mem, l) => m.gen >= mem.scopes[l].gen)
        BY <2>1, <3>2 DEF HeldFor
      <4>2. m \in members' BY <1>3, <2>2, <4>1
      <4>3. rows'[e] = srow[e].rev BY <1>3, <2>1, <3>2, <4>1, <4>2 DEF HeldFor
      <4>4. Booting(st, l) => m.gen >= st.scopes[l].gen BY <1>1, <1>5, <2>1, <2>2, <4>1
      <4> QED BY <1>3, <4>1, <4>2, <4>3, <4>4 DEF HeldFor, Booting
    <3> QED BY <3>1, <3>2
  <2>3. CASE l = k /\ e \in F
    <3> DEFINE m == [entity |-> e, scope |-> k, gen |-> gen]
    <3>1. m \in members' /\ m.entity = e /\ m.scope = l /\ m.gen = gen BY <1>3, <2>3
    <3> HIDE DEF m
    <3>2. rows'[e] = srow[e].rev BY <1>3, <2>3, <3>1
    <3>3. m.gen >= st.scopes[l].gen BY <1>1, <1>7, <2>3, <3>1
    <3> QED BY <1>3, <3>1, <3>2, <3>3 DEF HeldFor, Booting
  <2>4. CASE l = k /\ e \notin F
    <3>1. e \notin page BY <2>4 DEF F, Found
    <3>2. CASE e \in todo
      BY <1>1, <2>4, <3>1, <3>2 DEF HeldFor, Booting
    <3>3. CASE e \notin todo
      <4>1. PICK m \in members : m.entity = e /\ m.scope = l /\ m.gen >= gen
        BY <1>1, <2>1, <2>4, <3>3 DEF HeldFor
      <4>2. m \in members' BY <1>3, <2>4, <4>1
      <4>3. rows'[e] = srow[e].rev BY <1>3, <2>1, <2>4, <3>3, <4>1, <4>2 DEF HeldFor
      <4>4. m.gen >= st.scopes[l].gen BY <1>1, <2>4, <4>1
      <4> QED BY <1>3, <4>1, <4>2, <4>3, <4>4 DEF HeldFor, Booting
    <3> QED BY <3>2, <3>3
  <2> QED BY <2>2, <2>3, <2>4
<1>15. Swept(st)'
  <2> SUFFICES ASSUME NEW m \in members', Current(st, m.scope)', m.scope \notin ScopeKeys(m.entity)
               PROVE  Leaving(st, m)'
    BY <1>4 DEF Swept
  <2>1. ~(m.entity \in F /\ m.scope = k) BY <1>9
  <2>2. m \in members /\ (<<m.entity, m.scope>> \in strays => <<m.entity, m.scope>> \in strays')
    BY <1>8, <2>1
  <2>3. m.scope \in Scope /\ Current(mem, m.scope) /\ Has(mem, m.scope) BY <1>6, <1>7, <2>2 DEF Current
  <2>4. Leaving(mem, m) BY <1>1, <1>2, <2>2, <2>3 DEF StateInv, Swept
  <2>5. CASE <<m.entity, m.scope>> \in strays BY <2>2, <2>5 DEF Leaving
  <2>6. CASE RecordOf(mem.cursor, m.entity, m.scope) BY <1>1, <1>3, <2>6 DEF Leaving, RecordOf
  <2>7. CASE Booting(mem, m.scope) /\ m.gen < mem.scopes[m.scope].gen
    <3>1. CASE m.scope # k BY <1>1, <1>5, <2>3, <2>7, <3>1 DEF Leaving, Booting
    <3>2. CASE m.scope = k
      <4>1. m \in Stale(k, page) BY <1>3, <2>7, <3>2 DEF Stale
      <4>2. Booting(st, k) BY <1>3, <4>1
      <4> QED BY <1>1, <2>7, <3>2, <4>2 DEF Leaving, Booting
    <3> QED BY <3>1, <3>2
  <2> QED BY <2>4, <2>5, <2>6, <2>7 DEF Leaving
<1> QED BY <1>10, <1>11, <1>12, <1>13, <1>14, <1>15 DEF StateInv

LEMMA ImageFinite ==
  ASSUME NEW S, IsFiniteSet(S), NEW f, f = [x \in S |-> f[x]]
  PROVE  IsFiniteSet({f[x] : x \in S})
<1> DEFINE T == {f[x] : x \in S}
<1>1. f \in Surjection(S, T) BY DEF Surjection
<1> QED BY <1>1, FS_Surjection

LEMMA PageFinite ==
  ASSUME Finite, NEW k \in Scope, NEW page \in SUBSET Entity, members' \subseteq Added(k, page)
  PROVE  Finite'
<1> DEFINE f == [e \in Found(k, page) |-> [entity |-> e, scope |-> k, gen |-> mem.scopes[k].gen]]
           old == {m \in members : ~(m.scope = k /\ m.entity \in Found(k, page))}
           new == {f[e] : e \in Found(k, page)}
<1>1. IsFiniteSet(Found(k, page)) BY PullConstants, FS_Subset DEF Found
<1>2. IsFiniteSet(new)
  <2>1. f = [e \in Found(k, page) |-> f[e]] OBVIOUS
  <2> HIDE DEF f
  <2> QED BY <1>1, <2>1, ImageFinite
<1>3. IsFiniteSet(old) BY FS_Subset DEF Finite
<1>4. Added(k, page) = old \cup new BY DEF Added
<1>5. IsFiniteSet(old \cup new)
  <2> HIDE DEF old, new
  <2> QED BY <1>2, <1>3, FS_Union
<1>6. IsFiniteSet(members') BY <1>4, <1>5, FS_Subset
<1> QED BY <1>6 DEF Finite

LEMMA BootstrapInv == ASSUME TypeOK, PullInv, Bootstrap PROVE PullInv'
<1>1. ASSUME NEW k \in Scope, BootstrapGone(k) PROVE PullInv'
  <2>1. pc = "pull" /\ pc' = "scopes" /\ UNCHANGED <<Tables, saved, mem, resp>> /\ Newest' = Newest
    BY <1>1 DEF BootstrapGone, server, local, Tables, Newest
  <2>2. \A st \in State : StateInv(st) => StateInv(st)' BY <2>1, Unmoved
  <2>3. (saved # NoState => StateInv(saved))' /\ (mem # NoState => StateInv(mem))'
    BY <2>1, <2>2, KeptStates
  <2>4. Logged' /\ InRun' /\ Issued' /\ Finite' BY <2>1 DEF PullInv, Logged, InRun, Issued, Finite, Tables
  <2>5. Evicting' BY <2>1 DEF Evicting
  <2> QED BY <2>3, <2>4, <2>5 DEF PullInv
<1>2. ASSUME NEW k \in Scope, NEW page \in SUBSET Entity, BootstrapPage(k, page) PROVE PullInv'
  <2>1. /\ mem \in State /\ mem' \in State /\ saved' = mem' /\ pc = "pull" /\ pc' = pc /\ mem'.cursor = mem.cursor
    BY <1>2, PageFacts DEF Paged
  <2>2. PICK st \in State : st = mem' BY <2>1
  <2>3. StateInv(st)' BY <1>2, <2>2, PageState
  <2>4. (saved # NoState => StateInv(saved))' /\ (mem # NoState => StateInv(mem))'
        /\ saved' # NoState /\ mem' # NoState
    BY <2>1, <2>2, <2>3, UnitInv
  <2>5. UNCHANGED <<srow, slog, grant, issued, resp>> /\ Newest' = Newest /\ members' \subseteq Added(k, page)
    BY <1>2, PageTables
  <2>6. Logged' /\ Issued' BY <2>5 DEF PullInv, Logged, Issued
  <2>7. InRun' BY <2>1, <2>4 DEF PullInv, InRun
  <2>8. Finite' BY <2>5, PageFinite DEF PullInv
  <2>9. Evicting' BY <2>1 DEF Evicting
  <2> QED BY <2>4, <2>6, <2>7, <2>8, <2>9 DEF PullInv
<1> QED BY <1>1, <1>2 DEF Bootstrap

-----------------------------------------------------------------------------
(* Changes. *)

LEMMA ExpireState ==
  ASSUME TypeOK, PullInv, ExpireCursor, NEW st, st = mem'
  PROVE  StateInv(st)
<1>1. /\ mem \in State /\ st \in State /\ st.cursor = NoCursor /\ st.revision = mem.revision
      /\ \A k \in Scope : /\ Has(st, k) <=> Has(mem, k)
                          /\ Has(mem, k) => st.scopes[k] = Rebootstrapped(mem.scopes[k])
  BY ExpireFacts DEF Has
<1>2. StateInv(mem) BY <1>1, StateFields DEF PullInv
<1>3. \A m \in members : m.scope \in Scope /\ m.gen \in Nat BY DEF TypeOK, Member
<1>4. ASSUME NEW k \in Scope, Has(mem, k)
      PROVE  /\ mem.scopes[k].gen \in Nat /\ st.scopes[k].gen = mem.scopes[k].gen + 1
             /\ Aim(st.scopes[k]) = Aim(mem.scopes[k])
             /\ Booting(st, k) /\ st.scopes[k].boot.todo = Entity
  BY <1>1, <1>4, StateFields, ScopeFields, RebootstrappedType DEF Booting
<1>5. ASSUME NEW m \in members, Has(mem, m.scope) PROVE m.gen < st.scopes[m.scope].gen
  <2>1. m.gen \in Nat /\ m.scope \in Scope /\ m.gen <= mem.scopes[m.scope].gen
    BY <1>2, <1>3, <1>5 DEF StateInv, Generations
  <2>2. mem.scopes[m.scope].gen \in Nat /\ st.scopes[m.scope].gen = mem.scopes[m.scope].gen + 1
    BY <1>4, <1>5, <2>1
  <2> QED BY <2>1, <2>2
<1>6. Revised(st) BY <1>1, <1>2, <1>4 DEF StateInv, Revised
<1>7. NoCursor <= Newest BY LogType DEF NoCursor
<1>8. Past(st) BY <1>1, <1>2, <1>4, <1>7 DEF StateInv, Past
<1>9. Generations(st)
  <2> SUFFICES ASSUME NEW m \in members
               PROVE  IF Has(st, m.scope) THEN m.gen <= st.scopes[m.scope].gen
                      ELSE m.gen = 1 /\ <<m.entity, m.scope>> \in strays
    BY DEF Generations
  <2>1. CASE Has(mem, m.scope)
    <3>1. m.gen < st.scopes[m.scope].gen /\ m.gen \in Nat BY <1>3, <1>5, <2>1
    <3>2. st.scopes[m.scope].gen \in Nat BY <1>3, <1>4, <2>1
    <3>3. m.gen <= st.scopes[m.scope].gen BY <3>1, <3>2
    <3> QED BY <1>1, <1>3, <2>1, <3>3
  <2>2. CASE ~Has(mem, m.scope) BY <1>1, <1>2, <1>3, <2>2 DEF StateInv, Generations
  <2> QED BY <2>1, <2>2
<1>10. Anew(st) BY <1>1, <1>3, <1>4, <1>5 DEF Anew
<1>11. Covered(st) /\ Swept(st) BY <1>1 DEF Covered, Swept
<1> QED BY <1>6, <1>8, <1>9, <1>10, <1>11 DEF StateInv

\* Every record up to the new cursor that the account may see is of a row the page names.
LEMMA PageNames ==
  ASSUME TypeOK, NEW last \in 0..Newest, ReadChanges(last),
         NEW i \in Records(mem.cursor), i <= mem'.cursor
  PROVE  slog[i].entity \in Named(last)
<1>1. mem'.cursor = (IF Done(last) THEN Newest ELSE last) BY ReadFacts
<1>2. CASE Done(last) BY <1>2 DEF Done, Named
<1>3. CASE ~Done(last) BY <1>1, <1>3 DEF Named
<1> QED BY <1>2, <1>3

\* The record of a row's last change, as the account sees it.
LEMMA LastRecord ==
  ASSUME TypeOK, Logged, NEW e \in Entity, NEW k \in ScopeKeys(e), NEW c \in Nat, srow[e].rev > c
  PROVE  srow[e].rev \in Records(c) /\ slog[srow[e].rev].entity = e
<1>1. srow[e] # Absent /\ k \in srow[e].scopes /\ k \in Granted BY DEF ScopeKeys
<1>2. srow[e].rev \in Nat /\ srow[e].rev <= Newest /\ Newest \in Nat
  BY <1>1, RowFields, LogType DEF Logged
<1>3. srow[e].rev > 0 /\ srow[e].rev \in (c + 1)..Newest BY <1>2
<1>4. slog[srow[e].rev].entity = e /\ k \in slog[srow[e].rev].scopes BY <1>1, <1>3 DEF Logged
<1> QED BY <1>1, <1>3, <1>4 DEF Records

LEMMA ReadState ==
  ASSUME TypeOK, PullInv, NEW last \in 0..Newest, ReadChanges(last), NEW st, st = mem'
  PROVE  StateInv(st)'
<1> DEFINE N == Named(last)
           U == Upserts(last)
           c == mem.cursor
<1>1. /\ mem \in State /\ c # NoCursor /\ c \in Nat /\ N \subseteq Entity
  BY ReadCursor
<1>2. /\ st \in State /\ st.revision = mem.revision /\ st.scopes = mem.scopes
      /\ members' = {m \in members : m.entity \notin N} \cup U
      /\ strays' = {p \in strays : p[1] \notin N}
                     \cup {<<m.entity, m.scope>> : m \in {u \in U : mem.scopes[u.scope] = Unsaved}}
      /\ \A e \in Entity : rows'[e] = IF e \notin N THEN rows[e]
                                      ELSE IF ScopeKeys(e) # {} THEN srow[e].rev
                                      ELSE IF srow[e] = Absent THEN Absent ELSE Hidden(e, rows)
  <2>1. rows' = [e \in Entity |-> IF e \notin N THEN rows[e]
                                  ELSE IF ScopeKeys(e) # {} THEN srow[e].rev
                                  ELSE IF srow[e] = Absent THEN Absent ELSE Hidden(e, rows)]
    BY ReadFacts
  <2> HIDE DEF N, U
  <2>2. \A e \in Entity : rows'[e] = IF e \notin N THEN rows[e]
                                      ELSE IF ScopeKeys(e) # {} THEN srow[e].rev
                                      ELSE IF srow[e] = Absent THEN Absent ELSE Hidden(e, rows)
    BY <2>1, Zenon
  <2> QED BY <2>2, ReadFacts DEF N, U
<1>3. /\ UNCHANGED <<srow, slog, grant, issued>> /\ Newest' = Newest
  BY DEF ReadChanges, server, Newest
<1>4. StateInv(mem) BY <1>1, StateFields DEF PullInv
<1>5. st.cursor \in Nat /\ st.cursor <= Newest /\ st.cursor # NoCursor
  <2>1. st.cursor = (IF Done(last) THEN Newest ELSE last) BY ReadFacts
  <2> QED BY <2>1, LogType DEF NoCursor
<1>6. \A i \in Records(c) : i <= st.cursor => slog[i].entity \in N BY PageNames
<1>7. \A m \in U : /\ m \in Member /\ m.entity \in N /\ m.scope \in ScopeKeys(m.entity)
                   /\ m.gen = GenerationOf(m.scope)
  BY UpsertType
<1>8. \A e \in N : \A k \in ScopeKeys(e) : [entity |-> e, scope |-> k, gen |-> GenerationOf(k)] \in U
  BY DEF U, Upserts
<1>9. \A k \in Scope : Has(mem, k) => ~Booting(mem, k) BY ReadFacts DEF Pending, Has, Booting
<1> HIDE DEF N, U
<1>10. \A e : ScopeKeys(e)' = ScopeKeys(e) BY <1>3 DEF ScopeKeys, Granted
<1>11. \A k \in Scope : Current(st, k)' <=> Current(mem, k) BY <1>2, <1>3 DEF Current, Has
<1>12. \A m \in members : m.scope \in Scope /\ m.entity \in Entity BY DEF TypeOK, Member
<1>13. \A m \in members' :
         \/ /\ m \in members /\ m.entity \notin N
            /\ <<m.entity, m.scope>> \in strays => <<m.entity, m.scope>> \in strays'
         \/ m \in U
  BY <1>2
<1>14. Revised(st)' BY <1>2, <1>4 DEF StateInv, Revised, Has
<1>15. Past(st)' BY <1>2, <1>3, <1>4, <1>5 DEF StateInv, Past, Has
<1>16. Generations(st)'
  <2> SUFFICES ASSUME NEW m \in members'
               PROVE  IF Has(mem, m.scope) THEN m.gen <= mem.scopes[m.scope].gen
                      ELSE m.gen = 1 /\ <<m.entity, m.scope>> \in strays'
    BY <1>2 DEF Generations, Has
  <2>1. CASE m \in members /\ (<<m.entity, m.scope>> \in strays => <<m.entity, m.scope>> \in strays')
    BY <1>4, <2>1 DEF StateInv, Generations
  <2>2. CASE m \in U
    <3>1. m.gen = GenerationOf(m.scope) /\ m.gen \in Nat BY <1>7, <2>2 DEF Member
    <3>2. CASE Has(mem, m.scope)
      <4>1. m.gen = mem.scopes[m.scope].gen BY <3>1, <3>2 DEF GenerationOf, Has
      <4>2. m.gen <= m.gen BY <3>1
      <4> QED BY <3>2, <4>1, <4>2
    <3>3. CASE ~Has(mem, m.scope)
      <4>1. m.gen = 1 BY <3>1, <3>3 DEF GenerationOf, Has
      <4>2. <<m.entity, m.scope>> \in strays' BY <1>2, <2>2, <3>3 DEF Has
      <4> QED BY <3>3, <4>1, <4>2
    <3> QED BY <3>2, <3>3
  <2> QED BY <1>13, <2>1, <2>2
<1>17. Anew(st)' BY <1>5 DEF Anew
<1>18. Covered(st)'
  <2> SUFFICES ASSUME NEW e \in Entity, NEW k \in ScopeKeys(e), Current(mem, k), srow[e].rev <= st.cursor
               PROVE  /\ rows'[e] = srow[e].rev
                      /\ \E m \in members' : m.entity = e /\ m.scope = k
    <3>1. \A k \in Scope : Current(mem, k) => ~Booting(st, k) BY <1>2, <1>9 DEF Current, Booting
    <3> QED BY <1>3, <1>5, <1>10, <1>11, <3>1, ServedRow DEF Covered, HeldFor, Booting
  <2>1. k \in Scope /\ srow[e] # Absent /\ srow[e].rev \in Nat BY ServedRow, RowFields
  <2>2. CASE e \in N
    <3>1. [entity |-> e, scope |-> k, gen |-> GenerationOf(k)] \in members' BY <1>2, <1>8, <2>2
    <3> QED BY <1>2, <2>2, <3>1
  <2>3. CASE e \notin N
    <3>1. srow[e].rev <= c
      <4>1. SUFFICES ASSUME srow[e].rev > c PROVE FALSE BY <1>1, <2>1
      <4>2. srow[e].rev \in Records(c) /\ slog[srow[e].rev].entity = e
        BY <1>1, <4>1, LastRecord DEF PullInv
      <4> QED BY <1>6, <2>3, <4>2
    <3>2. HeldFor(mem, e, k) BY <1>1, <1>4, <3>1 DEF StateInv, Covered
    <3>3. ~Booting(mem, k) BY <1>9, <2>1 DEF Current
    <3>4. rows[e] = srow[e].rev /\ \E m \in members : m.entity = e /\ m.scope = k
      BY <3>2, <3>3 DEF HeldFor
    <3> QED BY <1>2, <2>3, <3>4
  <2> QED BY <2>2, <2>3
<1>19. Swept(st)'
  <2> SUFFICES ASSUME NEW m \in members', Current(st, m.scope)', m.scope \notin ScopeKeys(m.entity)
               PROVE  Leaving(st, m)'
    BY <1>10 DEF Swept
  <2>1. /\ m \in members /\ m.entity \notin N
        /\ <<m.entity, m.scope>> \in strays => <<m.entity, m.scope>> \in strays'
    BY <1>7, <1>13
  <2>2. m.scope \in Scope /\ Current(mem, m.scope) /\ ~Booting(mem, m.scope)
    BY <1>9, <1>11, <1>12, <2>1 DEF Current
  <2>3. Leaving(mem, m) BY <1>1, <1>4, <2>1, <2>2 DEF StateInv, Swept
  <2>4. CASE <<m.entity, m.scope>> \in strays BY <2>1, <2>4 DEF Leaving
  <2>5. CASE RecordOf(c, m.entity, m.scope)
    <3>1. PICK i \in 1..Newest : i > c /\ slog[i].entity = m.entity /\ m.scope \in slog[i].scopes
      BY <2>5 DEF RecordOf
    <3>2. m.scope \in Granted
      <4>1. mem.scopes[m.scope] \in ScopeState /\ Aim(mem.scopes[m.scope]) = grant[m.scope]
        BY <1>1, <2>2, StateFields DEF Current
      <4>2. grant[m.scope] # 0 BY <4>1, ScopeFields
      <4> QED BY <2>2, <4>2 DEF Granted
    <3>3. i \in Records(c)
      <4>1. i \in (c + 1)..Newest BY <1>1, <3>1, LogType
      <4> QED BY <3>1, <3>2, <4>1 DEF Records
    <3>4. i > st.cursor BY <1>5, <1>6, <2>1, <3>1, <3>3
    <3>5. RecordOf(st.cursor, m.entity, m.scope)' BY <1>3, <3>1, <3>4 DEF RecordOf
    <3> QED BY <3>5 DEF Leaving
  <2> QED BY <2>2, <2>3, <2>4, <2>5 DEF Leaving
<1> QED BY <1>14, <1>15, <1>16, <1>17, <1>18, <1>19 DEF StateInv

LEMMA ReadFinite ==
  ASSUME TypeOK, Finite, NEW last \in 0..Newest, ReadChanges(last)
  PROVE  Finite'
<1> DEFINE f == [p \in Entity \X Scope |-> [entity |-> p[1], scope |-> p[2], gen |-> GenerationOf(p[2])]]
           all == {f[p] : p \in Entity \X Scope}
<1>1. IsFiniteSet(Entity \X Scope) BY PullConstants, FS_Product
<1>2. IsFiniteSet(all)
  <2>1. f = [p \in Entity \X Scope |-> f[p]] OBVIOUS
  <2> HIDE DEF f
  <2> QED BY <1>1, <2>1, ImageFinite
<1>3. Upserts(last) \subseteq all
  <2> HIDE DEF all
  <2>1. ASSUME NEW e \in Named(last), NEW k \in ScopeKeys(e)
        PROVE  [entity |-> e, scope |-> k, gen |-> GenerationOf(k)] \in all
    <3>1. <<e, k>> \in Entity \X Scope BY ReadCursor, ServedRow
    <3>2. f[<<e, k>>] = [entity |-> e, scope |-> k, gen |-> GenerationOf(k)] BY <3>1
    <3> QED BY <3>1, <3>2 DEF all
  <2>2. ASSUME NEW u \in Upserts(last) PROVE u \in all
    <3>1. PICK e \in Named(last) : u \in {[entity |-> e, scope |-> k, gen |-> GenerationOf(k)] : k \in ScopeKeys(e)}
      BY DEF Upserts
    <3>2. PICK k \in ScopeKeys(e) : u = [entity |-> e, scope |-> k, gen |-> GenerationOf(k)] BY <3>1
    <3> QED BY <2>1, <3>2
  <2> QED BY <2>2
<1>4. IsFiniteSet(Upserts(last)) BY <1>2, <1>3, FS_Subset
<1>5. IsFiniteSet({m \in members : m.entity \notin Named(last)}) BY FS_Subset DEF Finite
<1>6. members' = {m \in members : m.entity \notin Named(last)} \cup Upserts(last) BY ReadFacts
<1>7. IsFiniteSet(members') BY <1>4, <1>5, <1>6, FS_Union
<1> QED BY <1>7 DEF Finite

LEMMA ChangesInv == ASSUME TypeOK, PullInv, Changes PROVE PullInv'
<1>1. CASE ExpireCursor
  <2>1. /\ mem' \in State /\ saved' = mem' /\ pc = "pull" /\ pc' = "scopes" /\ UNCHANGED Tables /\ Newest' = Newest
    BY <1>1, ExpireFacts DEF ExpireCursor, server, Tables, Newest
  <2>2. PICK st \in State : st = mem' BY <2>1
  <2>3. StateInv(st)'
    <3>1. StateInv(st) BY <1>1, <2>2, ExpireState
    <3> QED BY <2>1, <3>1, Unmoved
  <2>4. (saved # NoState => StateInv(saved))' /\ (mem # NoState => StateInv(mem))'
        /\ saved' # NoState /\ mem' # NoState
    BY <2>1, <2>2, <2>3, UnitInv
  <2>5. Logged' /\ Issued' /\ Finite' BY <2>1 DEF PullInv, Logged, Issued, Finite, Tables
  <2>6. InRun' BY <2>1, <2>4 DEF InRun
  <2>7. Evicting' BY <2>1 DEF Evicting
  <2> QED BY <2>4, <2>5, <2>6, <2>7 DEF PullInv
<1>2. ASSUME NEW last \in 0..Newest, ReadChanges(last) PROVE PullInv'
  <2>1. /\ mem' \in State /\ saved' = mem' /\ pc' \in {"scopes", "finish", "pull"}
        /\ UNCHANGED <<srow, slog, grant, issued>> /\ Newest' = Newest
    BY <1>2, ReadFacts DEF ReadChanges, server, Newest
  <2>2. PICK st \in State : st = mem' BY <2>1
  <2>3. StateInv(st)' BY <1>2, <2>2, ReadState
  <2>4. (saved # NoState => StateInv(saved))' /\ (mem # NoState => StateInv(mem))'
        /\ saved' # NoState /\ mem' # NoState
    BY <2>1, <2>2, <2>3, UnitInv
  <2>5. Logged' /\ Issued' BY <2>1 DEF PullInv, Logged, Issued
  <2>6. mem'.cursor # NoCursor
    <3>1. mem'.cursor = Newest \/ mem'.cursor = last BY <1>2, ReadFacts
    <3> QED BY <3>1, LogType DEF NoCursor
  <2>7. InRun' BY <2>1, <2>4, <2>6 DEF InRun
  <2>8. Finite' BY <1>2, ReadFinite DEF PullInv
  <2>9. Evicting' BY <2>1 DEF Evicting
  <2> QED BY <2>4, <2>5, <2>7, <2>8, <2>9 DEF PullInv
<1> QED BY <1>1, <1>2 DEF Changes

-----------------------------------------------------------------------------
LEMMA InitInv == Init => PullInv
<1> SUFFICES ASSUME Init PROVE PullInv OBVIOUS
<1>1. saved = NoState /\ mem = NoState /\ members = {} /\ pc = "idle" BY DEF Init
<1>2. Logged
  <2>1. \A e \in Entity : srow[e] # Absent => srow[e].rev = 0 BY DEF Init
  <2>2. Newest = 0 BY DEF Init, Newest
  <2> QED BY <2>1, <2>2 DEF Logged
<1>3. Issued BY DEF Init, Issued
<1>4. Finite BY <1>1, FS_EmptySet DEF Finite
<1> QED BY <1>1, <1>2, <1>3, <1>4 DEF PullInv, InRun, Evicting

LEMMA NextInv == ASSUME FreshGrants, TypeOK, PullInv, [Next]_vars PROVE PullInv'
<1>1. CASE Server BY <1>1, ServerInv
<1>2. CASE StartRun BY <1>2, StartInv
<1>3. CASE Finish \/ Interrupt BY <1>3, EndInv
<1>4. CASE Reconcile
  <2>1. CASE FetchScopes BY <2>1, FetchInv
  <2>2. CASE Evict BY <2>2, EvictInv DEF Evict
  <2>3. CASE AdoptScopes BY <2>3, AdoptInv
  <2> QED BY <1>4, <2>1, <2>2, <2>3 DEF Reconcile
<1>5. CASE Bootstrap BY <1>5, BootstrapInv
<1>6. CASE Changes BY <1>6, ChangesInv
<1>7. CASE Outbox BY <1>7, OutboxInv
<1>8. CASE \E k \in Scope : RequestRebootstrap(k) BY <1>8, RequestInv
<1>9. CASE UNCHANGED vars BY <1>9, PurgeInv DEF vars, server, local, run, Tables
<1> QED BY <1>1, <1>2, <1>3, <1>4, <1>5, <1>6, <1>7, <1>8, <1>9 DEF Next

\* What the saved state and the state of a run promise about the tables, at every
\* step: a row at or before the cursor is held for each current scope or is still to
\* be fetched, a member that is not served any more is on its way out, and what has
\* no cursor is to be fetched anew.  A scope that came back with a fingerprint it had
\* before would pass for one that never went, so fingerprints are taken to be new.
THEOREM PullInvariant == FreshGrants /\ Spec => [](TypeOK /\ PullInv)
<1>1. Init => TypeOK /\ PullInv BY InitType, InitInv
<1>2. ASSUME FreshGrants PROVE TypeOK /\ PullInv /\ [Next]_vars => (TypeOK /\ PullInv)'
  BY <1>2, NextType, NextInv
<1>3. FreshGrants => (Spec => [](TypeOK /\ PullInv))
  <2> SUFFICES ASSUME FreshGrants PROVE Spec => [](TypeOK /\ PullInv) OBVIOUS
  <2>1. TypeOK /\ PullInv /\ [Next]_vars => (TypeOK /\ PullInv)' BY <1>2
  <2> QED BY <1>1, <2>1, PTL DEF Spec
<1> QED BY <1>3

-----------------------------------------------------------------------------
(* The properties. *)

\* While the saved state leads to no reconciliation, it is complete: its scopes are
\* the granted ones, under their fingerprints.
LEMMA Settled ==
  ASSUME TypeOK, PullInv, ~MustRescope
  PROVE  /\ saved \in State /\ saved # NoState /\ StateInv(saved)
         /\ saved.cursor # NoCursor /\ saved.cursor \in Nat
         /\ saved.revision = grant
         /\ \A k \in Scope : /\ Has(saved, k) => Current(saved, k)
                             /\ grant[k] # 0 => Has(saved, k)
<1>1. saved # NoState /\ saved \in State /\ saved.cursor # NoCursor /\ saved.revision = grant
  BY DEF MustRescope, TypeOK
<1>2. StateInv(saved) BY <1>1 DEF PullInv
<1>3. saved.revision # NoRevision BY <1>1, Sentinels DEF TypeOK
<1>4. saved.cursor \in Nat BY <1>1, StateFields, Bounds DEF NoCursor
<1>5. \A k \in Scope : grant[k] = IF Has(saved, k) THEN Aim(saved.scopes[k]) ELSE 0
  BY <1>1, <1>2, <1>3 DEF StateInv, Revised
<1> QED BY <1>1, <1>2, <1>4, <1>5 DEF Current

\* However a run was interrupted, a row the account is served is held with its latest
\* contents, or what is saved still leads to it: the next reconciliation, a record
\* after the cursor or a bootstrap that has not reached the row.
THEOREM NothingMissedHolds == FreshGrants /\ Spec => []NothingMissed
<1>1. ASSUME TypeOK, PullInv PROVE NothingMissed
  <2> SUFFICES ASSUME NEW e \in Entity, NEW k \in ScopeKeys(e), ~MustRescope, ~Recorded(e)
               PROVE  \/ rows[e] = srow[e].rev /\ \E m \in members : m.entity = e /\ m.scope = k
                      \/ Bootstrapping(k) /\ e \in saved.scopes[k].boot.todo
    BY DEF NothingMissed
  <2>1. k \in Scope /\ grant[k] # 0 /\ srow[e].rev \in Nat BY <1>1, ServedRow, RowFields
  <2>2. StateInv(saved) /\ saved.cursor # NoCursor /\ saved.cursor \in Nat /\ Current(saved, k)
    BY <1>1, <2>1, Settled
  <2>3. srow[e].rev <= saved.cursor
    <3>1. SUFFICES ASSUME srow[e].rev > saved.cursor PROVE FALSE BY <2>1, <2>2
    <3>2. srow[e].rev \in Records(saved.cursor) /\ slog[srow[e].rev].entity = e
      BY <1>1, <2>2, <3>1, LastRecord DEF PullInv
    <3> QED BY <3>2 DEF Recorded
  <2>4. HeldFor(saved, e, k) BY <2>2, <2>3 DEF StateInv, Covered
  <2> QED BY <2>2, <2>4 DEF HeldFor, Bootstrapping, Booting, Current, Has
<1> QED BY <1>1, PullInvariant, PTL

\* A row the account may not see any more stays on the device only while what is
\* saved still leads to its removal, or it came with a scope that was not saved yet.
THEOREM NothingLeftBehindHolds == FreshGrants /\ Spec => []NothingLeftBehind
<1>1. ASSUME TypeOK, PullInv PROVE NothingLeftBehind
  <2> SUFFICES ASSUME NEW e \in Entity, ScopeKeys(e) = {}, ~MustRescope, ~Recorded(e), Accounted(e)
               PROVE  Removable(e)
    BY DEF NothingLeftBehind, Removable
  <2>1. PICK m \in members : m.entity = e BY DEF Accounted
  <2>2. m.scope \in Scope BY <1>1 DEF TypeOK, Member
  <2>3. saved \in State /\ StateInv(saved) /\ saved.cursor # NoCursor /\ saved.cursor \in Nat BY <1>1, Settled
  <2>4. CASE <<e, m.scope>> \in strays BY <2>1, <2>4 DEF Removable
  <2>5. CASE <<e, m.scope>> \notin strays
    <3>1. Has(saved, m.scope) BY <2>1, <2>3, <2>5 DEF StateInv, Generations
    <3>2. Current(saved, m.scope) BY <1>1, <2>2, <3>1, Settled
    <3>3. Leaving(saved, m) BY <2>1, <2>3, <3>2 DEF StateInv, Swept
    <3>4. CASE RecordOf(saved.cursor, e, m.scope)
      <4>1. PICK i \in 1..Newest : i > saved.cursor /\ slog[i].entity = e /\ m.scope \in slog[i].scopes
        BY <3>4 DEF RecordOf
      <4>2. grant[m.scope] # 0 BY <2>2, <2>3, <3>2, StateFields, ScopeFields DEF Current
      <4>3. i \in (saved.cursor + 1)..Newest BY <2>3, <4>1
      <4>4. i \in Records(saved.cursor) BY <2>2, <4>1, <4>2, <4>3 DEF Records, Granted
      <4> QED BY <4>1, <4>4 DEF Recorded
    <3>5. CASE Booting(saved, m.scope) /\ m.gen < saved.scopes[m.scope].gen
      BY <2>1, <3>1, <3>5 DEF Removable, Bootstrapping, Booting, Has
    <3> QED BY <2>1, <2>5, <3>3, <3>4, <3>5 DEF Leaving
  <2> QED BY <2>4, <2>5
<1> QED BY <1>1, PullInvariant, PTL

\* What RowsAccounted says of a step, row by row.
RowStep(e) ==
  /\ InStep(e) /\ ~InStep(e)' => e \in guarded' /\ rows'[e] # Absent
  /\ rows[e] # Absent /\ rows'[e] = Absent =>
       /\ e \in guarded => srow[e] = Absent
       /\ Served(e) => MustRescope \/ Recorded(e)

\* Nothing moves.
LEMMA StillRow ==
  ASSUME NEW e \in Entity, UNCHANGED members, rows'[e] = rows[e]
  PROVE  RowStep(e)
BY DEF RowStep, InStep, Accounted

\* A row whose members are those it had, or fewer, and whose contents are kept with the last of them.
LEMMA LostRow ==
  ASSUME TypeOK, NEW e \in Entity, UNCHANGED guarded,
         \A m \in members' : m.entity = e => m \in members,
         rows'[e] = IF Accounted(e) /\ ~Accounted(e)' THEN Hidden(e, rows) ELSE rows[e],
         ~Accounted(e)' /\ Served(e) => MustRescope \/ Recorded(e)
  PROVE  RowStep(e)
<1>1. Accounted(e)' => Accounted(e) BY DEF Accounted
<1>2. Served(e) => Accounted(e) BY DEF Served, Accounted
<1>3. CASE Accounted(e) /\ ~Accounted(e)' BY <1>3 DEF RowStep, InStep, Hidden
<1>4. CASE ~(Accounted(e) /\ ~Accounted(e)') BY <1>1, <1>4 DEF RowStep, InStep
<1> QED BY <1>3, <1>4

LEMMA EvictRow ==
  ASSUME TypeOK, PullInv, NEW k \in Scope, NEW chunk \in SUBSET members, EvictChunk(k, chunk), NEW e \in Entity
  PROVE  RowStep(e)
<1>1. /\ mem \in State /\ Has(mem, k) /\ pc = "evict" /\ resp.grant[k] = 0
      /\ chunk \subseteq InScope(k) /\ Keep(members \ chunk, rows)
  BY EvictFacts
<1>2. members' = members \ chunk /\ guarded' = guarded BY <1>1 DEF Keep, EvictChunk
<1>3. rows'[e] = IF Accounted(e) /\ ~Accounted(e)' THEN Hidden(e, rows) ELSE rows[e]
  BY <1>1, <1>2 DEF Keep, Accounted
<1>4. ASSUME ~Accounted(e)', Served(e) PROVE MustRescope
  <2>1. k \in ScopeKeys(e) BY <1>1, <1>2, <1>4 DEF Served, Accounted, InScope
  <2>2. Aim(mem.scopes[k]) # grant[k] BY <1>1 DEF PullInv, Evicting, Gone, Has
  <2>3. StateInv(mem) BY <1>1, StateFields DEF PullInv
  <2>4. mem.revision # grant
    <3>1. CASE mem.revision = NoRevision BY <3>1, Sentinels DEF TypeOK
    <3>2. CASE mem.revision # NoRevision BY <1>1, <2>2, <2>3, <3>2 DEF StateInv, Revised
    <3> QED BY <3>1, <3>2
  <2> QED BY <1>1, <2>4 DEF PullInv, InRun, MustRescope
<1> QED BY <1>2, <1>3, <1>4, LostRow

LEMMA PageRow ==
  ASSUME TypeOK, PullInv, NEW k \in Scope, NEW page \in SUBSET Entity, BootstrapPage(k, page), NEW e \in Entity
  PROVE  RowStep(e)
<1> DEFINE F == Found(k, page)
<1>1. /\ mem \in State /\ pc = "pull" /\ Has(mem, k) /\ Booting(mem, k) /\ Paged(k, page)
  BY PageFacts
<1>2. PICK chunk \in SUBSET Stale(k, page) : Keep(Added(k, page) \ chunk, HeldRows(k, page)) BY <1>1 DEF Paged
<1>3. guarded' = guarded /\ F \subseteq Entity BY DEF BootstrapPage, Found
<1>4. CASE e \in F
  <2>1. Accounted(e)'
    <3> DEFINE m == [entity |-> e, scope |-> k, gen |-> mem.scopes[k].gen]
    <3>1. m \in members' /\ m.entity = e BY <1>4, PageTables
    <3> HIDE DEF m
    <3> QED BY <3>1 DEF Accounted
  <2>2. rows'[e] = srow[e].rev BY <1>4, <2>1, PageTables DEF Accounted
  <2>3. srow[e].rev \in Nat BY <1>4, RowFields, ServedRow DEF Found
  <2>4. rows'[e] # Absent BY <2>2, <2>3, Sentinels
  <2> QED BY <2>1, <2>4 DEF RowStep, InStep
<1>5. CASE e \notin F
  <2>1. \A m \in Added(k, page) : m.entity = e => m \in members BY <1>5 DEF Added
  <2>2. members' = Added(k, page) \ chunk BY <1>2 DEF Keep
  <2>3. rows'[e] = IF Accounted(e) /\ ~Accounted(e)' THEN Hidden(e, rows) ELSE rows[e]
    BY <1>2, <1>5, <2>2 DEF Keep, HeldRows, Hidden, Accounted
  <2>4. ASSUME ~Accounted(e)', Served(e), ~MustRescope, ~Recorded(e) PROVE FALSE
    <3>1. PICK m \in members : m.entity = e /\ m.scope \in ScopeKeys(e) BY <2>4 DEF Served
    <3>2. \A n \in members : n.entity = e => n \notin members' BY <2>4 DEF Accounted
    <3>3. m.scope = k /\ mem.scopes[k].boot.todo \ page = {}
      <4>1. m.scope = k BY <3>1, <3>2, PageTables
      <4>2. m \in Added(k, page) BY <1>5, <3>1 DEF Added
      <4> QED BY <3>1, <3>2, <4>1, <4>2, PageTables
    <3>4. e \notin mem.scopes[k].boot.todo
      BY <1>5, <3>1, <3>3 DEF Found
    <3>5. /\ saved # NoState /\ mem.cursor = saved.cursor /\ mem.revision = saved.revision
          /\ mem.cursor # NoCursor /\ mem.cursor \in Nat /\ mem.revision = grant /\ StateInv(mem)
      BY <1>1, <2>4, Settled, StateFields DEF PullInv, InRun
    <3>6. Current(mem, k)
      <4>1. mem.revision # NoRevision BY <3>5, Sentinels DEF TypeOK
      <4> QED BY <1>1, <3>5, <4>1 DEF StateInv, Revised, Current
    <3>7. srow[e].rev \in Nat BY <3>1, RowFields, ServedRow
    <3>8. srow[e].rev <= mem.cursor
      <4>1. SUFFICES ASSUME srow[e].rev > mem.cursor PROVE FALSE BY <3>5, <3>7
      <4>2. srow[e].rev \in Records(mem.cursor) /\ slog[srow[e].rev].entity = e
        BY <3>1, <3>5, <4>1, LastRecord DEF PullInv
      <4> QED BY <2>4, <3>5, <4>2 DEF Recorded
    <3>9. HeldFor(mem, e, k) BY <3>1, <3>3, <3>5, <3>6, <3>8 DEF StateInv, Covered
    <3>10. PICK n \in members : n.entity = e /\ n.scope = k /\ n.gen >= mem.scopes[k].gen
      BY <1>1, <3>4, <3>9 DEF HeldFor
    <3>11. n \in members' BY <1>5, <3>10, PageTables
    <3> QED BY <3>2, <3>10, <3>11
  <2> QED BY <1>3, <2>1, <2>2, <2>3, <2>4, LostRow
<1> QED BY <1>4, <1>5

LEMMA ReadRow ==
  ASSUME TypeOK, PullInv, NEW last \in 0..Newest, ReadChanges(last), NEW e \in Entity
  PROVE  RowStep(e)
<1>1. /\ members' = {m \in members : m.entity \notin Named(last)} \cup Upserts(last)
      /\ rows' = [f \in Entity |-> IF f \notin Named(last) THEN rows[f]
                                   ELSE IF ScopeKeys(f) # {} THEN srow[f].rev
                                   ELSE IF srow[f] = Absent THEN Absent ELSE Hidden(f, rows)]
  BY ReadFacts
<1>2. rows'[e] = IF e \notin Named(last) THEN rows[e]
                 ELSE IF ScopeKeys(e) # {} THEN srow[e].rev
                 ELSE IF srow[e] = Absent THEN Absent ELSE Hidden(e, rows)
  BY <1>1
<1>3. \A m \in Upserts(last) : m.entity \in Named(last) /\ m.scope \in ScopeKeys(m.entity) BY UpsertType
<1>4. guarded' = guarded BY DEF ReadChanges
<1>5. CASE e \notin Named(last)
  <2>1. Accounted(e)' <=> Accounted(e) BY <1>1, <1>3, <1>5 DEF Accounted
  <2> QED BY <1>2, <1>5, <2>1 DEF RowStep, InStep
<1>6. CASE e \in Named(last) /\ ScopeKeys(e) # {}
  <2>1. PICK k \in ScopeKeys(e) : TRUE BY <1>6
  <2>2. rows'[e] # Absent
    <3>1. srow[e].rev \in Nat BY <2>1, RowFields, ServedRow
    <3> QED BY <1>2, <1>6, <3>1, Sentinels
  <2>3. Accounted(e)'
    <3> DEFINE m == [entity |-> e, scope |-> k, gen |-> GenerationOf(k)]
    <3>1. m \in Upserts(last) /\ m.entity = e BY <1>6 DEF Upserts
    <3> HIDE DEF m
    <3> QED BY <1>1, <3>1 DEF Accounted
  <2> QED BY <2>2, <2>3 DEF RowStep, InStep
<1>7. CASE e \in Named(last) /\ ScopeKeys(e) = {}
  <2>1. ~Accounted(e)' /\ ~Served(e) BY <1>1, <1>3, <1>7 DEF Accounted, Served
  <2> QED BY <1>2, <1>4, <1>7, <2>1 DEF RowStep, InStep, Hidden
<1> QED BY <1>5, <1>6, <1>7

LEMMA OutboxRow ==
  ASSUME TypeOK, Outbox, NEW e \in Entity
  PROVE  RowStep(e)
<1>1. PICK f \in Entity : Edit(f) \/ Create(f) \/ Settle(f) BY DEF Outbox
<1>2. CASE Edit(f) \/ Settle(f) BY <1>2, StillRow DEF Edit, Settle
<1>3. CASE Create(f)
  <2>1. f \in guarded' /\ rows' = [rows EXCEPT ![f] = Local] /\ members' = members /\ Local # Absent
    BY <1>3, Sentinels DEF Create, Local
  <2>2. CASE e = f
    <3>1. rows'[e] = Local BY <2>1, <2>2 DEF TypeOK
    <3> QED BY <2>1, <2>2, <3>1 DEF RowStep
  <2>3. CASE e # f
    <3>1. rows'[e] = rows[e] BY <2>1, <2>3 DEF TypeOK
    <3> QED BY <2>1, <3>1, StillRow
  <2> QED BY <2>2, <2>3
<1> QED BY <1>1, <1>2, <1>3

LEMMA NextRow == ASSUME TypeOK, PullInv, [Next]_vars, NEW e \in Entity PROVE RowStep(e)
<1>1. CASE Server
  <2>1. UNCHANGED <<rows, members>>
    BY <1>1 DEF Server, ServerWrite, ServerGrant, ServerRevoke, ServerPurge, local
  <2> QED BY <2>1, StillRow
<1>2. CASE StartRun \/ Finish \/ Interrupt BY <1>2, StillRow DEF StartRun, Finish, Interrupt, local
<1>3. CASE Reconcile
  <2>1. CASE FetchScopes \/ AdoptScopes BY <2>1, StillRow DEF FetchScopes, AdoptScopes, local
  <2>2. CASE Evict BY <2>2, EvictRow DEF Evict
  <2> QED BY <1>3, <2>1, <2>2 DEF Reconcile
<1>4. CASE Bootstrap
  <2>1. ASSUME NEW k \in Scope, BootstrapGone(k) PROVE RowStep(e)
    BY <2>1, StillRow DEF BootstrapGone, local
  <2> QED BY <1>4, <2>1, PageRow DEF Bootstrap
<1>5. CASE Changes
  <2>1. CASE ExpireCursor BY <2>1, StillRow DEF ExpireCursor
  <2> QED BY <1>5, <2>1, ReadRow DEF Changes
<1>6. CASE Outbox BY <1>6, OutboxRow
<1>7. CASE \E k \in Scope : RequestRebootstrap(k) BY <1>7, StillRow DEF RequestRebootstrap
<1>8. CASE UNCHANGED vars BY <1>8, StillRow DEF vars, local
<1> QED BY <1>1, <1>2, <1>3, <1>4, <1>5, <1>6, <1>7, <1>8 DEF Next

\* Rows come and go with their membership, a protected row does not go while the
\* server has it, and a row that is still served goes only when the scope set or the
\* row has changed, in every step of every run.
THEOREM RowsAccountedHolds == FreshGrants /\ Spec => RowsAccounted
<1>1. TypeOK /\ PullInv /\ [Next]_vars =>
        [\A e \in Entity :
           /\ InStep(e) /\ ~InStep(e)' => e \in guarded' /\ rows'[e] # Absent
           /\ rows[e] # Absent /\ rows'[e] = Absent =>
                /\ e \in guarded => srow[e] = Absent
                /\ Served(e) => MustRescope \/ Recorded(e)]_vars
  BY NextRow DEF RowStep
<1> QED BY <1>1, PullInvariant, PTL DEF Spec, RowsAccounted


\* Between runs and in them, a client whose saved state leads nowhere any more agrees
\* with the server: it holds every row it is served, with its contents and its
\* membership, and of the rows that scopes account for nothing else, but for those
\* that came with a scope before it was saved.
UpToDateAgrees ==
  UpToDate =>
    \A e \in Entity :
      /\ \A k \in ScopeKeys(e) :
           rows[e] = srow[e].rev /\ \E m \in members : m.entity = e /\ m.scope = k
      /\ rows[e] # Absent /\ Accounted(e) /\ ScopeKeys(e) = {} =>
           \E m \in members : m.entity = e /\ <<e, m.scope>> \in strays

\* A client that is up to date is in agreement with the server.
THEOREM UpToDateAgreesHolds == FreshGrants /\ Spec => []UpToDateAgrees
<1>1. ASSUME TypeOK, NothingMissed, NothingLeftBehind PROVE UpToDateAgrees
  <2> SUFFICES ASSUME UpToDate, NEW e \in Entity
               PROVE  /\ \A k \in ScopeKeys(e) :
                           rows[e] = srow[e].rev /\ \E m \in members : m.entity = e /\ m.scope = k
                      /\ rows[e] # Absent /\ Accounted(e) /\ ScopeKeys(e) = {} =>
                           \E m \in members : m.entity = e /\ <<e, m.scope>> \in strays
    BY DEF UpToDateAgrees
  <2>1. ~MustRescope /\ ~Recorded(e) BY DEF UpToDate, Recorded
  <2>2. \A k \in Scope : ~Bootstrapping(k) BY DEF UpToDate
  <2>3. ScopeKeys(e) \subseteq Scope BY DEF ScopeKeys, Granted
  <2>4. \A m \in members : ~Bootstrapping(m.scope) BY <1>1, <2>2 DEF TypeOK, Member
  <2>5. \A k \in ScopeKeys(e) :
          rows[e] = srow[e].rev /\ \E m \in members : m.entity = e /\ m.scope = k
    BY <1>1, <2>1, <2>2, <2>3 DEF NothingMissed
  <2>6. ASSUME rows[e] # Absent, Accounted(e), ScopeKeys(e) = {}
        PROVE  \E m \in members : m.entity = e /\ <<e, m.scope>> \in strays
    BY <1>1, <2>1, <2>4, <2>6 DEF NothingLeftBehind, Removable
  <2> QED BY <2>5, <2>6
<1>2. FreshGrants /\ Spec => []TypeOK BY TypeCorrect
<1> QED BY <1>1, <1>2, NothingMissedHolds, NothingLeftBehindHolds, PTL

\* The promise that HoldsAll states, and that an interrupted eviction breaks when a
\* scope comes back with a fingerprint it had before, holds when none does.
THEOREM HoldsAllIfFresh == FreshGrants /\ Spec => []HoldsAll
<1>1. ASSUME NothingMissed PROVE HoldsAll
  <2> SUFFICES ASSUME UpToDate, NEW e \in Entity, ScopeKeys(e) # {} PROVE rows[e] = srow[e].rev
    BY DEF HoldsAll
  <2>1. PICK k \in ScopeKeys(e) : TRUE OBVIOUS
  <2>2. k \in Scope BY DEF ScopeKeys, Granted
  <2> QED BY <1>1, <2>1, <2>2 DEF NothingMissed, UpToDate, Recorded
<1> QED BY <1>1, NothingMissedHolds, PTL

-----------------------------------------------------------------------------
(* Every unit moves a run on: the core of Converges that is not about fairness. *)

\* There is always a batch to take, so neither an eviction nor a sweep waits for one.
THEOREM BatchExists ==
  ASSUME NEW candidates, IsFiniteSet(candidates)
  PROVE  \E chunk \in SUBSET candidates : IsBatch(chunk, candidates)
<1> DEFINE n == Cardinality(candidates)
           b == Min({BatchSize, n})
<1>1. n \in Nat BY FS_CardinalityType
<1>2. b = IF BatchSize <= n THEN BatchSize ELSE n BY <1>1, Bounds, MinOf
<1>3. b \in Nat /\ b <= n BY <1>1, <1>2, Bounds
<1>4. PICK f : f \in Bijection(1..n, candidates) BY FS_CardinalityType DEF ExistsBijection
<1> HIDE DEF n, b
<1> DEFINE chunk == {f[i] : i \in 1..b}
           g == [i \in 1..b |-> f[i]]
<1>5. 1..b \subseteq 1..n BY <1>1, <1>3
<1>6. f \in [1..n -> candidates] /\ \A i, j \in 1..n : f[i] = f[j] => i = j
  BY <1>4 DEF Bijection, Injection, IsInjective
<1>7. chunk \subseteq candidates BY <1>5, <1>6
<1>8. g \in Bijection(1..b, chunk)
  <2>1. g \in [1..b -> chunk] OBVIOUS
  <2>2. \A i, j \in 1..b : g[i] = g[j] => i = j BY <1>5, <1>6
  <2>3. \A y \in chunk : \E i \in 1..b : g[i] = y OBVIOUS
  <2> QED BY <2>1, <2>2, <2>3 DEF Bijection, Injection, Surjection, IsInjective
<1>9. IsFiniteSet(1..b) /\ Cardinality(1..b) = b BY <1>3, FS_Interval
<1>10. Cardinality(chunk) = b
  <2>1. ExistsBijection(1..b, chunk) BY <1>8 DEF ExistsBijection
  <2> QED BY <1>9, <2>1, FS_Bijection
<1> QED BY <1>7, <1>10 DEF IsBatch, b, n

\* A full batch is not empty.
LEMMA FullBatch == ASSUME NEW chunk, Remaining(chunk) PROVE chunk # {}
BY Bounds, FS_EmptySet DEF Remaining

\* What is left to do for a scope: the rows to evict, the rest of the snapshot and the
\* members of older generations.
Behind(k) == {m \in InScope(k) : m.gen < mem.scopes[k].gen}
Shrinks(before, after) == after \subseteq before /\ after # before

\* A chunk of an eviction takes members of the scope away, or is the last one.
EvictionAdvances(k) ==
  /\ \A l \in Scope \ {k} : InScope(l)' = InScope(l)
  /\ \/ resp' = resp /\ Shrinks(InScope(k), InScope(k)')
     \/ resp'.evicted = resp.evicted \cup {k} /\ InScope(k)' = {}

\* A bootstrap page takes rows off the snapshot, or, when that is read, members of
\* older generations off the scope, or ends the bootstrap with none of these left.
BootstrapAdvances(k) ==
  \/ Booting(mem', k) /\ Shrinks(mem.scopes[k].boot.todo, mem'.scopes[k].boot.todo)
  \/ /\ Booting(mem', k) /\ mem.scopes[k].boot.todo = {} /\ mem'.scopes[k].boot.todo = {}
     /\ Shrinks(Behind(k), Behind(k)')
  \/ ~Booting(mem', k) /\ Behind(k)' = {}

\* A page of changes leaves fewer records to read, or is the last of the run's pages.
ReadAdvances ==
  pc' = "pull" => mem.cursor < mem'.cursor /\ Shrinks(Records(mem.cursor), Records(mem.cursor)')

LEMMA EvictAdvances ==
  ASSUME TypeOK, Finite, NEW k \in Scope, NEW chunk \in SUBSET members, EvictChunk(k, chunk)
  PROVE  EvictionAdvances(k)
<1>1. members' = members \ chunk BY EvictFacts DEF Keep
<1>2. IsBatch(chunk, InScope(k)) /\ resp' = IF Remaining(chunk) THEN resp ELSE [resp EXCEPT !.evicted = @ \cup {k}]
  BY DEF EvictChunk
<1>3. IsFiniteSet(InScope(k)) BY FS_Subset DEF Finite, InScope
<1>4. chunk \subseteq InScope(k) /\ (~Remaining(chunk) => chunk = InScope(k)) BY <1>2, <1>3, BatchFacts
<1>5. \A l \in Scope \ {k} : InScope(l)' = InScope(l) BY <1>1, <1>4 DEF InScope
<1>6. InScope(k)' = InScope(k) \ chunk BY <1>1, <1>4 DEF InScope
<1>7. CASE Remaining(chunk)
  <2>1. chunk # {} BY <1>7, FullBatch
  <2> QED BY <1>2, <1>4, <1>5, <1>6, <1>7, <2>1 DEF EvictionAdvances, Shrinks
<1>8. CASE ~Remaining(chunk)
  <2>1. resp \in Response BY EvictFacts
  <2>2. resp' = [resp EXCEPT !.evicted = resp.evicted \cup {k}] BY <1>2, <1>8
  <2>3. resp'.evicted = resp.evicted \cup {k} BY <2>1, <2>2 DEF Response
  <2> QED BY <1>4, <1>5, <1>6, <1>8, <2>3 DEF EvictionAdvances
<1> QED BY <1>7, <1>8

LEMMA PageAdvances ==
  ASSUME TypeOK, Finite, NEW k \in Scope, NEW page \in SUBSET Entity, BootstrapPage(k, page)
  PROVE  BootstrapAdvances(k)
<1> DEFINE todo == mem.scopes[k].boot.todo
<1>1. /\ mem \in State /\ Has(mem, k) /\ Booting(mem, k) /\ page \subseteq todo
      /\ Has(mem', k) /\ mem'.scopes[k].gen = mem.scopes[k].gen
      /\ Booting(mem', k) => mem'.scopes[k].boot.todo = todo \ page
  BY PageFacts DEF Paged
<1>2. todo # {} => page # {} BY DEF BootstrapPage
<1>3. CASE Booting(mem', k) /\ todo # {} BY <1>1, <1>2, <1>3 DEF BootstrapAdvances, Shrinks
<1>4. CASE Booting(mem', k) /\ todo = {}
  <2>1. page = {} /\ Found(k, page) = {} BY <1>1, <1>4 DEF Found
  <2>2. Added(k, page) = members BY <2>1 DEF Added
  <2>3. Stale(k, page) = Behind(k) BY <2>2 DEF Stale, Behind, InScope
  <2>4. PICK chunk \in SUBSET Stale(k, page) :
          /\ Keep(Added(k, page) \ chunk, HeldRows(k, page))
          /\ mem' = [mem EXCEPT !.scopes[k] =
                       IF Remaining(chunk) THEN [mem.scopes[k] EXCEPT !.boot.todo = {}]
                       ELSE [mem.scopes[k] EXCEPT !.boot = NoBoot, !.fp = mem.scopes[k].boot.fp]]
    <3>1. mem.scopes[k].boot.todo \ page = {} BY <1>4
    <3> HIDE DEF todo
    <3> QED BY <3>1, PageParts
  <2>5. mem.scopes[k] \in ScopeState /\ mem.scopes[k].boot # NoBoot
    BY <1>1, StateFields DEF Booting
  <2>6. Remaining(chunk)
    <3> SUFFICES ASSUME ~Remaining(chunk) PROVE FALSE OBVIOUS
    <3> DEFINE next == [mem.scopes[k] EXCEPT !.boot = NoBoot, !.fp = mem.scopes[k].boot.fp]
    <3>1. next \in ScopeState /\ next.boot = NoBoot BY <2>5, BootedType
    <3>2. mem' = [mem EXCEPT !.scopes[k] = next] BY <2>4
    <3> HIDE DEF next
    <3>3. mem'.scopes[k] = next BY <1>1, <3>1, <3>2, ReplaceScope DEF Replaced
    <3> QED BY <1>4, <3>1, <3>3 DEF Booting
  <2>7. chunk # {} BY <2>6, FullBatch
  <2>8. members' = members \ chunk BY <2>2, <2>4 DEF Keep
  <2>9. Behind(k)' = Behind(k) \ chunk BY <1>1, <2>3, <2>8 DEF Behind, InScope
  <2>10. Shrinks(Behind(k), Behind(k)') BY <2>3, <2>7, <2>9 DEF Shrinks
  <2> QED BY <1>1, <1>4, <2>1, <2>10 DEF BootstrapAdvances
<1>5. CASE ~Booting(mem', k)
  <2>1. members' \subseteq Added(k, page) /\ members' \cap Stale(k, page) = {} BY <1>5, PageTables
  <2>2. Behind(k)' = {} BY <1>1, <2>1 DEF Behind, InScope, Stale
  <2> QED BY <1>5, <2>2 DEF BootstrapAdvances
<1> QED BY <1>3, <1>4, <1>5

LEMMA ChangesAdvance ==
  ASSUME TypeOK, NEW last \in 0..Newest, ReadChanges(last)
  PROVE  ReadAdvances
<1> DEFINE raw == Records(mem.cursor)
           page == {i \in raw : i <= last}
<1>1. /\ pc = "pull" /\ UNCHANGED server
      /\ last \in raw \/ (raw = {} /\ last = Newest)
      /\ mem' = [mem EXCEPT !.cursor = IF page = raw THEN Newest ELSE last]
      /\ pc' = IF grant # mem.revision THEN "scopes" ELSE IF page = raw THEN "finish" ELSE "pull"
  BY DEF ReadChanges, Unit
<1>2. mem \in State /\ mem.cursor \in Int BY <1>1, MemState, StateFields
<1> SUFFICES ASSUME pc' = "pull"
             PROVE  mem.cursor < mem'.cursor /\ Shrinks(raw, Records(mem.cursor)')
  BY DEF ReadAdvances
<1>3. page # raw BY <1>1
<1>4. last \in raw BY <1>1, <1>3
<1>5. mem'.cursor = last
  <2>1. mem' = [mem EXCEPT !.cursor = last] BY <1>1, <1>3
  <2> HIDE DEF raw, page
  <2> QED BY <1>2, <2>1 DEF State
<1>6. \A i \in Records(mem.cursor)' : i \in raw /\ i > last
  BY <1>1, <1>2, <1>4, <1>5 DEF Records, Newest, Granted, server
<1>7. last > mem.cursor BY <1>2, <1>4 DEF Records
<1>8. last \notin Records(mem.cursor)' BY <1>6, <1>4 DEF Records
<1> QED BY <1>4, <1>5, <1>6, <1>7, <1>8 DEF Shrinks

LEMMA NextFinite == ASSUME TypeOK, Finite, [Next]_vars PROVE Finite'
<1>1. CASE members' \subseteq members BY <1>1, FS_Subset DEF Finite
<1>2. CASE Bootstrap
  <2>1. ASSUME NEW k \in Scope, BootstrapGone(k) PROVE Finite' BY <1>1, <2>1 DEF BootstrapGone, local
  <2>2. ASSUME NEW k \in Scope, NEW page \in SUBSET Entity, BootstrapPage(k, page) PROVE Finite'
    BY <2>2, PageTables, PageFinite
  <2> QED BY <1>2, <2>1, <2>2 DEF Bootstrap
<1>3. CASE Changes
  <2>1. CASE ExpireCursor BY <1>1, <2>1 DEF ExpireCursor
  <2>2. ASSUME NEW last \in 0..Newest, ReadChanges(last) PROVE Finite' BY <2>2, ReadFinite
  <2> QED BY <1>3, <2>1, <2>2 DEF Changes
<1>4. CASE Reconcile
  <2>1. CASE Evict BY <1>1, <2>1, EvictFacts DEF Evict, Keep
  <2>2. CASE FetchScopes \/ AdoptScopes BY <1>1, <2>2 DEF FetchScopes, AdoptScopes, local
  <2> QED BY <1>4, <2>1, <2>2 DEF Reconcile
<1>5. CASE Server BY <1>1, <1>5 DEF Server, ServerWrite, ServerGrant, ServerRevoke, ServerPurge, local
<1>6. CASE StartRun \/ Finish \/ Interrupt BY <1>1, <1>6 DEF StartRun, Finish, Interrupt, local
<1>7. CASE Outbox BY <1>1, <1>7 DEF Outbox, Edit, Create, Settle
<1>8. CASE \E k \in Scope : RequestRebootstrap(k) BY <1>1, <1>8 DEF RequestRebootstrap
<1>9. CASE UNCHANGED vars BY <1>1, <1>9 DEF vars, local
<1> QED BY <1>2, <1>3, <1>4, <1>5, <1>6, <1>7, <1>8, <1>9 DEF Next

\* No unit of a run leaves what is left to do as it was: a chunk of an eviction takes
\* members away until the scope has none, a bootstrap page takes rows off the snapshot
\* and then older members off the scope until there are none, and a page of changes
\* takes records off the log ahead.  As long as the server stands still and the run is
\* not interrupted, it can only come to its end.
THEOREM RunAdvances ==
  Spec => [][/\ \A k \in Scope, chunk \in SUBSET members : EvictChunk(k, chunk) => EvictionAdvances(k)
             /\ \A k \in Scope, page \in SUBSET Entity : BootstrapPage(k, page) => BootstrapAdvances(k)
             /\ \A last \in 0..Newest : ReadChanges(last) => ReadAdvances]_vars
<1> DEFINE Advance ==
      /\ \A k \in Scope, chunk \in SUBSET members : EvictChunk(k, chunk) => EvictionAdvances(k)
      /\ \A k \in Scope, page \in SUBSET Entity : BootstrapPage(k, page) => BootstrapAdvances(k)
      /\ \A last \in 0..Newest : ReadChanges(last) => ReadAdvances
<1>1. Init => Finite BY FS_EmptySet DEF Init, Finite
<1>2. TypeOK /\ Finite /\ [Next]_vars => Finite' BY NextFinite
<1>3. TypeOK /\ Finite => Advance BY EvictAdvances, PageAdvances, ChangesAdvance
<1>4. TypeOK /\ Finite /\ [Next]_vars => [Advance]_vars BY <1>3
<1> HIDE DEF Advance
<1>5. Spec => [][Advance]_vars BY <1>1, <1>2, <1>4, TypeCorrect, PTL DEF Spec
<1> QED BY <1>5 DEF Advance
=============================================================================
