-------------------------- MODULE CertCacheProofs --------------------------
(***************************************************************************)
(* Proofs about CertCache for every set of URLs and chains and every       *)
(* capacity.                                                               *)
(***************************************************************************)
EXTENDS CertCache, FiniteSetTheorems, TLAPS

-----------------------------------------------------------------------------
(* Lemmas                                                                  *)

\* What an insertion keeps is a part of the map with room for one more.
LEMMA SurvivorsLeaveRoom ==
  ASSUME CacheInv, NEW kept \in Survivors
  PROVE  /\ kept \subseteq Cached
         /\ IsFiniteSet(kept)
         /\ Cardinality(kept) < MaxEntries
<1>1. IsFiniteSet(Cached) /\ Cardinality(Cached) \in Nat /\ Cardinality(Cached) <= MaxEntries
  BY FS_CardinalityType DEF CacheInv, CacheBounded
<1>2. CASE Cardinality(Cached) = MaxEntries
  <2>1. PICK k \in Oldest : kept = Cached \ {k}
    BY <1>2 DEF Survivors
  <2>2. k \in Cached
    BY DEF Oldest
  <2>3. IsFiniteSet(kept) /\ Cardinality(kept) = Cardinality(Cached) - 1
    BY <1>1, <2>1, <2>2, FS_RemoveElement
  <2>4. QED
    BY <1>1, <1>2, <2>1, <2>3, MaxEntriesAssumption
<1>3. CASE Cardinality(Cached) # MaxEntries
  <2>1. kept = Cached
    BY <1>3 DEF Survivors
  <2>2. QED
    BY <1>1, <1>3, <2>1, MaxEntriesAssumption
<1>4. QED
  BY <1>2, <1>3

\* The empty map satisfies the invariant.
LEMMA CacheInvInit == CacheInit => CacheInv
<1> SUFFICES ASSUME CacheInit PROVE CacheInv
  OBVIOUS
<1>2. Cached = {} /\ next = 0
  BY DEF CacheInit, Cached
<1>3. CacheTypeOK
  BY DEF CacheInit, CacheTypeOK, Cached, Entry
<1>4. OrdersDistinct
  BY <1>2 DEF OrdersDistinct
<1>5. CacheBounded
  BY <1>2, FS_EmptySet, MaxEntriesAssumption DEF CacheBounded
<1>6. QED
  BY <1>3, <1>4, <1>5 DEF CacheInv

\* A replacement changes no key and no order.
LEMMA ReplaceKeepsInv ==
  ASSUME CacheInv, NEW u \in Urls, NEW c \in Chains, Replace(u, c)
  PROVE  CacheInv'
<1> USE DEF Cached
<1>1. /\ u \in Cached
      /\ entries' = [entries EXCEPT ![u].chain = c]
      /\ next' = next
  BY DEF Replace
<1>2. entries \in [Cached -> Entry] /\ Cached \subseteq Urls /\ next \in Nat
  BY DEF CacheInv, CacheTypeOK
<1>3. Cached' = Cached /\ entries' \in [Cached -> Entry]
  BY <1>1, <1>2 DEF Entry
<1>4. \A v \in Cached : entries'[v].order = entries[v].order
  BY <1>1, <1>2 DEF Entry
<1>5. CacheTypeOK'
  BY <1>1, <1>2, <1>3 DEF CacheTypeOK
<1>6. OrdersDistinct'
  BY <1>1, <1>3, <1>4 DEF CacheInv, OrdersDistinct
<1>7. CacheBounded'
  BY <1>3 DEF CacheInv, CacheBounded
<1>8. QED
  BY <1>5, <1>6, <1>7 DEF CacheInv

\* An insertion stays within the limit and stamps its entry with a new order.
LEMMA InsertKeepsInv ==
  ASSUME CacheInv, NEW u \in Urls, NEW c \in Chains, Insert(u, c)
  PROVE  CacheInv'
<1> USE DEF Cached
<1>1. PICK kept \in Survivors :
        entries' = [v \in kept \cup {u} |->
                      IF v = u THEN [chain |-> c, order |-> next] ELSE entries[v]]
  BY DEF Insert
<1>2. u \notin Cached /\ next' = next + 1
  BY DEF Insert
<1>3. entries \in [Cached -> Entry] /\ Cached \subseteq Urls /\ next \in Nat
  BY DEF CacheInv, CacheTypeOK
<1>4. kept \subseteq Cached /\ IsFiniteSet(kept) /\ Cardinality(kept) < MaxEntries
  BY SurvivorsLeaveRoom
<1>5. Cached' = kept \cup {u}
  BY <1>1
<1>6. [chain |-> c, order |-> next] \in Entry
  BY <1>3 DEF Entry
<1>7. CacheTypeOK'
  <2>1. entries' \in [kept \cup {u} -> Entry]
    BY <1>1, <1>3, <1>4, <1>6
  <2>2. QED
    BY <1>2, <1>3, <1>4, <1>5, <2>1 DEF CacheTypeOK
<1>8. OrdersDistinct'
  <2>1. entries'[u].order = next /\ u \notin kept
    BY <1>1, <1>2, <1>4
  <2>2. \A v \in kept : entries'[v].order = entries[v].order
    BY <1>1, <2>1
  <2>3. \A v \in kept : entries[v].order \in Nat /\ entries[v].order < next
    BY <1>3, <1>4 DEF CacheInv, OrdersDistinct, Entry
  <2>4. \A v, w \in kept : entries[v].order = entries[w].order => v = w
    BY <1>4 DEF CacheInv, OrdersDistinct
  <2>5. \A v \in kept \cup {u} : entries'[v].order < next'
    BY <1>2, <1>3, <2>1, <2>2, <2>3
  <2>6. ASSUME NEW v \in kept \cup {u}, NEW w \in kept \cup {u},
               entries'[v].order = entries'[w].order
        PROVE  v = w
    <3>1. CASE v \in kept /\ w \in kept
      BY <2>2, <2>4, <2>6, <3>1
    <3>2. CASE v = u /\ w \in kept
      BY <1>3, <2>1, <2>2, <2>3, <2>6, <3>2
    <3>3. CASE w = u /\ v \in kept
      BY <1>3, <2>1, <2>2, <2>3, <2>6, <3>3
    <3>4. QED
      BY <3>1, <3>2, <3>3
  <2>7. QED
    BY <1>5, <2>5, <2>6 DEF OrdersDistinct
<1>9. CacheBounded'
  <2>1. IsFiniteSet(kept \cup {u}) /\ Cardinality(kept \cup {u}) = Cardinality(kept) + 1
    BY <1>2, <1>4, FS_AddElement
  <2>2. QED
    BY <1>4, <1>5, <2>1, FS_CardinalityType, MaxEntriesAssumption DEF CacheBounded
<1>10. QED
  BY <1>7, <1>8, <1>9 DEF CacheInv

\* A removal leaves a part of the map.
LEMMA RemoveKeepsInv ==
  ASSUME CacheInv, NEW u \in Urls, NEW c \in Chains, Remove(u, c)
  PROVE  CacheInv'
<1> USE DEF Cached
<1>1. next' = next
  BY DEF Remove
<1>2. CASE u \in Cached /\ entries[u].chain = c
  <2>1. entries' = [v \in Cached \ {u} |-> entries[v]]
    BY <1>2 DEF Remove
  <2>2. entries \in [Cached -> Entry] /\ Cached \subseteq Urls /\ next \in Nat
    BY DEF CacheInv, CacheTypeOK
  <2>3. CacheTypeOK'
    BY <1>1, <2>1, <2>2 DEF CacheTypeOK
  <2>4. OrdersDistinct'
    BY <1>1, <2>1 DEF CacheInv, OrdersDistinct
  <2>5. CacheBounded'
    <3>1. IsFiniteSet(Cached \ {u}) /\ Cardinality(Cached \ {u}) = Cardinality(Cached) - 1
      BY <1>2, FS_RemoveElement DEF CacheInv, CacheBounded
    <3>2. Cached' = Cached \ {u}
      BY <2>1
    <3>3. QED
      BY <3>1, <3>2, FS_CardinalityType, MaxEntriesAssumption DEF CacheInv, CacheBounded
  <2>6. QED
    BY <2>3, <2>4, <2>5 DEF CacheInv
<1>3. CASE ~(u \in Cached /\ entries[u].chain = c)
  <2>1. entries' = entries
    BY <1>3 DEF Remove
  <2>2. QED
    BY <1>1, <2>1 DEF CacheInv, CacheTypeOK, OrdersDistinct, CacheBounded
<1>4. QED
  BY <1>2, <1>3

-----------------------------------------------------------------------------
(* Theorems                                                                *)

\* Whatever the callers store and remove, and in whatever order, the map keeps
\* its types, its orders stay distinct and below the counter, and it never holds
\* more than MaxEntries chains.
THEOREM CacheInvariant == CacheSpec => []CacheInv
<1>1. CacheInv /\ [CacheNext]_cacheVars => CacheInv'
  <2> SUFFICES ASSUME CacheInv, [CacheNext]_cacheVars PROVE CacheInv'
    OBVIOUS
  <2>1. CASE CacheNext
    <3>1. PICK u \in Urls, c \in Chains : Put(u, c) \/ Remove(u, c)
      BY <2>1 DEF CacheNext
    <3>2. CASE Replace(u, c)
      BY <3>2, ReplaceKeepsInv
    <3>3. CASE Insert(u, c)
      BY <3>3, InsertKeepsInv
    <3>4. CASE Remove(u, c)
      BY <3>4, RemoveKeepsInv
    <3>5. QED
      BY <3>1, <3>2, <3>3, <3>4 DEF Put
  <2>2. CASE UNCHANGED cacheVars
    BY <2>2 DEF cacheVars, CacheInv, CacheTypeOK, OrdersDistinct, CacheBounded, Cached
  <2>3. QED
    BY <2>1, <2>2
<1>2. QED
  BY CacheInvInit, <1>1, PTL DEF CacheSpec

\* Every key of the map is a URL and has a chain and an order: a removal leaves
\* no key behind without its chain.
THEOREM CacheTyped == CacheSpec => []CacheTypeOK
<1>1. CacheInv => CacheTypeOK
  BY DEF CacheInv
<1>2. QED
  BY <1>1, CacheInvariant, PTL

\* The limit of maxCertificateCacheEntries holds in every reachable state.
THEOREM CacheStaysBounded == CacheSpec => []CacheBounded
<1>1. CacheInv => CacheBounded
  BY DEF CacheInv
<1>2. QED
  BY <1>1, CacheInvariant, PTL

\* The orders identify the entries in every reachable state, so the eviction
\* loop has exactly one candidate.
THEOREM OrdersStayDistinct == CacheSpec => []OrdersDistinct
<1>1. CacheInv => OrdersDistinct
  BY DEF CacheInv
<1>2. QED
  BY <1>1, CacheInvariant, PTL

-----------------------------------------------------------------------------
(* The cache implements FifoCache                                          *)

\* The refinement mapping, spelled out.
content == [u \in Cached |-> entries[u].chain]
before == {p \in Cached \X Cached : entries[p[1]].order < entries[p[2]].order}

\* The abstract cache holds the same URLs.
LEMMA PresentIsCached == Fifo!Present = Cached
BY DEF Fifo!Present

\* The two modules count alike.
LEMMA SameCardinality == \A S : Fifo!Cardinality(S) = Cardinality(S)
BY DEF Fifo!Cardinality, Cardinality

\* An entry of least order entered before every other one.
LEMMA OldestIsFirst ==
  ASSUME CacheInv, NEW k \in Oldest
  PROVE  k \in Cached /\ Fifo!IsFirst(k)
<1>1. k \in Cached /\ \A v \in Cached : entries[k].order <= entries[v].order
  BY DEF Oldest
<1>2. \A v \in Cached : entries[v].order \in Nat
  BY DEF CacheInv, CacheTypeOK, Entry
<1>3. \A v \in Cached : entries[k].order = entries[v].order => k = v
  BY <1>1 DEF CacheInv, OrdersDistinct
<1>4. \A v \in Cached \ {k} : entries[k].order < entries[v].order
  BY <1>1, <1>2, <1>3
<1>5. QED
  BY <1>1, <1>4, PresentIsCached DEF Fifo!IsFirst

\* A replacement is Refresh.
LEMMA ReplaceIsRefresh ==
  ASSUME CacheInv, NEW u \in Urls, NEW c \in Chains, Replace(u, c)
  PROVE  Fifo!Refresh(u, c)
<1> USE DEF Cached
<1>1. /\ u \in Cached
      /\ entries' = [entries EXCEPT ![u].chain = c]
  BY DEF Replace
<1>2. entries \in [Cached -> Entry]
  BY DEF CacheInv, CacheTypeOK
<1>3. Cached' = Cached
  BY <1>1, <1>2
<1>4. \A v \in Cached : /\ entries'[v].order = entries[v].order
                        /\ entries'[v].chain = IF v = u THEN c ELSE entries[v].chain
  BY <1>1, <1>2 DEF Entry
<1>5. content' = [content EXCEPT ![u] = c]
  BY <1>1, <1>3, <1>4 DEF content
<1>6. before' = before
  BY <1>3, <1>4 DEF before
<1>7. QED
  BY <1>1, <1>5, <1>6, PresentIsCached DEF Fifo!Refresh, content, before

\* An insertion is Enter: the entry it drops is the first, and the new one
\* comes after all that stay.
LEMMA InsertIsEnter ==
  ASSUME CacheInv, NEW u \in Urls, NEW c \in Chains, Insert(u, c)
  PROVE  Fifo!Enter(u, c)
<1> USE DEF Cached
<1>1. PICK kept \in Survivors :
        entries' = [v \in kept \cup {u} |->
                      IF v = u THEN [chain |-> c, order |-> next] ELSE entries[v]]
  BY DEF Insert
<1>2. u \notin Cached
  BY DEF Insert
<1>3. kept \subseteq Cached
  BY SurvivorsLeaveRoom
<1>4. Cached' = kept \cup {u} /\ u \notin kept
  BY <1>1, <1>2, <1>3
<1>5. /\ \A v \in kept : entries'[v] = entries[v]
      /\ entries'[u].order = next /\ entries'[u].chain = c
  BY <1>1, <1>4
<1>6. \A v \in Cached : entries[v].order \in Nat /\ entries[v].order < next
  BY DEF CacheInv, CacheTypeOK, OrdersDistinct, Entry
<1>7. next \in Nat
  BY DEF CacheInv, CacheTypeOK
<1>8. Fifo!Keeps(kept)
  <2>1. CASE Cardinality(Cached) = MaxEntries
    <3>1. PICK k \in Oldest : kept = Cached \ {k}
      BY <2>1 DEF Survivors
    <3>2. QED
      BY <2>1, <3>1, OldestIsFirst, PresentIsCached, SameCardinality DEF Fifo!Keeps
  <2>2. CASE Cardinality(Cached) # MaxEntries
    <3>1. kept = Cached
      BY <2>2 DEF Survivors
    <3>2. Cardinality(Cached) < MaxEntries
      BY <2>2, FS_CardinalityType, MaxEntriesAssumption DEF CacheInv, CacheBounded
    <3>3. QED
      BY <3>1, <3>2, PresentIsCached, SameCardinality DEF Fifo!Keeps
  <2>3. QED
    BY <2>1, <2>2
<1>9. content' = [v \in kept \cup {u} |-> IF v = u THEN c ELSE content[v]]
  BY <1>3, <1>4, <1>5 DEF content
<1>10. before' = (before \cap (kept \X kept)) \cup (kept \X {u})
  <2>1. before' = {p \in (kept \cup {u}) \X (kept \cup {u}) :
                     entries'[p[1]].order < entries'[p[2]].order}
    BY <1>4 DEF before
  <2>2. ASSUME NEW v \in kept \cup {u}, NEW w \in kept \cup {u}
        PROVE  entries'[v].order < entries'[w].order
               <=> \/ v \in kept /\ w \in kept /\ entries[v].order < entries[w].order
                   \/ v \in kept /\ w = u
    <3>1. CASE v \in kept /\ w \in kept
      BY <1>4, <1>5, <3>1
    <3>2. CASE v \in kept /\ w = u
      BY <1>3, <1>4, <1>5, <1>6, <3>2
    <3>3. CASE v = u /\ w \in kept
      BY <1>3, <1>4, <1>5, <1>6, <1>7, <3>3
    <3>4. CASE v = u /\ w = u
      BY <1>4, <1>5, <1>7, <3>4
    <3>5. QED
      BY <3>1, <3>2, <3>3, <3>4
  <2>3. QED
    BY <1>3, <1>4, <2>1, <2>2 DEF before
<1>11. QED
  BY <1>2, <1>3, <1>8, <1>9, <1>10, PresentIsCached DEF Fifo!Enter, content, before

\* A removal that finds its chain is Leave, any other one changes nothing.
LEMMA RemoveIsLeave ==
  ASSUME CacheInv, NEW u \in Urls, NEW c \in Chains, Remove(u, c)
  PROVE  Fifo!Leave(u, c) \/ UNCHANGED <<content, before>>
<1> USE DEF Cached
<1>1. CASE u \in Cached /\ entries[u].chain = c
  <2>1. entries' = [v \in Cached \ {u} |-> entries[v]]
    BY <1>1 DEF Remove
  <2>2. Cached' = Cached \ {u} /\ \A v \in Cached \ {u} : entries'[v] = entries[v]
    BY <2>1
  <2>3. content' = [v \in Cached \ {u} |-> content[v]]
    BY <2>2 DEF content
  <2>4. before' = before \cap ((Cached \ {u}) \X (Cached \ {u}))
    BY <2>2 DEF before
  <2>5. content[u] = c
    BY <1>1 DEF content
  <2>6. QED
    BY <1>1, <2>3, <2>4, <2>5, PresentIsCached DEF Fifo!Leave, content, before
<1>2. CASE ~(u \in Cached /\ entries[u].chain = c)
  <2>1. entries' = entries
    BY <1>2 DEF Remove
  <2>2. QED
    BY <2>1 DEF content, before
<1>3. QED
  BY <1>1, <1>2

\* Eviction by least order is eviction in order of arrival: the cache with its
\* counter implements the cache that has none, for every capacity.
THEOREM CacheImplementsFifo == CacheSpec => ImplementsFifo
<1>1. CacheInit => Fifo!Init
  <2> SUFFICES ASSUME CacheInit PROVE Fifo!Init
    OBVIOUS
  <2>1. Cached = {}
    BY DEF CacheInit, Cached
  <2>2. QED
    BY <2>1, PresentIsCached DEF Fifo!Init
<1>2. CacheInv /\ [CacheNext]_cacheVars => [Fifo!Next]_<<content, before>>
  <2> SUFFICES ASSUME CacheInv, [CacheNext]_cacheVars
               PROVE  [Fifo!Next]_<<content, before>>
    OBVIOUS
  <2>1. CASE CacheNext
    <3>1. PICK u \in Urls, c \in Chains : Put(u, c) \/ Remove(u, c)
      BY <2>1 DEF CacheNext
    <3>2. CASE Replace(u, c)
      BY <3>2, ReplaceIsRefresh DEF Fifo!Next
    <3>3. CASE Insert(u, c)
      BY <3>3, InsertIsEnter DEF Fifo!Next
    <3>4. CASE Remove(u, c)
      BY <3>4, RemoveIsLeave DEF Fifo!Next
    <3>5. QED
      BY <3>1, <3>2, <3>3, <3>4 DEF Put
  <2>2. CASE UNCHANGED cacheVars
    BY <2>2 DEF cacheVars, content, before, Cached
  <2>3. QED
    BY <2>1, <2>2
<1>3. QED
  BY CacheInvariant, <1>1, <1>2, PTL DEF CacheSpec, ImplementsFifo, Fifo!Spec, content, before

=============================================================================
