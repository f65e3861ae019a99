----------------------------- MODULE CertCache -----------------------------
(***************************************************************************)
(* The in-memory certificate cache of pkg/alexaverify/cache.go: a map from *)
(* canonical certificate URLs to parsed chains, each entry stamped with    *)
(* the value a counter had when its URL was first cached.  Every operation *)
(* holds certCache.mu from its first line to its last, so each is one      *)
(* action here.                                                            *)
(*                                                                         *)
(* The map is a function whose domain is the set of cached URLs.  A chain  *)
(* stands for the *parsedChain pointer: two fetches of one bundle make two *)
(* chains, and the test in Remove compares pointers.  The counter is a     *)
(* natural number: the uint64 of the code does not wrap within any run of  *)
(* the program.                                                            *)
(***************************************************************************)
EXTENDS Naturals, FiniteSets

CONSTANTS
  Urls,        \* canonical certificate URLs, the keys of the map
  Chains,      \* *parsedChain pointers
  NoChain,     \* the nil pointer: what get returns for an absent key
  MaxEntries   \* maxCertificateCacheEntries

ASSUME MaxEntriesAssumption == MaxEntries \in Nat \ {0}
ASSUME NoChainAssumption == NoChain \notin Chains

VARIABLES
  entries,     \* certCache.entries
  next         \* certCache.next

cacheVars == <<entries, next>>

Entry == [chain : Chains, order : Nat]

Cached == DOMAIN entries

-----------------------------------------------------------------------------
(* Operations                                                              *)

CacheInit ==
  /\ entries = [u \in {} |-> [chain |-> NoChain, order |-> 0]]
  /\ next = 0

\* certCache.get: the zero entry's nil chain when the key is absent.
Get(u) == IF u \in Cached THEN entries[u].chain ELSE NoChain

\* The entries an eviction may pick: the loop over the map keeps a candidate
\* of least order, and visits the map in an order Go leaves open.
Oldest == {k \in Cached : \A v \in Cached : entries[k].order <= entries[v].order}

\* Deliberate mistake: nothing is evicted.
EvictsNone == {Cached}

\* What is left of the map when a new URL is about to be inserted.
Survivors ==
  IF Cardinality(Cached) = MaxEntries
  THEN {Cached \ {k} : k \in Oldest}
  ELSE {Cached}

\* Deliberate mistakes: a replacement makes its URL newest, an insertion leaves
\* the counter alone.
NewestReplace(u, c) ==
  /\ u \in Cached
  /\ entries' = [entries EXCEPT ![u] = [chain |-> c, order |-> next]]
  /\ next' = next + 1

InsertWithoutCount(u, c) ==
  /\ u \notin Cached
  /\ \E kept \in Survivors :
       entries' = [v \in kept \cup {u} |->
                     IF v = u THEN [chain |-> c, order |-> next] ELSE entries[v]]
  /\ UNCHANGED next

\* A URL that is already cached gets the new chain and keeps its order.
Replace(u, c) ==
  /\ u \in Cached
  /\ entries' = [entries EXCEPT ![u].chain = c]
  /\ UNCHANGED next

\* A new URL enters last, after an eviction if the cache is full.
Insert(u, c) ==
  /\ u \notin Cached
  /\ \E kept \in Survivors :
       entries' = [v \in kept \cup {u} |->
                     IF v = u THEN [chain |-> c, order |-> next] ELSE entries[v]]
  /\ next' = next + 1

Put(u, c) == Replace(u, c) \/ Insert(u, c)

\* Deliberate mistake: the chain is cleared and its key stays in the map.
RemoveKeepsKey(u, c) ==
  /\ entries' = IF u \in Cached /\ entries[u].chain = c
                THEN [entries EXCEPT ![u].chain = NoChain]
                ELSE entries
  /\ UNCHANGED next

\* Deliberate mistake: the key goes whatever it names.
RemoveAnyChain(u, c) ==
  /\ entries' = [v \in Cached \ {u} |-> entries[v]]
  /\ UNCHANGED next

\* Deletes the key only while it still names this very chain.
Remove(u, c) ==
  /\ entries' = IF u \in Cached /\ entries[u].chain = c
                THEN [v \in Cached \ {u} |-> entries[v]]
                ELSE entries
  /\ UNCHANGED next

CacheNext == \E u \in Urls, c \in Chains : Put(u, c) \/ Remove(u, c)

CacheSpec == CacheInit /\ [][CacheNext]_cacheVars

-----------------------------------------------------------------------------
(* Properties                                                              *)

\* The shapes of the map and of the counter.
CacheTypeOK ==
  /\ Cached \subseteq Urls
  /\ entries \in [Cached -> Entry]
  /\ next \in Nat

\* No two URLs share an order, so an eviction has one candidate whatever the
\* order in which the loop visits the map, and the next insertion is newest.
OrdersDistinct ==
  /\ \A u, v \in Cached : entries[u].order = entries[v].order => u = v
  /\ \A u \in Cached : entries[u].order < next

\* The map never holds more than maxCertificateCacheEntries chains.  The code
\* evicts on equality with the limit, one entry at a time, so a map that once
\* got past the limit would grow for ever.
CacheBounded == IsFiniteSet(Cached) /\ Cardinality(Cached) <= MaxEntries

\* The cache stays within its bound and always knows what to evict next: neither
\* part is preserved without the other, since an insertion into a full map stays
\* within the bound only because one entry has the least order.
CacheInv == CacheTypeOK /\ OrdersDistinct /\ CacheBounded

\* The cache is a bounded FIFO: it implements FifoCache when `before' is read
\* off the orders.  Eviction therefore takes the URL that was inserted first,
\* replacements and removals in between notwithstanding.
Fifo == INSTANCE FifoCache WITH
  Capacity <- MaxEntries,
  content  <- [u \in Cached |-> entries[u].chain],
  before   <- {p \in Cached \X Cached : entries[p[1]].order < entries[p[2]].order}

ImplementsFifo == Fifo!Spec

=============================================================================
