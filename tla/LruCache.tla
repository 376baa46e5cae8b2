------------------------------ MODULE LruCache ------------------------------
(***************************************************************************)
(* internal/cache/lru_cache.LRUCache: a map from keys to list nodes beside *)
(* the doubly linked list that orders the nodes by recency.  Every method  *)
(* runs under the cache's own mutex from its first line to its last, so a  *)
(* method is one action.  The two structures must agree after every one.   *)
(***************************************************************************)
EXTENDS LruList

CONSTANTS
  Keys, Values,
  Capacity,   \* any value NewLRUCache accepts, 0 included
  None,       \* the zero value Get returns beside ok = false
  Refused,    \* the error of Delete
  Panic       \* a nil dereference that leaves the method

ASSUME CapacityIsNat == Capacity \in Nat
ASSUME RepliesDistinct ==
  /\ None \notin Values /\ Refused \notin Values /\ Panic \notin Values
  /\ None # Refused /\ None # Panic /\ Refused # Panic

VARIABLES
  lruList,  \* the list
  cache,    \* the map, Nil where a key is absent
  content,  \* Key and Value of every node, None before it is allocated
  reply     \* what the last method returned

vars == <<lruList, cache, content, reply>>

Seqs == INSTANCE SequencesExt

Entries == [key : Keys, value : Values]

TypeOK ==
  /\ lruList \in Lists
  /\ cache \in [Keys -> Nodes \cup {Nil}]
  /\ content \in [Nodes -> Entries \cup {None}]
  /\ reply \in Values \cup {None, Refused, Panic}

Init ==
  /\ lruList = NewLRUList
  /\ cache = [k \in Keys |-> Nil]
  /\ content = [n \in Nodes |-> None]
  /\ reply = None

\* Wrong variants, for mutation: Set overwriting without unlinking the old node,
\* testing the capacity after the insertion, dropping a node but not its key.
TrimmedNever(k) == lruList

MustEvictLate(k) == (IF cache[k] = Nil THEN lruList ELSE Remove(lruList, cache[k])).len > Capacity

PurgedNever(k) == cache

\* The list once Set has unlinked the node of a key it overwrites.
Trimmed(k) == IF cache[k] = Nil THEN lruList ELSE Remove(lruList, cache[k])

MustEvict(k) == Trimmed(k).len = Capacity

\* PopBack on an empty list hands Remove a nil node.
SetPanics(k) == MustEvict(k) /\ Back(Trimmed(k)) = Nil

\* The list and the map once Set has made room for k.
Evicted(k) == IF MustEvict(k) THEN Remove(Trimmed(k), Back(Trimmed(k))) ELSE Trimmed(k)
Purged(k)  == IF MustEvict(k)
              THEN [cache EXCEPT ![content[Back(Trimmed(k))].key] = Nil] ELSE cache

Set(k, v) ==
  IF SetPanics(k)
  THEN reply' = Panic /\ UNCHANGED <<lruList, cache, content>>
  ELSE \E n \in Nodes \ lruList.owned :
         /\ lruList' = PushFront(Evicted(k), n)
         /\ cache' = [Purged(k) EXCEPT ![k] = n]
         /\ content' = [content EXCEPT ![n] = [key |-> k, value |-> v]]
         /\ reply' = None

Get(k) ==
  /\ IF cache[k] = Nil
     THEN reply' = None /\ UNCHANGED lruList
     ELSE /\ lruList' = MoveToFront(lruList, cache[k])
          /\ reply' = content[cache[k]].value
  /\ UNCHANGED <<cache, content>>

Delete(k) ==
  /\ IF cache[k] = Nil
     THEN reply' = Refused /\ UNCHANGED <<lruList, cache>>
     ELSE /\ lruList' = Remove(lruList, cache[k])
          /\ cache' = [cache EXCEPT ![k] = Nil]
          /\ reply' = None
  /\ UNCHANGED content

Mapped == {cache[k] : k \in {x \in Keys : cache[x] # Nil}}

\* The loop of Flush, when the map's random order is this one.
FlushLoop(order) == Seqs!FoldLeft(Remove, lruList, order)

Flush ==
  /\ \E order \in Seqs!SetToSeqs(Mapped) : lruList' = FlushLoop(order)
  /\ cache' = [k \in Keys |-> Nil]
  /\ reply' = None
  /\ UNCHANGED content

Next ==
  \/ \E k \in Keys, v \in Values : Set(k, v)
  \/ \E k \in Keys : Get(k) \/ Delete(k)
  \/ Flush

Spec == Init /\ [][Next]_vars

-----------------------------------------------------------------------------
\* The read-only methods.
Contains(k) == cache[k] # Nil
Size        == lruList.len
Empty       == lruList.len = 0

\* The map and the list hold the same nodes, each under its own key: no
\* sequence of Set, Get, Delete and Flush leaves an entry in one and not the
\* other (a node only in the list could never be evicted by key; a node only
\* in the map would be served after its eviction).
MapMatchesList ==
  /\ \A k \in Keys : cache[k] # Nil => cache[k] \in Members(lruList)
                                       /\ content[cache[k]].key = k
  /\ \A n \in Members(lruList) : cache[content[n].key] = n

\* The links of the list are intact and its counter is right after every
\* method: next and prev are inverse, and no removed node keeps a pointer.
ListIntact == Linked(lruList) /\ Counted(lruList)

\* Size() never exceeds the capacity, and counts exactly the keys that
\* Contains() reports: len is a counter of its own, kept by insert and Remove.
SizeBounded ==
  /\ Size <= Capacity
  /\ Size = Cardinality({k \in Keys : Contains(k)})

\* Flush's loop leaves the list as NewLRUList makes it, from every list the methods
\* can build and in whatever order it removes the mapped nodes.
FlushLoopEmpties == \A order \in Seqs!SetToSeqs(Mapped) : FlushLoop(order) = NewLRUList

\* A cache of positive capacity never dereferences a nil node.
NoPanic == reply # Panic

\* The keys and values a user of the cache can observe, as the promise of
\* BoundedCache names them.
store == [k \in Keys |-> IF Contains(k) THEN content[cache[k]].value ELSE None]

Bounded == INSTANCE BoundedCache

\* The cache keeps the promise interfaces.Cache users rely on: a bounded map
\* where Get returns what was last Set and only Set of a new key, at full
\* capacity, drops another key.
KeepsBoundedMap == Bounded!BoundedSpec

\* The keys that a user of the cache has used since it used k, as the links of
\* the list have them.
newer == [k \in Keys |-> {content[n].key : n \in Newer(lruList, cache[k])}]

Policy == INSTANCE LruOrder WITH values <- store, answer <- reply

\* The pointer structure implements the recency policy: the key dropped by an
\* overflowing Set is the one that Set and Get left alone the longest.
KeepsLruOrder == Policy!OrderSpec
=============================================================================
