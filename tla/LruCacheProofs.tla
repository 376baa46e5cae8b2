--------------------------- MODULE LruCacheProofs ---------------------------
(***************************************************************************)
(* The LRU cache for every capacity, key set and value set: its map and    *)
(* its list agree after every sequence of calls, it never outgrows its     *)
(* capacity, it never dereferences nil when its capacity is positive, and  *)
(* it implements the bounded map of BoundedCache and the recency policy of *)
(* LruOrder.                                                               *)
(*                                                                         *)
(* The inductive invariant adds to TypeOK and MapMatchesList what the      *)
(* pointer updates need (Sound), that members are allocated, and the bound. *)
(***************************************************************************)
EXTENDS LruCache, LruListProofs

Allocated == \A n \in Members(lruList) : n \in Nodes /\ content[n] \in Entries

WithinCapacity == lruList.len <= Capacity

IInv == TypeOK /\ Sound(lruList) /\ Allocated /\ MapMatchesList /\ WithinCapacity

-----------------------------------------------------------------------------
\* The members of a list are nodes of the heap.
LEMMA MembersAreNodes ==
  ASSUME NEW l \in Lists
  PROVE  Members(l) \subseteq Nodes /\ l.owned \subseteq Members(l) \cup {Root}
BY DEF Lists, Members, Elements

\* Unlinking the overwritten node takes out that node alone.
LEMMA TrimmedSound ==
  ASSUME IInv, NEW k \in Keys
  PROVE  /\ Sound(Trimmed(k))
         /\ Members(Trimmed(k)) = Members(lruList) \ {cache[k]}
         /\ Trimmed(k).len = IF cache[k] = Nil THEN lruList.len ELSE lruList.len - 1
         /\ Trimmed(k).len <= Capacity
<1>1. CASE cache[k] = Nil
  <2>1. Nil \notin Members(lruList)
    BY PointersDistinct, MembersAreNodes DEF IInv, Sound
  <2> QED BY <1>1, <2>1 DEF Trimmed, IInv, WithinCapacity
<1>2. CASE cache[k] # Nil
  <2>1. cache[k] \in Members(lruList)
    BY <1>2 DEF IInv, MapMatchesList
  <2>2. lruList.len \in Nat
    BY DEF IInv, Sound, Lists
  <2> QED BY <1>2, <2>1, <2>2, RemoveSound, CapacityIsNat
          DEF Trimmed, IInv, WithinCapacity
<1> QED BY <1>1, <1>2

\* The back of the trimmed list, when Set must evict and does not panic.
LEMMA VictimIsMember ==
  ASSUME IInv, NEW k \in Keys, ~SetPanics(k), MustEvict(k)
  PROVE  /\ Back(Trimmed(k)) \in Members(Trimmed(k))
         /\ Back(Trimmed(k)) \in Nodes
         /\ content[Back(Trimmed(k))].key \in Keys \ {k}
         /\ cache[content[Back(Trimmed(k))].key] = Back(Trimmed(k))
<1> DEFINE b == Back(Trimmed(k))
<1>1. Sound(Trimmed(k)) /\ Members(Trimmed(k)) = Members(lruList) \ {cache[k]}
  BY TrimmedSound
<1>2. b # Nil
  BY DEF SetPanics
<1>3. b \in Members(Trimmed(k))
  BY <1>1, <1>2 DEF Sound, Linked, Back, Members
<1>4. b \in Members(lruList) /\ b # cache[k]
  BY <1>1, <1>3
<1>5. b \in Nodes /\ content[b].key \in Keys /\ cache[content[b].key] = b
  BY <1>4 DEF IInv, Allocated, MapMatchesList, Entries
<1> QED BY <1>3, <1>4, <1>5

\* What Set inserts into: a sound list with room, and a map that agrees with it
\* on every key but k.
LEMMA RoomForKey ==
  ASSUME IInv, NEW k \in Keys, ~SetPanics(k)
  PROVE  /\ Sound(Evicted(k)) /\ Evicted(k).len < Capacity
         /\ Members(Evicted(k)) \subseteq Members(lruList) \ {cache[k]}
         /\ Purged(k) \in [Keys -> Nodes \cup {Nil}]
         /\ \A j \in Keys \ {k} : Purged(k)[j] # Nil =>
              Purged(k)[j] = cache[j] /\ cache[j] \in Members(Evicted(k))
         /\ \A n \in Members(Evicted(k)) :
              content[n].key # k /\ Purged(k)[content[n].key] = n
<1> DEFINE T == Trimmed(k)
           b == Back(T)
<1>1. /\ Sound(T) /\ Members(T) = Members(lruList) \ {cache[k]}
      /\ T.len <= Capacity /\ T.len \in Nat
  BY TrimmedSound DEF Sound, Lists
<1>2. /\ cache \in [Keys -> Nodes \cup {Nil}]
      /\ \A j \in Keys : cache[j] # Nil => /\ cache[j] \in Members(lruList)
                                           /\ content[cache[j]].key = j
      /\ \A n \in Members(lruList) : /\ content[n].key \in Keys
                                     /\ cache[content[n].key] = n
  BY DEF IInv, TypeOK, MapMatchesList, Allocated, Entries
<1>3. CASE MustEvict(k)
  <2>1. /\ b \in Members(T) /\ content[b].key \in Keys \ {k}
        /\ cache[content[b].key] = b /\ b \in Nodes
    BY <1>3, VictimIsMember
  <2>2. Evicted(k) = Remove(T, b) /\ Purged(k) = [cache EXCEPT ![content[b].key] = Nil]
    BY <1>3 DEF Evicted, Purged
  <2>3. /\ Sound(Evicted(k)) /\ Members(Evicted(k)) = Members(T) \ {b}
        /\ Evicted(k).len = T.len - 1
    BY <1>1, <2>1, <2>2, RemoveSound
  <2>4. Purged(k) \in [Keys -> Nodes \cup {Nil}]
    BY <1>2, <2>2
  <2>5. ASSUME NEW j \in Keys \ {k}, Purged(k)[j] # Nil
        PROVE  Purged(k)[j] = cache[j] /\ cache[j] \in Members(Evicted(k))
    <3>1. j # content[b].key /\ Purged(k)[j] = cache[j]
      BY <1>2, <2>2, <2>5
    <3>2. cache[j] \in Members(lruList) /\ content[cache[j]].key = j
      BY <3>1, <2>5, <1>2
    <3>3. cache[j] # b
      BY <3>1, <3>2
    <3>4. cache[j] # cache[k]
      <4>1. cache[k] # Nil => content[cache[k]].key = k
        BY <1>2
      <4> QED BY <4>1, <3>1, <3>2, <2>5
    <3> QED BY <3>1, <3>2, <3>3, <3>4, <2>3, <1>1
  <2>6. ASSUME NEW n \in Members(Evicted(k))
        PROVE  content[n].key # k /\ Purged(k)[content[n].key] = n
    <3>1. n \in Members(lruList) /\ n # cache[k] /\ n # b
      BY <2>3, <1>1
    <3>2. content[n].key \in Keys /\ cache[content[n].key] = n
      BY <3>1, <1>2
    <3> QED BY <3>1, <3>2, <2>1, <2>2, <1>2
  <2> QED BY <2>3, <2>4, <2>5, <2>6, <1>1, CapacityIsNat
<1>4. CASE ~MustEvict(k)
  <2>1. Evicted(k) = T /\ Purged(k) = cache
    BY <1>4 DEF Evicted, Purged
  <2>2. T.len < Capacity
    BY <1>1, <1>4, CapacityIsNat DEF MustEvict
  <2>3. ASSUME NEW j \in Keys \ {k}, cache[j] # Nil
        PROVE  cache[j] \in Members(T)
    <3>1. cache[k] # Nil => content[cache[k]].key = k
      BY <1>2
    <3>2. cache[j] \in Members(lruList) /\ content[cache[j]].key = j
      BY <2>3, <1>2
    <3> QED BY <3>1, <3>2, <2>3, <1>1
  <2>4. ASSUME NEW n \in Members(T)
        PROVE  content[n].key # k /\ cache[content[n].key] = n
    BY <1>1, <1>2
  <2> QED BY <2>1, <2>2, <2>3, <2>4, <1>1, <1>2
<1> QED BY <1>3, <1>4

-----------------------------------------------------------------------------
LEMMA InitIInv == Init => IInv
<1> SUFFICES ASSUME Init PROVE IInv
  OBVIOUS
<1>1. Sound(lruList) /\ Members(lruList) = {} /\ lruList.len = 0
  BY NewListSound DEF Init
<1>2. TypeOK
  BY <1>1 DEF Init, TypeOK, Sound
<1>3. Allocated /\ MapMatchesList
  BY <1>1 DEF Init, Allocated, MapMatchesList
<1> QED BY <1>1, <1>2, <1>3, CapacityIsNat DEF IInv, WithinCapacity

LEMMA SetKeepsIInv ==
  ASSUME IInv, NEW k \in Keys, NEW v \in Values, Set(k, v)
  PROVE  IInv'
<1>1. CASE SetPanics(k)
  <2>1. UNCHANGED <<lruList, cache, content>> /\ reply' = Panic
    BY <1>1 DEF Set
  <2> QED BY <2>1 DEF IInv, TypeOK, Allocated, MapMatchesList, WithinCapacity
<1>2. CASE ~SetPanics(k)
  <2> DEFINE E == Evicted(k)
             P == Purged(k)
  <2>1. PICK n \in Nodes \ lruList.owned :
          /\ lruList' = PushFront(E, n)
          /\ cache' = [P EXCEPT ![k] = n]
          /\ content' = [content EXCEPT ![n] = [key |-> k, value |-> v]]
          /\ reply' = None
    BY <1>2 DEF Set
  <2>2. /\ Sound(E) /\ E.len < Capacity /\ E.len \in Nat
        /\ Members(E) \subseteq Members(lruList)
        /\ P \in [Keys -> Nodes \cup {Nil}]
        /\ \A j \in Keys \ {k} : P[j] # Nil => P[j] = cache[j] /\ cache[j] \in Members(E)
        /\ \A m \in Members(E) : content[m].key # k /\ P[content[m].key] = m
    BY <1>2, RoomForKey DEF Sound, Lists
  <2>3. n \notin Members(E) /\ n \notin E.owned
    BY <2>2, MembersAreNodes, PointersDistinct DEF Members, Sound
  <2>4. /\ Sound(lruList') /\ Members(lruList') = Members(E) \cup {n}
        /\ lruList'.len = E.len + 1
    BY <2>1, <2>2, <2>3, PushFrontSound
  <2>5. [key |-> k, value |-> v] \in Entries
    BY DEF Entries
  <2>6. content \in [Nodes -> Entries \cup {None}] /\ Allocated
    BY DEF IInv, TypeOK
  <2>7. /\ content' \in [Nodes -> Entries \cup {None}]
        /\ content'[n] = [key |-> k, value |-> v]
        /\ \A m \in Members(E) : content'[m] = content[m]
    BY <2>1, <2>3, <2>5, <2>6
  <2>8. TypeOK'
    BY <2>1, <2>2, <2>4, <2>7 DEF TypeOK, Sound
  <2>9. Allocated'
    BY <2>1, <2>2, <2>4, <2>5, <2>6, <2>7 DEF Allocated
  <2>10. MapMatchesList'
    <3>1. \A j \in Keys : cache'[j] = IF j = k THEN n ELSE P[j]
      BY <2>1, <2>2
    <3>2. ASSUME NEW j \in Keys, cache'[j] # Nil
          PROVE  cache'[j] \in Members(lruList') /\ content'[cache'[j]].key = j
      <4>1. CASE j = k
        BY <4>1, <3>1, <2>4, <2>7
      <4>2. CASE j # k
        <5>1. cache'[j] = cache[j] /\ cache[j] \in Members(E)
          BY <4>2, <3>1, <3>2, <2>2
        <5>2. content[cache[j]].key = j
          BY <5>1, <3>2 DEF IInv, MapMatchesList
        <5> QED BY <5>1, <5>2, <2>4, <2>7
      <4> QED BY <4>1, <4>2
    <3>3. ASSUME NEW m \in Members(lruList')
          PROVE  cache'[content'[m].key] = m
      <4>1. CASE m = n
        BY <4>1, <3>1, <2>7
      <4>2. CASE m # n
        <5>1. m \in Members(E) /\ content'[m] = content[m] /\ content[m] \in Entries
          BY <4>2, <2>2, <2>4, <2>6, <2>7 DEF Allocated
        <5>2. content[m].key \in Keys \ {k} /\ P[content[m].key] = m
          BY <5>1, <2>2 DEF Entries
        <5> QED BY <5>1, <5>2, <3>1
      <4> QED BY <4>1, <4>2
    <3> QED BY <3>2, <3>3 DEF MapMatchesList
  <2>11. WithinCapacity'
    BY <2>2, <2>4, CapacityIsNat DEF WithinCapacity
  <2> QED BY <2>4, <2>8, <2>9, <2>10, <2>11 DEF IInv
<1> QED BY <1>1, <1>2

LEMMA GetKeepsIInv ==
  ASSUME IInv, NEW k \in Keys, Get(k)
  PROVE  IInv'
<1>1. UNCHANGED <<cache, content>>
  BY DEF Get
<1>2. CASE cache[k] = Nil
  <2>1. lruList' = lruList /\ reply' = None
    BY <1>2 DEF Get
  <2> QED BY <1>1, <2>1 DEF IInv, TypeOK, Allocated, MapMatchesList, WithinCapacity
<1>3. CASE cache[k] # Nil
  <2>1. lruList' = MoveToFront(lruList, cache[k]) /\ reply' = content[cache[k]].value
    BY <1>3 DEF Get
  <2>2. cache[k] \in Members(lruList) /\ Sound(lruList)
    BY <1>3 DEF IInv, MapMatchesList
  <2>3. /\ Sound(lruList') /\ Members(lruList') = Members(lruList)
        /\ lruList'.len = lruList.len
    BY <2>1, <2>2, MoveToFrontSound, MembersAreNodes DEF Sound
  <2>4. reply' \in Values
    BY <2>1, <2>2 DEF IInv, Allocated, Entries
  <2> QED BY <1>1, <2>3, <2>4
          DEF IInv, TypeOK, Allocated, MapMatchesList, WithinCapacity, Sound
<1> QED BY <1>2, <1>3

LEMMA DeleteKeepsIInv ==
  ASSUME IInv, NEW k \in Keys, Delete(k)
  PROVE  IInv'
<1>1. UNCHANGED content
  BY DEF Delete
<1>2. CASE cache[k] = Nil
  <2>1. UNCHANGED <<lruList, cache>> /\ reply' = Refused
    BY <1>2 DEF Delete
  <2> QED BY <1>1, <2>1 DEF IInv, TypeOK, Allocated, MapMatchesList, WithinCapacity
<1>3. CASE cache[k] # Nil
  <2>1. /\ lruList' = Remove(lruList, cache[k]) /\ reply' = None
        /\ cache' = [cache EXCEPT ![k] = Nil]
    BY <1>3 DEF Delete
  <2>2. cache[k] \in Members(lruList) /\ Sound(lruList) /\ content[cache[k]].key = k
    BY <1>3 DEF IInv, MapMatchesList
  <2>3. /\ Sound(lruList') /\ Members(lruList') = Members(lruList) \ {cache[k]}
        /\ lruList'.len = lruList.len - 1
    BY <2>1, <2>2, RemoveSound
  <2>4. cache \in [Keys -> Nodes \cup {Nil}] /\ lruList.len \in Nat
    BY DEF IInv, TypeOK, Lists
  <2>5. TypeOK' /\ WithinCapacity' /\ Allocated'
    BY <1>1, <2>1, <2>3, <2>4, CapacityIsNat
    DEF IInv, TypeOK, WithinCapacity, Allocated, Sound
  <2>6. ASSUME NEW j \in Keys, cache'[j] # Nil
        PROVE  cache'[j] \in Members(lruList') /\ content'[cache'[j]].key = j
    <3>1. j # k /\ cache'[j] = cache[j]
      BY <2>1, <2>4, <2>6
    <3>2. cache[j] \in Members(lruList) /\ content[cache[j]].key = j
      BY <3>1, <2>6 DEF IInv, MapMatchesList
    <3> QED BY <3>1, <3>2, <2>2, <2>3, <1>1
  <2>7. ASSUME NEW n \in Members(lruList')
        PROVE  cache'[content'[n].key] = n
    <3>1. n \in Members(lruList) /\ n # cache[k]
      BY <2>3
    <3>2. content[n].key \in Keys /\ cache[content[n].key] = n
      BY <3>1 DEF IInv, Allocated, MapMatchesList, Entries
    <3> QED BY <3>1, <3>2, <2>1, <2>4, <1>1
  <2> QED BY <2>3, <2>5, <2>6, <2>7 DEF IInv, MapMatchesList
<1> QED BY <1>2, <1>3

\* A sound list without members is the one NewLRUList makes.
LEMMA SoundAndEmptyIsNew ==
  ASSUME NEW l, Sound(l), Members(l) = {}
  PROVE  l = NewLRUList
<1>1. /\ l = [next |-> l.next, prev |-> l.prev, owned |-> l.owned, len |-> l.len]
      /\ l.next \in [Elements -> Pointers] /\ l.prev \in [Elements -> Pointers]
  BY DEF Sound, Lists
<1>2. l.owned = {Root} /\ l.len = 0
  BY FS_EmptySet DEF Sound, Linked, Counted, Members
<1>3. l.next[Root] = Root /\ l.prev[Root] = Root
  BY <1>2 DEF Sound, Linked
<1>4. \A n \in Elements \ {Root} : l.next[n] = Nil /\ l.prev[n] = Nil
  BY <1>2 DEF Sound, Linked
<1>5. l.next = NewLRUList.next /\ l.prev = NewLRUList.prev
  BY <1>1, <1>3, <1>4 DEF NewLRUList
<1> QED BY <1>1, <1>2, <1>5 DEF NewLRUList

\* The mapped nodes, in an order of Flush's loop, are the members of the list.
LEMMA FlushOrder ==
  ASSUME IInv, NEW order \in Seqs!SetToSeqs(Mapped)
  PROVE  /\ DOMAIN order = 1 .. lruList.len
         /\ \A i \in 1 .. lruList.len : order[i] \in Members(lruList)
         /\ \A i, j \in 1 .. lruList.len : order[i] = order[j] => i = j
         /\ \A n \in Members(lruList) : \E i \in 1 .. lruList.len : order[i] = n
<1>1. Mapped = Members(lruList)
  <2>1. \A n \in Members(lruList) : content[n].key \in Keys /\ n # Nil
    BY PointersDistinct, MembersAreNodes DEF IInv, Allocated, Entries, Sound
  <2> QED BY <2>1 DEF Mapped, IInv, MapMatchesList
<1>2. /\ IsFiniteSet(Members(lruList)) /\ lruList.len = Cardinality(Members(lruList))
      /\ lruList.len \in Nat
  BY FS_Subset DEF IInv, Sound, Counted, Lists, Members
<1>3. Seqs!Cardinality(Mapped) = lruList.len
  BY <1>1, <1>2 DEF Seqs!Cardinality, Cardinality
<1>4. /\ order \in [1 .. lruList.len -> Members(lruList)]
      /\ \A i, j \in 1 .. lruList.len : i # j => order[i] # order[j]
  BY <1>1, <1>3 DEF Seqs!SetToSeqs
<1>5. order \in Injection(1 .. lruList.len, Members(lruList))
  BY <1>4 DEF Injection, IsInjective
<1>6. Cardinality(1 .. lruList.len) = lruList.len
  BY <1>2, FS_Interval
<1>7. order \in Surjection(1 .. lruList.len, Members(lruList))
  BY <1>2, <1>5, <1>6, FS_Injection
<1> QED BY <1>4, <1>7 DEF Surjection

\* Whatever the order, the loop of Flush ends with the empty list: every turn
\* removes one member of a sound list.
LEMMA FlushLoopDrains ==
  ASSUME IInv, NEW order \in Seqs!SetToSeqs(Mapped)
  PROVE  FlushLoop(order) = NewLRUList
<1> DEFINE n == lruList.len
           S == 1 .. n
           Defines(it) == it = [s \in SUBSET S |->
                                  IF s = {} THEN lruList
                                  ELSE Remove(it[s \ {Largest(s)}], order[Largest(s)])]
           it == CHOOSE it : Defines(it)
<1>1. /\ n \in Nat /\ Sound(lruList) /\ DOMAIN order = S
      /\ \A i \in S : order[i] \in Members(lruList)
      /\ \A i, j \in S : order[i] = order[j] => i = j
      /\ \A m \in Members(lruList) : \E i \in S : order[i] = m
  BY FlushOrder DEF IInv, Sound, Lists
<1>2. FlushLoop(order) = it[S]
  BY <1>1 DEF FlushLoop, Seqs!FoldLeft, Seqs!MapThenFoldSet, Seqs!Max, Largest
<1>3. Defines(it)
  <2> DEFINE V == {l \in Lists : Sound(l)}
             G == [p \in S \X V |-> Remove(p[2], order[p[1]])]
             pick == [s \in (SUBSET S) \ {{}} |-> Largest(s)]
  <2>1. \A s \in SUBSET S : s # {} => pick[s] \in s /\ pick[s] = Largest(s)
    <3>1. ASSUME NEW s \in SUBSET S, s # {} PROVE Largest(s) \in s
      <4>1. n \in Nat /\ s \in SUBSET (1 .. n)
        BY <1>1
      <4> HIDE DEF n, S
      <4> QED BY <3>1, <4>1, LargestIsMember
    <3> QED BY <3>1
  <2>2. IsFiniteSet(S) /\ lruList \in V
    BY <1>1, FS_Interval DEF Sound
  <2>3. G \in [S \X V -> V]
    <3>1. ASSUME NEW l \in V, NEW i \in S PROVE Remove(l, order[i]) \in V
      <4>1. CASE order[i] \in Members(l)
        BY <4>1, RemoveSound DEF Sound
      <4>2. CASE order[i] \notin Members(l)
        BY <4>2 DEF Remove, CanRemove, Members
      <4> QED BY <4>1, <4>2
    <3> QED BY <3>1
  <2>4. PICK f \in [SUBSET S -> V] : IsFold(f, S, lruList, G, pick)
    <3>1. Picks(pick, S)
      BY <2>1 DEF Picks
    <3> HIDE DEF S, V, G, pick
    <3> QED BY <2>2, <2>3, <3>1, FoldExists
  <2>5. ASSUME NEW s \in SUBSET S
        PROVE  f[s] = IF s = {} THEN lruList
                      ELSE Remove(f[s \ {Largest(s)}], order[Largest(s)])
    <3>1. CASE s = {}
      BY <2>4, <3>1 DEF IsFold
    <3>2. CASE s # {}
      <4>1. pick[s] = Largest(s) /\ Largest(s) \in S /\ f[s \ {Largest(s)}] \in V
        BY <2>1, <2>4, <3>2
      <4>2. G[<<Largest(s), f[s \ {Largest(s)}]>>]
              = Remove(f[s \ {Largest(s)}], order[Largest(s)])
        BY <4>1
      <4> HIDE DEF G, pick
      <4> QED BY <2>4, <3>2, <4>1, <4>2 DEF IsFold
    <3> QED BY <3>1, <3>2
  <2>6. Defines(f)
    BY <2>4, <2>5
  <2> HIDE DEF Defines
  <2> QED BY <2>6
<1> HIDE DEF it
<1> DEFINE Left(i) == it[1 .. i]
           D == {i \in 0 .. n : /\ Sound(Left(i)) /\ Left(i).len = n - i
                                /\ Members(Left(i)) = Members(lruList)
                                                       \ {order[j] : j \in 1 .. i}}
<1>4. 0 \in D
  <2>1. 1 .. 0 = {} /\ Left(0) = lruList
    BY <1>3
  <2> HIDE DEF Left
  <2> QED BY <1>1, <2>1
<1>5. ASSUME NEW i \in 0 .. n - 1, i \in D PROVE i + 1 \in D
  <2>1. i + 1 \in S /\ i + 1 \in 0 .. n /\ i \in Nat /\ 1 .. i + 1 \in SUBSET S
        /\ 1 .. i + 1 # {}
    <3>1. n \in Nat /\ i \in Nat /\ i + 1 <= n
      BY <1>1
    <3>2. 1 \in 1 .. i + 1
      BY <3>1
    <3>3. \A j \in 1 .. i + 1 : j \in S
      BY <3>1
    <3> QED BY <3>1, <3>2, <3>3
  <2>2. Left(i + 1) = Remove(Left(i), order[i + 1])
    <3>1. Largest(1 .. i + 1) = i + 1 /\ (1 .. i + 1) \ {i + 1} = 1 .. i
      BY <2>1, LargestOfPrefix
    <3> QED BY <1>3, <2>1, <3>1
  <2> HIDE DEF Left
  <2>3. order[i + 1] \in Members(Left(i))
    <3>1. \A j \in 1 .. i : j \in S /\ j # i + 1
      BY <1>1, <2>1
    <3> QED BY <1>1, <1>5, <2>1, <3>1
  <2>4. /\ Sound(Left(i + 1)) /\ Left(i + 1).len = (n - i) - 1
        /\ Members(Left(i + 1)) = Members(Left(i)) \ {order[i + 1]}
    BY <1>5, <2>2, <2>3, RemoveSound
  <2>5. {order[j] : j \in 1 .. i + 1} = {order[j] : j \in 1 .. i} \cup {order[i + 1]}
    BY <2>1
  <2> QED BY <1>1, <1>5, <2>1, <2>4, <2>5
<1>6. n \in D
  <2>1. \A i \in 0 .. n : i \in D
    <3> HIDE DEF D, n
    <3> QED BY <1>1, <1>4, <1>5, InductionUpTo
  <2> HIDE DEF D
  <2> QED BY <1>1, <2>1
<1>7. Members(Left(n)) = {}
  BY <1>1, <1>6
<1> QED BY <1>2, <1>6, <1>7, SoundAndEmptyIsNew

\* So Flush leaves what NewLRUList makes.
LEMMA FlushLeavesNewList ==
  ASSUME IInv, Flush
  PROVE  lruList' = NewLRUList
BY FlushLoopDrains DEF Flush

LEMMA FlushKeepsIInv ==
  ASSUME IInv, Flush
  PROVE  IInv'
<1>1. Sound(lruList') /\ Members(lruList') = {} /\ lruList'.len = 0
  BY NewListSound, FlushLeavesNewList
<1>2. TypeOK'
  BY <1>1 DEF Flush, IInv, TypeOK, Sound
<1>3. Allocated' /\ MapMatchesList'
  BY <1>1 DEF Flush, Allocated, MapMatchesList
<1> QED BY <1>1, <1>2, <1>3, CapacityIsNat DEF IInv, WithinCapacity

LEMMA NextIInv == IInv /\ [Next]_vars => IInv'
<1> SUFFICES ASSUME IInv, [Next]_vars PROVE IInv'
  OBVIOUS
<1>1. ASSUME NEW k \in Keys, NEW v \in Values, Set(k, v) PROVE IInv'
  BY <1>1, SetKeepsIInv
<1>2. ASSUME NEW k \in Keys, Get(k) PROVE IInv'
  BY <1>2, GetKeepsIInv
<1>3. ASSUME NEW k \in Keys, Delete(k) PROVE IInv'
  BY <1>3, DeleteKeepsIInv
<1>4. CASE Flush
  BY <1>4, FlushKeepsIInv
<1>5. CASE UNCHANGED vars
  BY <1>5 DEF vars, IInv, TypeOK, Allocated, MapMatchesList, WithinCapacity
<1> QED BY <1>1, <1>2, <1>3, <1>4, <1>5 DEF Next

\* The inductive invariant holds throughout.
THEOREM Inductive == Spec => []IInv
BY InitIInv, NextIInv, PTL DEF Spec

-----------------------------------------------------------------------------
\* The members and the present keys are in bijection, so the counter counts both.
LEMMA SizeCountsKeys ==
  ASSUME IInv
  PROVE  /\ lruList.len = Cardinality({k \in Keys : Contains(k)})
         /\ IsFiniteSet({k \in Keys : Contains(k)})
<1> DEFINE M == Members(lruList)
           C == {k \in Keys : Contains(k)}
           f == [n \in M |-> content[n].key]
<1>1. lruList.len = Cardinality(M) /\ IsFiniteSet(M)
  BY FS_Subset DEF IInv, Sound, Counted, Members
<1>2. \A n \in M : content[n].key \in Keys /\ cache[content[n].key] = n /\ n # Nil
  BY PointersDistinct DEF IInv, Allocated, MapMatchesList, Entries
<1>3. f \in [M -> C]
  BY <1>2 DEF Contains
<1>4. \A m, n \in M : f[m] = f[n] => m = n
  BY <1>2
<1>5. \A k \in C : cache[k] \in M /\ f[cache[k]] = k
  BY DEF Contains, IInv, MapMatchesList
<1>6. f \in Bijection(M, C)
  BY <1>3, <1>4, <1>5 DEF Bijection, Injection, Surjection, IsInjective
<1>7. ExistsBijection(M, C)
  BY <1>6 DEF ExistsBijection
<1> QED BY <1>1, <1>7, FS_Bijection

\* Every variable keeps its type.
THEOREM TypeCorrect == Spec => []TypeOK
<1>1. IInv => TypeOK
  BY DEF IInv
<1> QED BY <1>1, Inductive, PTL

\* No sequence of calls corrupts the links of the list or its counter.
THEOREM ListStaysIntact == Spec => []ListIntact
<1>1. IInv => ListIntact
  BY DEF IInv, Sound, ListIntact
<1> QED BY <1>1, Inductive, PTL

\* The map and the list hold the same entries after every call.
THEOREM MapAlwaysMatchesList == Spec => []MapMatchesList
<1>1. IInv => MapMatchesList
  BY DEF IInv
<1> QED BY <1>1, Inductive, PTL

\* The cache never outgrows its capacity, and Size() counts its keys.
THEOREM SizeAlwaysBounded == Spec => []SizeBounded
<1>1. IInv => SizeBounded
  BY SizeCountsKeys DEF IInv, WithinCapacity, SizeBounded, Size
<1> QED BY <1>1, Inductive, PTL

\* Whatever order Flush's loop takes, from whatever list the methods have built, it
\* leaves an empty list with its links and its counter reset.
THEOREM FlushLoopAlwaysEmpties == Spec => []FlushLoopEmpties
<1>1. IInv => FlushLoopEmpties
  BY FlushLoopDrains DEF FlushLoopEmpties
<1> QED BY <1>1, Inductive, PTL

\* A Set on a cache of positive capacity finds a back element whenever it must
\* evict: the list of a full cache is not empty once trimmed.
LEMMA EvictionFindsVictim ==
  ASSUME IInv, Capacity # 0, NEW k \in Keys
  PROVE  ~SetPanics(k)
<1>1. SUFFICES ASSUME MustEvict(k) PROVE Back(Trimmed(k)) # Nil
  BY DEF SetPanics
<1>2. Sound(Trimmed(k)) /\ Trimmed(k).len # 0
  BY <1>1, TrimmedSound DEF MustEvict
<1> QED BY <1>2, BackIsMember

LEMMA NextNoPanic ==
  ASSUME Capacity # 0, IInv, NoPanic, [Next]_vars
  PROVE  NoPanic'
<1>1. ASSUME NEW k \in Keys, NEW v \in Values, Set(k, v) PROVE NoPanic'
  <2>1. ~SetPanics(k)
    BY EvictionFindsVictim
  <2> QED BY <1>1, <2>1, RepliesDistinct DEF Set, NoPanic
<1>2. ASSUME NEW k \in Keys, Get(k) PROVE NoPanic'
  <2>1. cache[k] # Nil => content[cache[k]].value \in Values
    BY DEF IInv, MapMatchesList, Allocated, Entries
  <2> QED BY <1>2, <2>1, RepliesDistinct DEF Get, NoPanic
<1>3. ASSUME NEW k \in Keys, Delete(k) PROVE NoPanic'
  BY <1>3, RepliesDistinct DEF Delete, NoPanic
<1>4. CASE Flush
  BY <1>4, RepliesDistinct DEF Flush, NoPanic
<1>5. CASE UNCHANGED vars
  BY <1>5 DEF vars, NoPanic
<1> QED BY <1>1, <1>2, <1>3, <1>4, <1>5 DEF Next

\* A cache of positive capacity never dereferences nil, whatever it is asked.
THEOREM NeverPanics == Capacity # 0 => (Spec => []NoPanic)
<1> SUFFICES ASSUME Capacity # 0 PROVE Spec => []NoPanic
  OBVIOUS
<1>1. Init => NoPanic
  BY RepliesDistinct DEF Init, NoPanic
<1>2. IInv /\ NoPanic /\ [Next]_vars => NoPanic'
  BY NextNoPanic
<1> QED BY <1>1, <1>2, Inductive, PTL DEF Spec

-----------------------------------------------------------------------------
\* What BoundedCache counts is what the list counts.
LEMMA PresentIsContained ==
  ASSUME IInv
  PROVE  /\ Bounded!Present(store) = {k \in Keys : Contains(k)}
         /\ \A k \in Keys : Contains(k) <=> store[k] # None
<1>1. \A k \in Keys : Contains(k) => store[k] \in Values
  BY DEF Contains, store, IInv, MapMatchesList, Allocated, Entries
<1>2. \A k \in Keys : ~Contains(k) => store[k] = None
  BY DEF store
<1>3. DOMAIN store = Keys
  BY DEF store
<1> QED BY <1>1, <1>2, <1>3, RepliesDistinct DEF Bounded!Present

\* The instance counts with the same Cardinality.
LEMMA SameCardinality == \A S : Bounded!Cardinality(S) = Cardinality(S)
BY DEF Cardinality, Bounded!Cardinality

LEMMA SetIsBounded ==
  ASSUME IInv, Capacity # 0, NEW k \in Keys, NEW v \in Values, Set(k, v)
  PROVE  Bounded!BoundedSet(k, v)
<1> DEFINE E == Evicted(k)
           P == Purged(k)
           b == Back(Trimmed(k))
<1>1. ~SetPanics(k)
  BY EvictionFindsVictim
<1>2. PICK n \in Nodes \ lruList.owned :
        /\ lruList' = PushFront(E, n)
        /\ cache' = [P EXCEPT ![k] = n]
        /\ content' = [content EXCEPT ![n] = [key |-> k, value |-> v]]
        /\ reply' = None
  BY <1>1 DEF Set
<1>3. /\ P \in [Keys -> Nodes \cup {Nil}]
      /\ \A j \in Keys \ {k} : P[j] # Nil => P[j] = cache[j] /\ cache[j] \in lruList.owned
  BY <1>1, RoomForKey DEF Members
<1>4. content \in [Nodes -> Entries \cup {None}] /\ cache \in [Keys -> Nodes \cup {Nil}]
  BY DEF IInv, TypeOK
<1>5. n # Nil
  BY PointersDistinct
<1>6. \A j \in Keys : cache'[j] = IF j = k THEN n ELSE P[j]
  BY <1>2, <1>3
<1>7. content'[n].value = v
  BY <1>2, <1>4
<1>8. \A j \in Keys \ {k} : P[j] # Nil => content'[P[j]] = content[cache[j]]
  BY <1>2, <1>3, <1>4
<1>9. store' = [j \in Keys |-> IF j = k THEN v
                               ELSE IF P[j] # Nil THEN content[cache[j]].value ELSE None]
  <2>1. store' = [j \in Keys |-> IF cache'[j] # Nil THEN content'[cache'[j]].value ELSE None]
    BY DEF store, Contains
  <2> QED BY <2>1, <1>5, <1>6, <1>7, <1>8
<1>10. store = [j \in Keys |-> IF cache[j] # Nil THEN content[cache[j]].value ELSE None]
  BY DEF store, Contains
<1>11. /\ lruList.len = Cardinality(Bounded!Present(store))
       /\ lruList.len \in Nat /\ lruList.len <= Capacity
       /\ \A j \in Keys : cache[j] # Nil <=> store[j] # None
       /\ Bounded!Present(store) = {j \in Keys : cache[j] # Nil}
  BY SizeCountsKeys, PresentIsContained DEF Contains, IInv, WithinCapacity, Sound, Lists
<1>12. Trimmed(k).len = IF cache[k] = Nil THEN lruList.len ELSE lruList.len - 1
  BY TrimmedSound
<1>13. CASE MustEvict(k)
  <2>1. /\ content[b].key \in Keys \ {k} /\ cache[content[b].key] = b /\ b \in Nodes
    BY <1>1, <1>13, VictimIsMember
  <2>2. P = [cache EXCEPT ![content[b].key] = Nil]
    BY <1>13 DEF Purged
  <2>3. store' = [store EXCEPT ![content[b].key] = None, ![k] = v]
    BY <1>4, <1>9, <1>10, <2>1, <2>2
  <2>4. content[b].key \in Bounded!Present(store)
    BY <1>11, <2>1, PointersDistinct
  <2>5. store[k] = None /\ ~(Cardinality(Bounded!Present(store)) < Capacity)
    BY <1>11, <1>12, <1>13, CapacityIsNat DEF MustEvict
  <2>6. store' \in Bounded!AfterSet(store, k, v)
    BY <2>3, <2>4, <2>5, SameCardinality DEF Bounded!AfterSet
  <2> QED BY <2>6, <1>2 DEF Bounded!BoundedSet
<1>14. CASE ~MustEvict(k)
  <2>1. P = cache
    BY <1>14 DEF Purged
  <2>2. store' = [store EXCEPT ![k] = v]
    BY <1>9, <1>10, <2>1
  <2>3. store[k] # None \/ Cardinality(Bounded!Present(store)) < Capacity
    <3>1. CASE cache[k] = Nil
      <4>1. lruList.len # Capacity
        BY <3>1, <1>12, <1>14 DEF MustEvict
      <4> QED BY <4>1, <1>11, CapacityIsNat
    <3>2. CASE cache[k] # Nil
      BY <3>2, <1>11
    <3> QED BY <3>1, <3>2
  <2>4. store' \in Bounded!AfterSet(store, k, v)
    BY <2>2, <2>3, SameCardinality DEF Bounded!AfterSet
  <2> QED BY <2>4, <1>2 DEF Bounded!BoundedSet
<1> QED BY <1>13, <1>14

LEMMA GetIsBounded ==
  ASSUME IInv, NEW k \in Keys, Get(k)
  PROVE  Bounded!BoundedGet(k)
<1>1. store' = store
  BY DEF Get, store, Contains
<1>2. reply' = store[k]
  BY DEF Get, store, Contains
<1> QED BY <1>1, <1>2 DEF Bounded!BoundedGet

LEMMA DeleteIsBounded ==
  ASSUME IInv, NEW k \in Keys, Delete(k)
  PROVE  Bounded!BoundedDelete(k)
<1>1. cache \in [Keys -> Nodes \cup {Nil}]
  BY DEF IInv, TypeOK
<1>2. cache' = [cache EXCEPT ![k] = Nil] /\ content' = content
  BY <1>1 DEF Delete
<1>3. store' = [store EXCEPT ![k] = None]
  BY <1>1, <1>2 DEF store, Contains
<1>4. reply' = IF store[k] = None THEN Refused ELSE None
  BY PresentIsContained DEF Delete, Contains
<1> QED BY <1>3, <1>4 DEF Bounded!BoundedDelete

\* A cache of positive capacity implements the bounded map: an entry disappears
\* only by Delete, by Flush, or by a Set of a new key into a full cache, and Get
\* answers with what was last Set.
THEOREM ImplementsBoundedMap == Capacity # 0 => (Spec => KeepsBoundedMap)
<1> SUFFICES ASSUME Capacity # 0 PROVE Spec => KeepsBoundedMap
  OBVIOUS
<1>1. Init => Bounded!BoundedInit
  BY DEF Init, Bounded!BoundedInit, Bounded!EmptyMap, store, Contains
<1>2. IInv /\ [Next]_vars => [Bounded!BoundedNext]_(Bounded!boundedVars)
  <2> SUFFICES ASSUME IInv, [Next]_vars
               PROVE  [Bounded!BoundedNext]_(Bounded!boundedVars)
    OBVIOUS
  <2>1. ASSUME NEW k \in Keys, NEW v \in Values, Set(k, v)
        PROVE  Bounded!BoundedNext
    BY <2>1, SetIsBounded DEF Bounded!BoundedNext
  <2>2. ASSUME NEW k \in Keys, Get(k) PROVE Bounded!BoundedNext
    BY <2>2, GetIsBounded DEF Bounded!BoundedNext
  <2>3. ASSUME NEW k \in Keys, Delete(k) PROVE Bounded!BoundedNext
    BY <2>3, DeleteIsBounded DEF Bounded!BoundedNext
  <2>4. CASE Flush
    <3>1. store' = [k \in Keys |-> None]
      BY <2>4 DEF Flush, store, Contains
    <3> QED BY <2>4, <3>1
            DEF Flush, Bounded!BoundedFlush, Bounded!EmptyMap, Bounded!BoundedNext
  <2>5. CASE UNCHANGED vars
    BY <2>5 DEF vars, store, Contains, Bounded!boundedVars
  <2> QED BY <2>1, <2>2, <2>3, <2>4, <2>5 DEF Next
<1> QED BY <1>1, <1>2, Inductive, PTL DEF Spec, KeepsBoundedMap, Bounded!BoundedSpec

-----------------------------------------------------------------------------
(***************************************************************************)
(* Recency.  In front of a node are the nodes used since; their keys are   *)
(* `newer`.  Each method's change of the list is followed there.           *)
(***************************************************************************)
KeysOf(S) == {content[n].key : n \in S}

LEMMA KeysOfLess ==
  ASSUME IInv, NEW S \in SUBSET Members(lruList), NEW k \in Keys
  PROVE  KeysOf(S \ {cache[k]}) = KeysOf(S) \ {k}
<1>1. \A n \in S : content[n].key \in Keys /\ cache[content[n].key] = n
  BY DEF IInv, Allocated, MapMatchesList, Entries
<1>2. \A n \in S : n # Nil
  BY MembersAreNodes, PointersDistinct DEF IInv, Sound
<1>3. \A n \in S : n = cache[k] <=> content[n].key = k
  BY <1>1, <1>2 DEF IInv, MapMatchesList
<1> QED BY <1>3 DEF KeysOf

\* A key that is not cached has nothing newer, and is newer than nothing.
LEMMA NewerFacts ==
  ASSUME IInv
  PROVE  /\ newer = [k \in Keys |-> KeysOf(Newer(lruList, cache[k]))]
         /\ \A k \in Keys : cache[k] = Nil => newer[k] = {}
         /\ \A k \in Keys : k \notin newer[k]
         /\ \A k \in Keys : newer[k] \subseteq {j \in Keys : cache[j] # Nil}
         /\ Nil \notin Members(lruList) /\ Sound(lruList)
         /\ \A k \in Keys : Newer(lruList, cache[k]) \subseteq Members(lruList)
<1>1. Sound(lruList) /\ Nil \notin Members(lruList)
  BY MembersAreNodes, PointersDistinct DEF IInv, Sound
<1>2. newer = [k \in Keys |-> KeysOf(Newer(lruList, cache[k]))]
  BY DEF newer, KeysOf
<1>3. \A k \in Keys : Newer(lruList, cache[k]) \subseteq Members(lruList) \ {cache[k]}
  BY <1>1, NewerAreMembers
<1>4. \A k \in Keys : cache[k] = Nil => Newer(lruList, cache[k]) = {}
  BY <1>1, NewerFrom
<1>5. \A n \in Members(lruList) :
        content[n].key \in Keys /\ cache[content[n].key] = n /\ n # Nil
  BY <1>1 DEF IInv, Allocated, MapMatchesList, Entries
<1> QED BY <1>1, <1>2, <1>3, <1>4, <1>5 DEF KeysOf

LEMMA PresentIsCached ==
  ASSUME IInv
  PROVE  /\ Policy!Present = {k \in Keys : cache[k] # Nil}
         /\ lruList.len = Cardinality(Policy!Present) /\ IsFiniteSet(Policy!Present)
         /\ KeysOf(Members(lruList)) = Policy!Present
<1>1. Policy!Present = {k \in Keys : Contains(k)}
  BY PresentIsContained DEF Policy!Present
<1>2. {k \in Keys : Contains(k)} = {k \in Keys : cache[k] # Nil}
  BY DEF Contains
<1>3. KeysOf(Members(lruList)) = {k \in Keys : cache[k] # Nil}
  <2>1. \A n \in Members(lruList) :
          content[n].key \in Keys /\ cache[content[n].key] = n /\ n # Nil
    BY MembersAreNodes, PointersDistinct
    DEF IInv, Sound, Allocated, MapMatchesList, Entries
  <2>2. \A k \in Keys : cache[k] # Nil =>
          cache[k] \in Members(lruList) /\ content[cache[k]].key = k
    BY DEF IInv, MapMatchesList
  <2> QED BY <2>1, <2>2 DEF KeysOf
<1> QED BY <1>1, <1>2, <1>3, SizeCountsKeys

\* The one key all others have been used since is that of the list's back.
LEMMA OldestIsBack ==
  ASSUME IInv, lruList.len # 0
  PROVE  /\ Policy!Oldest = {content[Back(lruList)].key}
         /\ content[Back(lruList)].key \in Keys
         /\ cache[content[Back(lruList)].key] = Back(lruList)
<1> DEFINE b == Back(lruList)
           kb == content[b].key
<1>1. b \in Members(lruList) /\ kb \in Keys /\ cache[kb] = b
  BY BackIsMember DEF IInv, Allocated, MapMatchesList, Entries
<1>2. Newer(lruList, b) = Members(lruList) \ {b} /\ \A n : b \notin Newer(lruList, n)
  BY BackIsOldest DEF IInv
<1>3. newer[kb] = Policy!Present \ {kb}
  <2>1. newer[kb] = KeysOf(Newer(lruList, cache[kb]))
    BY <1>1, NewerFacts
  <2>2. Newer(lruList, cache[kb]) = Members(lruList) \ {cache[kb]}
    BY <1>1, <1>2
  <2>3. newer[kb] = KeysOf(Members(lruList) \ {cache[kb]})
    BY <2>1, <2>2
  <2> QED BY <2>3, <1>1, KeysOfLess, PresentIsCached
<1>4. kb \in Policy!Present
  BY <1>1, NewerFacts, PresentIsCached
<1>5. ASSUME NEW j \in Policy!Present, j # kb
      PROVE  newer[j] # Policy!Present \ {j}
  <2>1. SUFFICES ASSUME kb \in newer[j] PROVE FALSE
    BY <1>4, <1>5
  <2>2. j \in Keys
    BY PresentIsCached
  <2>3. PICK n \in Newer(lruList, cache[j]) : content[n].key = kb
    BY <2>1, <2>2, NewerFacts DEF KeysOf
  <2>4. n \in Members(lruList)
    BY <2>2, <2>3, NewerFacts
  <2>5. n = b
    BY <2>3, <2>4, <1>1 DEF IInv, MapMatchesList
  <2> QED BY <2>3, <2>5, <1>2
<1> QED BY <1>1, <1>3, <1>4, <1>5 DEF Policy!Oldest

LEMMA SameCount == \A S : Policy!Cardinality(S) = Cardinality(S)
BY DEF Cardinality, Policy!Cardinality

\* What an overflowing Set drops: nothing when it does not evict, and the back's
\* key when it does; then k was not cached.
LEMMA DroppedIsBack ==
  ASSUME IInv, Capacity # 0, NEW k \in Keys
  PROVE  IF MustEvict(k)
         THEN /\ cache[k] = Nil /\ lruList.len # 0 /\ Trimmed(k) = lruList
              /\ Policy!Dropped(k) = {content[Back(lruList)].key}
         ELSE Policy!Dropped(k) = {}
<1> DEFINE Q == Policy!Present
<1>1. /\ Q = {j \in Keys : cache[j] # Nil} /\ lruList.len = Cardinality(Q)
      /\ IsFiniteSet(Q) /\ lruList.len \in Nat /\ lruList.len <= Capacity
  BY PresentIsCached DEF IInv, WithinCapacity, Sound, Lists
<1>2. Trimmed(k).len = IF cache[k] = Nil THEN lruList.len ELSE lruList.len - 1
  BY TrimmedSound
<1>3. Cardinality(Q \ {k}) = Trimmed(k).len
  <2>1. CASE cache[k] = Nil
    <3>1. Q \ {k} = Q
      BY <2>1, <1>1
    <3> QED BY <3>1, <2>1, <1>1, <1>2
  <2>2. CASE cache[k] # Nil
    <3>1. k \in Q
      BY <2>2, <1>1
    <3>2. Cardinality(Q \ {k}) = Cardinality(Q) - 1
      BY <3>1, <1>1, FS_RemoveElement
    <3> QED BY <3>2, <2>2, <1>1, <1>2
  <2> QED BY <2>1, <2>2
<1>4. Policy!Dropped(k) = IF MustEvict(k) THEN Policy!Oldest ELSE {}
  BY <1>3, SameCount DEF Policy!Dropped, MustEvict
<1>5. ASSUME MustEvict(k) PROVE cache[k] = Nil /\ lruList.len # 0 /\ Trimmed(k) = lruList
  BY <1>5, <1>1, <1>2, CapacityIsNat DEF MustEvict, Trimmed
<1> QED BY <1>4, <1>5, OldestIsBack

\* What is newer than an element that Set keeps, in the list it then pushes to.
LEMMA EvictedNewer ==
  ASSUME IInv, Capacity # 0, NEW k \in Keys, NEW j \in Keys \ {k},
         cache[j] \in Members(Evicted(k)), cache[j] # Nil
  PROVE  /\ KeysOf(Newer(Evicted(k), cache[j])) = (newer[j] \ {k}) \ Policy!Dropped(k)
         /\ Newer(Evicted(k), cache[j]) \subseteq Members(Evicted(k))
         /\ j \notin Policy!Dropped(k)
<1> DEFINE S == Newer(lruList, cache[j])
<1>1. /\ S \in SUBSET Members(lruList) /\ newer[j] = KeysOf(S)
      /\ Sound(lruList) /\ Nil \notin Members(lruList)
  BY NewerFacts
<1>2. Sound(Evicted(k))
  BY EvictionFindsVictim, RoomForKey
<1>3. Newer(Evicted(k), cache[j]) \subseteq Members(Evicted(k))
  BY <1>2, NewerAreMembers
<1>4. CASE MustEvict(k)
  <2> DEFINE b == Back(lruList)
  <2>1. /\ cache[k] = Nil /\ Trimmed(k) = lruList /\ lruList.len # 0
        /\ Policy!Dropped(k) = {content[b].key}
    BY <1>4, DroppedIsBack
  <2>2. content[b].key \in Keys /\ cache[content[b].key] = b /\ b \in Members(lruList)
    BY <2>1, <1>1, OldestIsBack, BackIsMember
  <2>3. /\ Evicted(k) = Unlink(lruList, b)
        /\ Members(Evicted(k)) = Members(lruList) \ {b}
    BY <1>1, <1>4, <2>1, <2>2, RemoveSound DEF Evicted
  <2>4. cache[j] # b
    BY <2>3
  <2>5. Newer(Evicted(k), cache[j]) = S \ {cache[content[b].key]}
    BY <2>2, <2>3, <2>4, <1>1, UnlinkNewer
  <2>6. KeysOf(Newer(Evicted(k), cache[j])) = newer[j] \ {content[b].key}
    BY <2>2, <2>5, <1>1, KeysOfLess
  <2>7. k \notin newer[j]
    BY <2>1, NewerFacts
  <2>8. j # content[b].key
    BY <2>2, <2>4
  <2> QED BY <2>1, <2>6, <2>7, <2>8, <1>3
<1>5. CASE ~MustEvict(k) /\ cache[k] = Nil
  <2>1. Evicted(k) = lruList /\ Policy!Dropped(k) = {}
    BY <1>5, DroppedIsBack DEF Evicted, Trimmed
  <2>2. k \notin newer[j]
    BY <1>5, NewerFacts
  <2> QED BY <2>1, <2>2, <1>1, <1>3
<1>6. CASE ~MustEvict(k) /\ cache[k] # Nil
  <2>1. cache[k] \in Members(lruList)
    BY <1>6 DEF IInv, MapMatchesList
  <2>2. /\ Evicted(k) = Unlink(lruList, cache[k]) /\ Policy!Dropped(k) = {}
        /\ Members(Evicted(k)) = Members(lruList) \ {cache[k]}
    BY <1>1, <1>6, <2>1, DroppedIsBack, RemoveSound DEF Evicted, Trimmed
  <2>3. Newer(Evicted(k), cache[j]) = S \ {cache[k]}
    BY <1>1, <2>1, <2>2, UnlinkNewer
  <2>4. KeysOf(Newer(Evicted(k), cache[j])) = newer[j] \ {k}
    BY <1>1, <2>3, KeysOfLess
  <2> QED BY <2>2, <2>4, <1>3
<1> QED BY <1>4, <1>5, <1>6

LEMMA SetIsOrder ==
  ASSUME IInv, Capacity # 0, NEW k \in Keys, NEW v \in Values, Set(k, v)
  PROVE  Policy!OrderSet(k, v)
<1> DEFINE E == Evicted(k)
           P == Purged(k)
           G == Policy!Dropped(k)
<1>1. ~SetPanics(k)
  BY EvictionFindsVictim
<1>2. PICK n \in Nodes \ lruList.owned :
        /\ lruList' = PushFront(E, n)
        /\ cache' = [P EXCEPT ![k] = n]
        /\ content' = [content EXCEPT ![n] = [key |-> k, value |-> v]]
        /\ reply' = None
  BY <1>1 DEF Set
<1>3. /\ Sound(E) /\ Members(E) \subseteq Members(lruList)
      /\ P \in [Keys -> Nodes \cup {Nil}]
      /\ \A j \in Keys \ {k} : P[j] # Nil => P[j] = cache[j] /\ cache[j] \in Members(E)
  BY <1>1, RoomForKey
<1>4. /\ content \in [Nodes -> Entries \cup {None}]
      /\ cache \in [Keys -> Nodes \cup {Nil}] /\ Sound(lruList)
  BY DEF IInv, TypeOK
<1>5. n # Nil /\ n \notin Members(E) /\ n \notin Members(lruList) /\ n \notin E.owned
  BY <1>3, <1>4, MembersAreNodes, PointersDistinct DEF Members, Sound
<1>6. \A j \in Keys : cache'[j] = IF j = k THEN n ELSE P[j]
  BY <1>2, <1>3
<1>7. ASSUME NEW j \in Keys \ {k}
      PROVE  P[j] = IF j \in G THEN Nil ELSE cache[j]
  <2>1. CASE MustEvict(k)
    <3>1. /\ G = {content[Back(lruList)].key} /\ Trimmed(k) = lruList
      BY <2>1, DroppedIsBack
    <3>2. P = [cache EXCEPT ![content[Back(lruList)].key] = Nil]
      BY <2>1, <3>1 DEF Purged
    <3> QED BY <3>1, <3>2, <1>4
  <2>2. CASE ~MustEvict(k)
    BY <2>2, DroppedIsBack DEF Purged
  <2> QED BY <2>1, <2>2
<1>8. /\ content'[n].key = k /\ content'[n].value = v
      /\ \A m \in Members(lruList) : content'[m] = content[m]
  <2>1. Members(lruList) \subseteq Nodes
    BY <1>4, MembersAreNodes DEF Sound
  <2> QED BY <2>1, <1>2, <1>4, <1>5
<1>9. \A j \in Keys : cache[j] # Nil => cache[j] \in Members(lruList)
  BY DEF IInv, MapMatchesList
<1>10. store' = [j \in Keys |-> IF j = k THEN v ELSE IF j \in G THEN None ELSE store[j]]
  <2>1. store' = [j \in Keys |-> IF cache'[j] # Nil THEN content'[cache'[j]].value ELSE None]
    BY DEF store, Contains
  <2>2. store = [j \in Keys |-> IF cache[j] # Nil THEN content[cache[j]].value ELSE None]
    BY DEF store, Contains
  <2> QED BY <2>1, <2>2, <1>5, <1>6, <1>7, <1>8, <1>9
<1>11. /\ \A m \in Members(E) : Newer(lruList', m) = Newer(E, m) \cup {n}
       /\ Newer(lruList', n) = {} /\ Sound(lruList')
       /\ Members(lruList') = Members(E) \cup {n}
  BY <1>2, <1>3, <1>5, PushFrontNewer, PushFrontSound
<1>12. newer' = [j \in Keys |-> {content'[m].key : m \in Newer(lruList', cache'[j])}]
  BY DEF newer
<1>13. Policy!Present = {j \in Keys : cache[j] # Nil}
  BY PresentIsCached
<1>14. ASSUME NEW j \in Keys
       PROVE  {content'[m].key : m \in Newer(lruList', cache'[j])}
                = IF j = k \/ j \in G \/ j \notin Policy!Present THEN {}
                  ELSE (newer[j] \cup {k}) \ G
  <2>1. CASE j = k
    BY <2>1, <1>6, <1>11
  <2>2. CASE j # k /\ (j \in G \/ j \notin Policy!Present)
    <3>1. cache'[j] = Nil
      BY <2>2, <1>6, <1>7, <1>13
    <3>2. Nil \notin Members(lruList')
      BY <1>3, <1>4, <1>5, <1>11, NewerFacts
    <3>3. Newer(lruList', cache'[j]) = {}
      BY <3>1, <3>2, <1>11, NewerFrom
    <3> QED BY <2>2, <3>3
  <2>3. CASE j # k /\ j \notin G /\ j \in Policy!Present
    <3>1. cache'[j] = cache[j] /\ cache[j] # Nil /\ cache[j] \in Members(E)
      BY <2>3, <1>3, <1>6, <1>7, <1>13
    <3> DEFINE S == Newer(E, cache[j])
    <3>2. KeysOf(S) = (newer[j] \ {k}) \ G /\ S \subseteq Members(E)
      BY <2>3, <3>1, EvictedNewer
    <3>3. Newer(lruList', cache'[j]) = S \cup {n}
      BY <3>1, <1>11
    <3>4. {content'[m].key : m \in S} = KeysOf(S)
      BY <3>2, <1>3, <1>8 DEF KeysOf
    <3>5. {content'[m].key : m \in S \cup {n}} = {content'[m].key : m \in S} \cup {k}
      BY <1>8
    <3>6. k \notin G
      BY <1>4, DroppedIsBack, OldestIsBack, BackIsMember, NewerFacts
    <3> QED BY <2>3, <3>2, <3>3, <3>4, <3>5, <3>6
  <2> QED BY <2>1, <2>2, <2>3
<1>15. Policy!Use(k, G)
  BY <1>12, <1>14 DEF Policy!Use
<1> QED BY <1>2, <1>10, <1>15 DEF Policy!OrderSet

LEMMA GetIsOrder ==
  ASSUME IInv, NEW k \in Keys, Get(k)
  PROVE  Policy!OrderGet(k)
<1>1. UNCHANGED <<cache, content>> /\ store' = store /\ reply' = store[k]
  BY DEF Get, store, Contains
<1>2. Policy!Present = {j \in Keys : cache[j] # Nil}
  BY PresentIsCached
<1>3. CASE cache[k] = Nil
  <2>1. lruList' = lruList
    BY <1>3 DEF Get
  <2>2. newer' = newer
    BY <1>1, <2>1 DEF newer
  <2> QED BY <1>1, <1>2, <1>3, <2>2 DEF Policy!OrderGet
<1>4. CASE cache[k] # Nil
  <2> DEFINE c == cache[k]
             m == Unlink(lruList, c)
  <2>1. /\ Sound(lruList) /\ c \in Members(lruList) /\ c \in Nodes
        /\ content[c].key = k
    BY <1>4, MembersAreNodes DEF IInv, MapMatchesList, Allocated
  <2>2. /\ Sound(m) /\ Members(m) = Members(lruList) \ {c}
        /\ c \in Nodes \ m.owned
    <3>1. Sound(m) /\ Members(m) = Members(lruList) \ {c}
      BY <2>1, RemoveSound
    <3> QED BY <3>1, <2>1, PointersDistinct DEF Members
  <2>3. lruList' = PushFront(m, c)
    BY <1>4, <2>1 DEF Get, MoveToFront, CanRemove, Members
  <2>4. /\ \A n \in Members(m) : Newer(lruList', n) = Newer(m, n) \cup {c}
        /\ Newer(lruList', c) = {} /\ Sound(lruList')
        /\ Members(lruList') = Members(m) \cup {c}
    BY <2>2, <2>3, PushFrontNewer, PushFrontSound
  <2>5. newer' = [j \in Keys |-> KeysOf(Newer(lruList', cache[j]))]
    BY <1>1 DEF newer, KeysOf
  <2>6. ASSUME NEW j \in Keys
        PROVE  KeysOf(Newer(lruList', cache[j]))
                 = IF j = k \/ j \in {} \/ j \notin Policy!Present THEN {}
                   ELSE (newer[j] \cup {k}) \ {}
    <3>1. CASE j = k
      BY <3>1, <2>4 DEF KeysOf
    <3>2. CASE j # k /\ j \notin Policy!Present
      <4>1. cache[j] = Nil
        BY <3>2, <1>2
      <4>2. Nil \notin Members(lruList')
        BY <2>1, <2>2, <2>4, NewerFacts
      <4>3. Newer(lruList', cache[j]) = {}
        BY <4>1, <4>2, <2>4, NewerFrom
      <4> QED BY <3>2, <4>3 DEF KeysOf
    <3>3. CASE j # k /\ j \in Policy!Present
      <4>1. cache[j] \in Members(lruList) /\ cache[j] # c
        BY <3>3, <1>2, <2>1 DEF IInv, MapMatchesList
      <4>2. Newer(lruList', cache[j]) = (Newer(lruList, cache[j]) \ {c}) \cup {c}
        BY <4>1, <2>1, <2>2, <2>4, UnlinkNewer
      <4>3. KeysOf((Newer(lruList, cache[j]) \ {c}) \cup {c})
              = KeysOf(Newer(lruList, cache[j])) \cup {k}
        BY <2>1 DEF KeysOf
      <4>4. newer[j] = KeysOf(Newer(lruList, cache[j]))
        BY NewerFacts
      <4> QED BY <3>3, <4>2, <4>3, <4>4
    <3> QED BY <3>1, <3>2, <3>3
  <2>7. Policy!Use(k, {})
    BY <2>5, <2>6 DEF Policy!Use
  <2> QED BY <1>1, <1>2, <1>4, <2>7 DEF Policy!OrderGet
<1> QED BY <1>3, <1>4

LEMMA DeleteIsOrder ==
  ASSUME IInv, NEW k \in Keys, Delete(k)
  PROVE  Policy!OrderDelete(k)
<1>1. cache \in [Keys -> Nodes \cup {Nil}] /\ Sound(lruList)
  BY DEF IInv, TypeOK
<1>2. cache' = [cache EXCEPT ![k] = Nil] /\ content' = content
  BY <1>1 DEF Delete
<1>3. store' = [store EXCEPT ![k] = None]
  BY <1>1, <1>2 DEF store, Contains
<1>4. reply' = IF k \in Policy!Present THEN None ELSE Refused
  BY PresentIsCached DEF Delete
<1>5. newer' = [j \in Keys |-> KeysOf(Newer(lruList', cache'[j]))]
  BY <1>2 DEF newer, KeysOf
<1>6. newer' = [j \in Keys |-> IF j = k THEN {} ELSE newer[j] \ {k}]
  <2>1. CASE cache[k] = Nil
    <3>1. lruList' = lruList /\ cache' = cache
      BY <2>1 DEF Delete
    <3>2. newer' = newer
      BY <3>1, <1>2 DEF newer
    <3>3. \A j \in Keys : k \notin newer[j] /\ newer[k] = {}
      BY <2>1, NewerFacts
    <3> QED BY <3>2, <3>3, NewerFacts
  <2>2. CASE cache[k] # Nil
    <3> DEFINE c == cache[k]
    <3>1. c \in Members(lruList) /\ lruList' = Unlink(lruList, c) /\ Nil \notin Members(lruList)
      BY <2>2, <1>1, RemoveSound, NewerFacts DEF Delete, IInv, MapMatchesList
    <3>2. Sound(lruList') /\ Members(lruList') = Members(lruList) \ {c}
      BY <3>1, <1>1, RemoveSound
    <3>3. ASSUME NEW j \in Keys, j # k
          PROVE  KeysOf(Newer(lruList', cache'[j])) = newer[j] \ {k}
      <4>1. cache'[j] = cache[j] /\ cache[j] # c
        BY <2>2, <3>1, <3>3, <1>1, <1>2 DEF IInv, MapMatchesList
      <4>2. Newer(lruList', cache'[j]) = Newer(lruList, cache[j]) \ {c}
        BY <4>1, <3>1, <1>1, UnlinkNewer
      <4>3. /\ Newer(lruList, cache[j]) \subseteq Members(lruList)
            /\ newer[j] = KeysOf(Newer(lruList, cache[j]))
        BY NewerFacts
      <4> QED BY <4>2, <4>3, KeysOfLess
    <3>4. KeysOf(Newer(lruList', cache'[k])) = {}
      <4>1. cache'[k] = Nil /\ Nil \notin Members(lruList')
        BY <1>1, <1>2, <3>1, <3>2
      <4>2. Newer(lruList', cache'[k]) = {}
        BY <4>1, <3>2, NewerFrom
      <4> QED BY <4>2 DEF KeysOf
    <3> QED BY <1>5, <3>3, <3>4
  <2> QED BY <2>1, <2>2
<1> QED BY <1>3, <1>4, <1>6 DEF Policy!OrderDelete

LEMMA EmptyHasNoNewer ==
  \A n : Newer(NewLRUList, n) = {}
<1>1. Sound(NewLRUList) /\ Members(NewLRUList) = {}
  BY NewListSound
<1> QED BY <1>1, NewerFrom

\* A cache of positive capacity implements the recency policy: what an
\* overflowing Set drops is the key that Set and Get left alone the longest,
\* after any sequence of calls.
THEOREM ImplementsLruOrder == Capacity # 0 => (Spec => KeepsLruOrder)
<1> SUFFICES ASSUME Capacity # 0 PROVE Spec => KeepsLruOrder
  OBVIOUS
<1>1. Init => Policy!OrderInit
  BY EmptyHasNoNewer DEF Init, Policy!OrderInit, store, newer, Contains
<1>2. IInv /\ [Next]_vars => [Policy!OrderNext]_(Policy!orderVars)
  <2> SUFFICES ASSUME IInv, [Next]_vars
               PROVE  [Policy!OrderNext]_(Policy!orderVars)
    OBVIOUS
  <2>1. ASSUME NEW k \in Keys, NEW v \in Values, Set(k, v)
        PROVE  Policy!OrderNext
    BY <2>1, SetIsOrder DEF Policy!OrderNext
  <2>2. ASSUME NEW k \in Keys, Get(k) PROVE Policy!OrderNext
    BY <2>2, GetIsOrder DEF Policy!OrderNext
  <2>3. ASSUME NEW k \in Keys, Delete(k) PROVE Policy!OrderNext
    BY <2>3, DeleteIsOrder DEF Policy!OrderNext
  <2>4. CASE Flush
    <3>1. store' = [k \in Keys |-> None]
      BY <2>4 DEF Flush, store, Contains
    <3>2. newer' = [k \in Keys |-> {}]
      BY <2>4, EmptyHasNoNewer, FlushLeavesNewList DEF Flush, newer
    <3> QED BY <2>4, <3>1, <3>2 DEF Flush, Policy!OrderFlush, Policy!OrderNext
  <2>5. CASE UNCHANGED vars
    BY <2>5 DEF vars, store, newer, Contains, Policy!orderVars
  <2> QED BY <2>1, <2>2, <2>3, <2>4, <2>5 DEF Next
<1> QED BY <1>1, <1>2, Inductive, PTL DEF Spec, KeepsLruOrder, Policy!OrderSpec
=============================================================================
