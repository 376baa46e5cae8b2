--------------------------- MODULE LruListProofs ---------------------------
(***************************************************************************)
(* What insert and Remove preserve, for lists of any length over any set   *)
(* of nodes.  Linked and Counted are local facts about neighbours; that    *)
(* Back() finds a node whenever len > 0 is not: two separate rings would   *)
(* be linked and counted too.  OneRing adds the missing global fact: the   *)
(* elements are s[0] = Root, s[1], ..., s[len] in next-order, all distinct. *)
(***************************************************************************)
EXTENDS LruList, FoldLemmas

Orders(l, s) ==
  /\ s \in [0 .. l.len -> l.owned]
  /\ s[0] = Root
  /\ \A i, j \in 0 .. l.len : s[i] = s[j] => i = j
  /\ \A n \in l.owned : \E i \in 0 .. l.len : s[i] = n
  /\ \A i \in 0 .. l.len : l.next[s[i]] = IF i = l.len THEN Root ELSE s[i + 1]

OneRing(l) == \E s : Orders(l, s)

Sound(l) == l \in Lists /\ Linked(l) /\ Counted(l) /\ OneRing(l)

\* A new list is sound and has no members.
LEMMA NewListSound == Sound(NewLRUList) /\ Members(NewLRUList) = {} /\ NewLRUList.len = 0
<1> DEFINE l == NewLRUList
<1>1. l \in Lists
  BY PointersDistinct DEF NewLRUList, Lists, Elements, Pointers
<1>2. Linked(l)
  BY PointersDistinct DEF NewLRUList, Linked, Elements
<1>3. Members(l) = {} /\ l.len = 0
  BY DEF NewLRUList, Members
<1>4. Counted(l)
  BY <1>3, FS_EmptySet, FS_Singleton DEF NewLRUList, Counted
<1>5. OneRing(l)
  <2> DEFINE s == [i \in 0 .. 0 |-> Root]
  <2>1. Orders(l, s)
    BY PointersDistinct DEF NewLRUList, Orders, Elements
  <2> QED BY <2>1 DEF OneRing
<1> QED BY <1>1, <1>2, <1>3, <1>4, <1>5 DEF Sound

\* The back of a list that counts at least one element is one of its members.
LEMMA BackIsMember ==
  ASSUME NEW l, Sound(l), l.len # 0
  PROVE  Back(l) \in Members(l) /\ Back(l) # Nil
<1>1. PICK s : Orders(l, s)
  BY DEF Sound, OneRing
<1>2. l.len \in Nat /\ 0 \in 0 .. l.len /\ 1 \in 0 .. l.len /\ 0 + 1 = 1
  BY DEF Sound, Lists
<1>3. l.next[Root] = s[1]
  BY <1>1, <1>2 DEF Orders
<1>4. s[1] \in l.owned /\ s[1] # Root
  BY <1>1, <1>2 DEF Orders
<1>5. l.owned \subseteq Elements
  BY DEF Sound, Lists
<1> QED BY <1>3, <1>4, <1>5, PointersDistinct DEF Back, Members, Elements

\* The enumerations that Remove and insert leave.
Shortened(l, s, k) == [i \in 0 .. l.len - 1 |-> IF i < k THEN s[i] ELSE s[i + 1]]

Extended(l, s, k, node) ==
  [i \in 0 .. l.len + 1 |->
     IF i = k + 1 THEN node ELSE IF i < k + 1 THEN s[i] ELSE s[i - 1]]

\* Remove of a member keeps the list sound, takes out that member alone, and
\* leaves the others in their order.
LEMMA UnlinkKeepsRing ==
  ASSUME NEW l, Sound(l), NEW at \in Members(l)
  PROVE  /\ Remove(l, at) = Unlink(l, at)
         /\ Sound(Unlink(l, at))
         /\ Members(Unlink(l, at)) = Members(l) \ {at}
         /\ Unlink(l, at).len = l.len - 1
         /\ CanInsert(Unlink(l, at), at, Root)
         /\ \A s : Orders(l, s) => \A k \in 0 .. l.len : s[k] = at =>
              Orders(Unlink(l, at), Shortened(l, s, k))
<1> DEFINE m == Unlink(l, at)
<1>1. /\ l \in Lists /\ Linked(l) /\ Counted(l)
      /\ at \in l.owned /\ at # Root /\ l.owned \subseteq Elements
  BY DEF Sound, Members, Lists
<1>2. Remove(l, at) = m
  BY <1>1 DEF Remove, CanRemove
<1>3. /\ l.next \in [Elements -> Pointers] /\ l.prev \in [Elements -> Pointers]
      /\ l.len \in Nat
  BY <1>1 DEF Lists
<1> DEFINE p == l.prev[at]
           q == l.next[at]
<1>4. p \in l.owned /\ q \in l.owned /\ l.next[p] = at /\ l.prev[q] = at /\ p # at /\ q # at
  <2>1. p \in l.owned /\ q \in l.owned /\ l.next[p] = at /\ l.prev[q] = at
    BY <1>1 DEF Linked
  <2>2. PICK s : Orders(l, s)
    BY DEF Sound, OneRing
  <2>3. PICK i \in 0 .. l.len : s[i] = at
    BY <1>1, <2>2 DEF Orders
  <2>4. l.next[at] # at
    <3>1. CASE i = l.len
      BY <3>1, <2>2, <2>3, <1>1 DEF Orders
    <3>2. CASE i # l.len
      <4>1. i + 1 \in 0 .. l.len /\ i + 1 # i
        BY <3>2, <1>3
      <4>2. l.next[at] = s[i + 1]
        BY <3>2, <2>2, <2>3 DEF Orders
      <4> QED BY <4>1, <4>2, <2>2, <2>3 DEF Orders
    <3> QED BY <3>1, <3>2
  <2> QED BY <2>1, <2>4
<1>5. /\ m.next = [l.next EXCEPT ![p] = q, ![at] = Nil]
      /\ m.prev = [l.prev EXCEPT ![q] = p, ![at] = Nil]
      /\ m.owned = l.owned \ {at}
      /\ m.len = l.len - 1
  BY DEF Unlink
<1>6. Members(m) = Members(l) \ {at}
  BY <1>5 DEF Members
<1>7. Counted(m) /\ m.len \in Nat
  <2>1. IsFiniteSet(l.owned) /\ IsFiniteSet(Members(l))
    BY <1>1, FS_Subset DEF Counted, Members
  <2>2. IsFiniteSet(m.owned)
    BY <2>1, <1>5, FS_RemoveElement
  <2>3. /\ Cardinality(Members(m)) = Cardinality(Members(l)) - 1
        /\ IsFiniteSet(Members(m))
    BY <2>1, <1>6, FS_RemoveElement
  <2>4. Cardinality(Members(m)) \in Nat
    BY <2>3, FS_CardinalityType
  <2> QED BY <1>1, <1>5, <2>2, <2>3, <2>4 DEF Counted
<1>8. \A n \in Elements :
        /\ m.next[n] = IF n = at THEN Nil ELSE IF n = p THEN q ELSE l.next[n]
        /\ m.prev[n] = IF n = at THEN Nil ELSE IF n = q THEN p ELSE l.prev[n]
  BY <1>1, <1>3, <1>4, <1>5
<1>9. Linked(m)
  <2>1. Root \in m.owned
    BY <1>1, <1>5 DEF Linked
  <2>2. ASSUME NEW n \in m.owned
        PROVE  /\ m.next[n] \in m.owned /\ m.prev[m.next[n]] = n
               /\ m.prev[n] \in m.owned /\ m.next[m.prev[n]] = n
    <3>1. n \in l.owned /\ n # at /\ n \in Elements
      BY <1>1, <1>5
    <3>2. /\ l.next[n] \in l.owned /\ l.prev[l.next[n]] = n
          /\ l.prev[n] \in l.owned /\ l.next[l.prev[n]] = n
      BY <3>1, <1>1 DEF Linked
    <3>3. m.next[n] \in m.owned /\ m.prev[m.next[n]] = n
      <4>1. CASE n = p
        BY <4>1, <3>1, <3>2, <1>1, <1>4, <1>5, <1>8
      <4>2. CASE n # p
        <5>1. m.next[n] = l.next[n]
          BY <4>2, <3>1, <1>8
        <5>2. l.next[n] # at /\ l.next[n] # q
          BY <4>2, <3>1, <3>2, <1>4
        <5> QED BY <5>1, <5>2, <3>2, <1>1, <1>5, <1>8
      <4> QED BY <4>1, <4>2
    <3>4. m.prev[n] \in m.owned /\ m.next[m.prev[n]] = n
      <4>1. CASE n = q
        BY <4>1, <3>1, <3>2, <1>1, <1>4, <1>5, <1>8
      <4>2. CASE n # q
        <5>1. m.prev[n] = l.prev[n]
          BY <4>2, <3>1, <1>8
        <5>2. l.prev[n] # at /\ l.prev[n] # p
          BY <4>2, <3>1, <3>2, <1>4
        <5> QED BY <5>1, <5>2, <3>2, <1>1, <1>5, <1>8
      <4> QED BY <4>1, <4>2
    <3> QED BY <3>3, <3>4
  <2>3. ASSUME NEW n \in Elements \ m.owned
        PROVE  m.next[n] = Nil /\ m.prev[n] = Nil
    <3>1. CASE n = at
      BY <3>1, <1>8
    <3>2. CASE n # at
      <4>1. n \notin l.owned
        BY <3>2, <1>5
      <4> QED BY <4>1, <3>2, <1>1, <1>4, <1>8 DEF Linked
    <3> QED BY <3>1, <3>2
  <2> QED BY <2>1, <2>2, <2>3 DEF Linked
<1>10. m \in Lists
  <2>1. p \in Pointers /\ q \in Pointers /\ Nil \in Pointers
    BY <1>1, <1>4 DEF Pointers
  <2>2. m.next \in [Elements -> Pointers] /\ m.prev \in [Elements -> Pointers]
    BY <2>1, <1>3, <1>5
  <2>3. m = [next |-> m.next, prev |-> m.prev, owned |-> m.owned, len |-> m.len]
    BY DEF Unlink
  <2> QED BY <2>2, <2>3, <1>1, <1>5, <1>7 DEF Lists
<1>11. ASSUME NEW s, Orders(l, s), NEW k \in 0 .. l.len, s[k] = at
       PROVE  Orders(m, Shortened(l, s, k))
  <2>1. Orders(l, s)
    BY <1>11
  <2>2. s[k] = at
    BY <1>11
  <2>3. k # 0
    BY <1>1, <2>1, <2>2 DEF Orders
  <2> DEFINE t == [i \in 0 .. m.len |-> IF i < k THEN s[i] ELSE s[i + 1]]
  <2>4. \A i \in 0 .. m.len : i \in 0 .. l.len /\ i + 1 \in 0 .. l.len
    BY <1>3, <1>5
  <2>5. t \in [0 .. m.len -> m.owned]
    BY <2>1, <2>2, <2>4, <1>5 DEF Orders
  <2>6. t[0] = Root
    BY <2>1, <2>3, <1>7 DEF Orders
  <2>7. \A i, j \in 0 .. m.len : t[i] = t[j] => i = j
    BY <2>1, <2>4 DEF Orders
  <2>8. ASSUME NEW n \in m.owned
        PROVE  \E i \in 0 .. m.len : t[i] = n
    <3>1. PICK i \in 0 .. l.len : s[i] = n
      BY <2>1, <1>5 DEF Orders
    <3>2. i # k
      BY <3>1, <2>2, <1>5
    <3>3. CASE i < k
      <4>1. i \in 0 .. m.len
        BY <3>3, <1>3, <1>5
      <4> QED BY <4>1, <3>1, <3>3
    <3>4. CASE i > k
      <4>1. i - 1 \in 0 .. m.len /\ ~(i - 1 < k) /\ (i - 1) + 1 = i
        BY <3>4, <1>3, <1>5, <2>3
      <4> QED BY <4>1, <3>1
    <3> QED BY <3>2, <3>3, <3>4
  <2>9. ASSUME NEW i \in 0 .. m.len
        PROVE  m.next[t[i]] = IF i = m.len THEN Root ELSE t[i + 1]
    <3>1. t[i] \in m.owned /\ t[i] \in Elements /\ t[i] # at
      BY <2>5, <1>1, <1>5
    <3>2. m.next[t[i]] = IF t[i] = p THEN q ELSE l.next[t[i]]
      BY <3>1, <1>8
    <3>3. k - 1 \in 0 .. l.len /\ (k - 1) + 1 = k /\ k - 1 # l.len
      BY <2>3, <1>3
    <3>4. s[k - 1] = p
      <4>1. l.next[s[k - 1]] = at
        BY <3>3, <2>1, <2>2 DEF Orders
      <4>2. s[k - 1] \in l.owned
        BY <3>3, <2>1 DEF Orders
      <4> QED BY <4>1, <4>2, <1>1 DEF Linked
    <3>5. q = IF k = l.len THEN Root ELSE s[k + 1]
      BY <2>1, <2>2 DEF Orders
    <3>6. CASE i < k - 1
      <4>1. t[i] = s[i] /\ t[i + 1] = s[i + 1] /\ i # m.len /\ i # l.len
        BY <3>6, <1>3, <1>5
      <4>2. s[i] # p
        BY <3>3, <3>4, <3>6, <2>1, <2>4 DEF Orders
      <4> QED BY <4>1, <4>2, <3>2, <2>1, <2>4 DEF Orders
    <3>7. CASE i = k - 1
      <4>1. t[i] = p
        BY <3>4, <3>7
      <4>2. m.next[t[i]] = IF k = l.len THEN Root ELSE s[k + 1]
        BY <4>1, <3>2, <3>5
      <4>3. i = m.len <=> k = l.len
        BY <3>7, <1>3, <1>5
      <4>4. i # m.len => t[i + 1] = s[k + 1]
        BY <3>7, <1>3, <1>5
      <4> QED BY <4>2, <4>3, <4>4
    <3>8. CASE i >= k
      <4>0. ~(i < k) /\ ~(i + 1 < k)
        BY <3>8, <1>3
      <4>1. t[i] = s[i + 1] /\ (i = m.len <=> i + 1 = l.len)
        BY <4>0, <1>3, <1>5
      <4>2. s[i + 1] # p
        BY <3>3, <3>4, <3>8, <2>1, <2>4 DEF Orders
      <4>3. l.next[s[i + 1]] = IF i + 1 = l.len THEN Root ELSE s[i + 1 + 1]
        BY <2>1, <2>4 DEF Orders
      <4>4. i # m.len => t[i + 1] = s[i + 1 + 1]
        BY <4>0, <1>3, <1>5
      <4> QED BY <4>1, <4>2, <4>3, <4>4, <3>2
    <3> QED BY <3>6, <3>7, <3>8
  <2>10. Orders(m, t)
    BY <2>5, <2>6, <2>7, <2>8, <2>9 DEF Orders
  <2>11. t = Shortened(l, s, k)
    BY <1>5 DEF Shortened
  <2> QED BY <2>10, <2>11
<1>12. CanInsert(m, at, Root)
  BY <1>1, <1>5, <1>8, <1>9 DEF CanInsert, Linked
<1>13. OneRing(m)
  <2>1. PICK s : Orders(l, s)
    BY DEF Sound, OneRing
  <2>2. PICK k \in 0 .. l.len : s[k] = at
    BY <1>1, <2>1 DEF Orders
  <2> QED BY <1>11, <2>1, <2>2 DEF OneRing
<1> QED BY <1>2, <1>5, <1>6, <1>7, <1>9, <1>10, <1>11, <1>12, <1>13 DEF Sound

LEMMA RemoveSound ==
  ASSUME NEW l, Sound(l), NEW at \in Members(l)
  PROVE  /\ Remove(l, at) = Unlink(l, at)
         /\ Sound(Unlink(l, at))
         /\ Members(Unlink(l, at)) = Members(l) \ {at}
         /\ Unlink(l, at).len = l.len - 1
         /\ CanInsert(Unlink(l, at), at, Root)
BY UnlinkKeepsRing

\* insert of an unlinked node after any element keeps the list sound, adds that
\* node alone, and right behind that element; it is not refused.
LEMMA LinkKeepsRing ==
  ASSUME NEW l, Sound(l), NEW node \in Nodes \ l.owned, NEW at \in l.owned
  PROVE  /\ CanInsert(l, node, at)
         /\ Sound(Link(l, node, at))
         /\ Members(Link(l, node, at)) = Members(l) \cup {node}
         /\ Link(l, node, at).len = l.len + 1
         /\ Link(l, node, at).owned = l.owned \cup {node}
         /\ \A s : Orders(l, s) => \A k \in 0 .. l.len : s[k] = at =>
              Orders(Link(l, node, at), Extended(l, s, k, node))
<1> DEFINE m == Link(l, node, at)
           q == l.next[at]
<1>1. /\ l \in Lists /\ Linked(l) /\ Counted(l)
      /\ l.owned \subseteq Elements /\ node \in Elements /\ at \in Elements
      /\ node # Root /\ Root \in l.owned /\ node \notin l.owned /\ at # node
  BY PointersDistinct DEF Sound, Lists, Linked, Elements
<1>2. /\ l.next \in [Elements -> Pointers] /\ l.prev \in [Elements -> Pointers]
      /\ l.len \in Nat
  BY <1>1 DEF Lists
<1>3. q \in l.owned /\ l.prev[q] = at /\ q # node /\ q \in Elements
  BY <1>1 DEF Linked
<1>4. l.next[node] = Nil /\ l.prev[node] = Nil
  BY <1>1 DEF Linked
<1>5. CanInsert(l, node, at)
  BY <1>1, <1>4 DEF CanInsert
<1>6. /\ m.next = [l.next EXCEPT ![at] = node, ![node] = q]
      /\ m.prev = [l.prev EXCEPT ![node] = at, ![q] = node]
      /\ m.owned = l.owned \cup {node}
      /\ m.len = l.len + 1
  BY DEF Link
<1>7. Members(m) = Members(l) \cup {node}
  BY <1>1, <1>6 DEF Members
<1>8. \A n \in Elements :
        /\ m.next[n] = IF n = node THEN q ELSE IF n = at THEN node ELSE l.next[n]
        /\ m.prev[n] = IF n = q THEN node ELSE IF n = node THEN at ELSE l.prev[n]
  BY <1>1, <1>2, <1>3, <1>6
<1>9. Counted(m) /\ m.len \in Nat
  <2>1. IsFiniteSet(l.owned) /\ IsFiniteSet(Members(l)) /\ node \notin Members(l)
    BY <1>1, FS_Subset DEF Counted, Members
  <2>2. IsFiniteSet(m.owned)
    BY <2>1, <1>6, FS_AddElement
  <2>3. Cardinality(Members(m)) = Cardinality(Members(l)) + 1
    BY <2>1, <1>7, FS_AddElement
  <2> QED BY <1>1, <1>2, <1>6, <2>2, <2>3 DEF Counted
<1>10. m \in Lists
  <2>1. m.next \in [Elements -> Pointers] /\ m.prev \in [Elements -> Pointers]
    BY <1>1, <1>2, <1>3, <1>6 DEF Pointers
  <2>2. m = [next |-> m.next, prev |-> m.prev, owned |-> m.owned, len |-> m.len]
    BY DEF Link
  <2> QED BY <2>1, <2>2, <1>1, <1>6, <1>9 DEF Lists
<1>11. Linked(m)
  <2>1. ASSUME NEW n \in l.owned
        PROVE  /\ m.next[n] \in m.owned /\ m.prev[m.next[n]] = n
               /\ m.prev[n] \in m.owned /\ m.next[m.prev[n]] = n
    <3>1. /\ n \in Elements /\ n # node
          /\ l.next[n] \in l.owned /\ l.prev[l.next[n]] = n
          /\ l.prev[n] \in l.owned /\ l.next[l.prev[n]] = n
      BY <1>1 DEF Linked
    <3>2. m.next[n] \in m.owned /\ m.prev[m.next[n]] = n
      <4>1. CASE n = at
        BY <4>1, <3>1, <1>1, <1>3, <1>6, <1>8
      <4>2. CASE n # at
        <5>1. m.next[n] = l.next[n] /\ l.next[n] # q /\ l.next[n] # node
          BY <4>2, <3>1, <1>1, <1>3, <1>8
        <5> QED BY <5>1, <3>1, <1>1, <1>6, <1>8
      <4> QED BY <4>1, <4>2
    <3>3. m.prev[n] \in m.owned /\ m.next[m.prev[n]] = n
      <4>1. CASE n = q
        BY <4>1, <3>1, <1>1, <1>3, <1>6, <1>8
      <4>2. CASE n # q
        <5>1. m.prev[n] = l.prev[n] /\ l.prev[n] # at /\ l.prev[n] # node
          BY <4>2, <3>1, <1>1, <1>3, <1>8
        <5> QED BY <5>1, <3>1, <1>1, <1>6, <1>8
      <4> QED BY <4>1, <4>2
    <3> QED BY <3>2, <3>3
  <2>2. /\ m.next[node] \in m.owned /\ m.prev[m.next[node]] = node
        /\ m.prev[node] \in m.owned /\ m.next[m.prev[node]] = node
    BY <1>1, <1>3, <1>6, <1>8
  <2>3. ASSUME NEW n \in Elements \ m.owned
        PROVE  m.next[n] = Nil /\ m.prev[n] = Nil
    BY <1>1, <1>3, <1>6, <1>8 DEF Linked
  <2> QED BY <2>1, <2>2, <2>3, <1>1, <1>6 DEF Linked
<1>12. ASSUME NEW s, Orders(l, s), NEW k \in 0 .. l.len, s[k] = at
       PROVE  Orders(m, Extended(l, s, k, node))
  <2>1. Orders(l, s)
    BY <1>12
  <2>2. s[k] = at
    BY <1>12
  <2> DEFINE t == [i \in 0 .. m.len |->
                     IF i = k + 1 THEN node ELSE IF i < k + 1 THEN s[i] ELSE s[i - 1]]
  <2>3. /\ k + 1 \in 0 .. m.len /\ k + 1 # 0
        /\ \A i \in 0 .. m.len : /\ i < k + 1 => i \in 0 .. l.len
                                 /\ i > k + 1 => i - 1 \in 0 .. l.len
    BY <1>2, <1>6
  <2>4. t \in [0 .. m.len -> m.owned]
    BY <2>1, <2>3, <1>6 DEF Orders
  <2>5. t[0] = Root
    BY <2>1, <2>3, <1>2, <1>6 DEF Orders
  <2>6. ASSUME NEW i \in 0 .. m.len, NEW j \in 0 .. m.len, t[i] = t[j]
        PROVE  i = j
    <3>1. i # k + 1 => t[i] \in l.owned
      BY <2>1, <2>3 DEF Orders
    <3>2. j # k + 1 => t[j] \in l.owned
      BY <2>1, <2>3 DEF Orders
    <3>3. CASE i = k + 1 \/ j = k + 1
      BY <3>1, <3>2, <3>3, <2>6, <1>1
    <3>4. CASE i # k + 1 /\ j # k + 1
      <4> DEFINE a == IF i < k + 1 THEN i ELSE i - 1
                 b == IF j < k + 1 THEN j ELSE j - 1
      <4>1. a \in 0 .. l.len /\ b \in 0 .. l.len
        BY <3>4, <2>3
      <4>2. t[i] = s[a] /\ t[j] = s[b]
        BY <3>4
      <4>3. a = b
        BY <4>1, <4>2, <2>6, <2>1 DEF Orders
      <4> QED BY <4>3, <3>4
    <3> QED BY <3>3, <3>4
  <2>7. ASSUME NEW n \in m.owned
        PROVE  \E i \in 0 .. m.len : t[i] = n
    <3>1. CASE n = node
      BY <3>1, <2>3
    <3>2. CASE n # node
      <4>1. PICK i \in 0 .. l.len : s[i] = n
        BY <3>2, <2>1, <1>6 DEF Orders
      <4>2. CASE i < k + 1
        <5>1. i \in 0 .. m.len /\ i # k + 1
          BY <4>2, <1>2, <1>6
        <5> QED BY <5>1, <4>1, <4>2
      <4>3. CASE ~(i < k + 1)
        <5>1. i + 1 \in 0 .. m.len /\ i + 1 # k + 1 /\ ~(i + 1 < k + 1) /\ (i + 1) - 1 = i
          BY <4>3, <1>2, <1>6
        <5> QED BY <5>1, <4>1
      <4> QED BY <4>2, <4>3
    <3> QED BY <3>1, <3>2
  <2>8. ASSUME NEW i \in 0 .. m.len
        PROVE  m.next[t[i]] = IF i = m.len THEN Root ELSE t[i + 1]
    <3>1. q = IF k = l.len THEN Root ELSE s[k + 1]
      BY <2>1, <2>2 DEF Orders
    <3>2. CASE i < k
      <4>1. /\ i \in 0 .. l.len /\ i # l.len /\ i # m.len
            /\ t[i] = s[i] /\ t[i + 1] = s[i + 1]
        BY <3>2, <1>2, <1>6
      <4>2. s[i] \in l.owned /\ s[i] # at /\ l.next[s[i]] = s[i + 1]
        BY <4>1, <3>2, <2>1, <2>2 DEF Orders
      <4> QED BY <4>1, <4>2, <1>1, <1>8
    <3>3. CASE i = k
      <4>1. i # m.len /\ t[i] = at /\ t[i + 1] = node
        BY <3>3, <2>2, <1>2, <1>6
      <4> QED BY <4>1, <1>1, <1>8
    <3>4. CASE i = k + 1
      <4>1. m.next[t[i]] = q
        BY <3>4, <1>1, <1>8
      <4>2. i = m.len <=> k = l.len
        BY <3>4, <1>2, <1>6
      <4>3. i # m.len => t[i + 1] = s[k + 1]
        BY <3>4, <1>2, <1>6
      <4> QED BY <4>1, <4>2, <4>3, <3>1
    <3>5. CASE i > k + 1
      <4>1. /\ i - 1 \in 0 .. l.len /\ i - 1 # k
            /\ (i = m.len <=> i - 1 = l.len) /\ (i - 1) + 1 = i
        BY <3>5, <1>2, <1>6
      <4>2. t[i] = s[i - 1]
        BY <3>5
      <4>3. s[i - 1] \in l.owned /\ s[i - 1] # at
        BY <4>1, <2>1, <2>2 DEF Orders
      <4>4. l.next[s[i - 1]] = IF i - 1 = l.len THEN Root ELSE s[i]
        BY <4>1, <2>1 DEF Orders
      <4>5. i # m.len => t[i + 1] = s[i]
        BY <3>5, <1>2, <1>6
      <4> QED BY <4>1, <4>2, <4>3, <4>4, <4>5, <1>1, <1>8
    <3> QED BY <3>2, <3>3, <3>4, <3>5
  <2>9. Orders(m, t)
    BY <2>4, <2>5, <2>6, <2>7, <2>8 DEF Orders
  <2>10. t = Extended(l, s, k, node)
    BY <1>6 DEF Extended
  <2> QED BY <2>9, <2>10
<1>13. OneRing(m)
  <2>1. PICK s : Orders(l, s)
    BY DEF Sound, OneRing
  <2>2. PICK k \in 0 .. l.len : s[k] = at
    BY <2>1 DEF Orders
  <2> QED BY <1>12, <2>1, <2>2 DEF OneRing
<1> QED BY <1>5, <1>6, <1>7, <1>9, <1>10, <1>11, <1>12, <1>13 DEF Sound

LEMMA InsertSound ==
  ASSUME NEW l, Sound(l), NEW node \in Nodes \ l.owned, NEW at \in l.owned
  PROVE  /\ CanInsert(l, node, at)
         /\ Sound(Link(l, node, at))
         /\ Members(Link(l, node, at)) = Members(l) \cup {node}
         /\ Link(l, node, at).len = l.len + 1
         /\ Link(l, node, at).owned = l.owned \cup {node}
BY LinkKeepsRing

\* PushFront of an unlinked node keeps the list sound and adds that node alone.
LEMMA PushFrontSound ==
  ASSUME NEW l, Sound(l), NEW node \in Nodes \ l.owned
  PROVE  /\ Sound(PushFront(l, node))
         /\ Members(PushFront(l, node)) = Members(l) \cup {node}
         /\ PushFront(l, node).len = l.len + 1
<1>1. l.prev[Root] \in l.owned
  BY DEF Sound, Linked
<1> QED BY <1>1, InsertSound DEF PushFront, Insert

\* MoveToFront of a member keeps the list sound with the same members.
LEMMA MoveToFrontSound ==
  ASSUME NEW l, Sound(l), NEW at \in Members(l), Members(l) \subseteq Nodes
  PROVE  /\ Sound(MoveToFront(l, at))
         /\ Members(MoveToFront(l, at)) = Members(l)
         /\ MoveToFront(l, at).len = l.len
<1> DEFINE m == Unlink(l, at)
<1>1. Sound(m) /\ Members(m) = Members(l) \ {at} /\ m.len = l.len - 1
  BY RemoveSound
<1>2. at \in Nodes \ m.owned
  BY <1>1, PointersDistinct DEF Members
<1>3. MoveToFront(l, at) = PushFront(m, at)
  BY DEF MoveToFront, CanRemove, Members
<1>4. /\ Sound(PushFront(m, at))
      /\ Members(PushFront(m, at)) = Members(m) \cup {at}
      /\ PushFront(m, at).len = m.len + 1
  BY <1>1, <1>2, PushFrontSound
<1>5. l.len \in Nat
  BY DEF Sound, Lists
<1> QED BY <1>1, <1>3, <1>4, <1>5

-----------------------------------------------------------------------------
(***************************************************************************)
(* The order of the elements: how the list's operations change what Newer  *)
(* finds by following next.  That Walk is the only enumeration is shown    *)
(* from the smallest place at which another one would differ.              *)
(***************************************************************************)
Steps(l, s) == s = [i \in 0 .. l.len |-> IF i = 0 THEN Root ELSE l.next[s[i - 1]]]

LEMMA StepsUnique ==
  ASSUME NEW l, l.len \in Nat, NEW s, Steps(l, s), NEW t, Steps(l, t)
  PROVE  s = t
<1> DEFINE D == {i \in 0 .. l.len : s[i] # t[i]}
<1>1. SUFFICES ASSUME D # {} PROVE FALSE
  BY DEF Steps
<1>2. D \in SUBSET Nat
  OBVIOUS
<1>3. PICK k \in D : \A y \in D : k <= y
  <2> HIDE DEF D
  <2> QED BY <1>1, <1>2, SmallestExists
<1>4. k \in 0 .. l.len /\ s[k] # t[k]
  OBVIOUS
<1>5. k # 0
  BY <1>4 DEF Steps
<1>6. k - 1 \in 0 .. l.len /\ k - 1 \notin D
  BY <1>3, <1>4, <1>5
<1>7. s[k - 1] = t[k - 1]
  BY <1>6
<1>8. s[k] = l.next[s[k - 1]] /\ t[k] = l.next[t[k - 1]]
  BY <1>4, <1>5 DEF Steps
<1> QED BY <1>4, <1>7, <1>8

\* Walk is the one enumeration of a sound list.
LEMMA WalkIsTheOrder ==
  ASSUME NEW l, Sound(l)
  PROVE  Orders(l, Walk(l)) /\ \A s : Orders(l, s) => s = Walk(l)
<1>1. l.len \in Nat
  BY DEF Sound, Lists
<1>2. ASSUME NEW s, Orders(l, s) PROVE s = Walk(l)
  <2>1. s \in [0 .. l.len -> l.owned] /\ s[0] = Root
    BY <1>2 DEF Orders
  <2>2. ASSUME NEW i \in 0 .. l.len, i # 0 PROVE s[i] = l.next[s[i - 1]]
    <3>1. i - 1 \in 0 .. l.len /\ i - 1 # l.len /\ (i - 1) + 1 = i
      BY <1>1, <2>2
    <3> QED BY <3>1, <1>2 DEF Orders
  <2>3. Steps(l, s)
    BY <2>1, <2>2 DEF Steps
  <2>4. Steps(l, Walk(l))
    BY <2>3 DEF Steps, Walk
  <2> QED BY <1>1, <2>3, <2>4, StepsUnique
<1>3. PICK s : Orders(l, s)
  BY DEF Sound, OneRing
<1> QED BY <1>2, <1>3

\* An element's place, and what Newer finds from there.
LEMMA NewerFrom ==
  ASSUME NEW l, Sound(l)
  PROVE  /\ l.len \in Nat
         /\ \A p \in 1 .. l.len :
              /\ Walk(l)[p] \in Members(l)
              /\ Newer(l, Walk(l)[p]) = {Walk(l)[j] : j \in p + 1 .. l.len}
         /\ \A n \in Members(l) : \E p \in 1 .. l.len : Walk(l)[p] = n
         /\ \A p, q \in 1 .. l.len : Walk(l)[p] = Walk(l)[q] => p = q
         /\ \A n : n \notin Members(l) => Newer(l, n) = {}
<1> DEFINE w == Walk(l)
<1>1. Orders(l, w) /\ l.len \in Nat
  BY WalkIsTheOrder DEF Sound, Lists
<1>2. \A n : Newer(l, n) =
        {w[j] : j \in {x \in 1 .. l.len : \E i \in 1 .. x - 1 : w[i] = n}}
  BY DEF Newer
<1> HIDE DEF w
<1>3. \A p, q \in 1 .. l.len : w[p] = w[q] => p = q
  BY <1>1 DEF Orders
<1>4. ASSUME NEW p \in 1 .. l.len
      PROVE  w[p] \in Members(l)
  <2>1. 0 \in 0 .. l.len /\ p \in 0 .. l.len /\ p # 0
    BY <1>1
  <2> QED BY <2>1, <1>1 DEF Orders, Members
<1>5. ASSUME NEW p \in 1 .. l.len
      PROVE  Newer(l, w[p]) = {w[j] : j \in p + 1 .. l.len}
  <2>1. {x \in 1 .. l.len : \E i \in 1 .. x - 1 : w[i] = w[p]} = p + 1 .. l.len
    <3>1. ASSUME NEW x \in 1 .. l.len, NEW i \in 1 .. x - 1, w[i] = w[p]
          PROVE  x \in p + 1 .. l.len
      <4>1. i \in 1 .. l.len
        BY <1>1
      <4>2. i = p
        BY <4>1, <3>1, <1>3
      <4> QED BY <4>2, <1>1
    <3>2. ASSUME NEW x \in p + 1 .. l.len
          PROVE  x \in 1 .. l.len /\ p \in 1 .. x - 1
      BY <1>1
    <3> QED BY <3>1, <3>2
  <2> QED BY <2>1, <1>2
<1>6. ASSUME NEW n \in Members(l)
      PROVE  \E p \in 1 .. l.len : w[p] = n
  <2>1. PICK p \in 0 .. l.len : w[p] = n
    BY <1>1 DEF Orders, Members
  <2>2. p # 0
    BY <2>1, <1>1 DEF Orders, Members
  <2> QED BY <2>1, <2>2, <1>1
<1>7. ASSUME NEW n, n \notin Members(l)
      PROVE  Newer(l, n) = {}
  <2>1. ASSUME NEW x \in 1 .. l.len, NEW i \in 1 .. x - 1, w[i] = n
        PROVE  FALSE
    <3>1. i \in 1 .. l.len
      BY <1>1
    <3> QED BY <3>1, <2>1, <1>4, <1>7
  <2> QED BY <2>1, <1>2
<1> QED BY <1>1, <1>3, <1>4, <1>5, <1>6, <1>7 DEF w

\* An element has only other elements in front of it.
LEMMA NewerAreMembers ==
  ASSUME NEW l, Sound(l), NEW n
  PROVE  Newer(l, n) \subseteq Members(l) \ {n}
<1>1. CASE n \notin Members(l)
  BY <1>1, NewerFrom
<1>2. CASE n \in Members(l)
  <2>1. PICK p \in 1 .. l.len : Walk(l)[p] = n
    BY <1>2, NewerFrom
  <2>2. Newer(l, n) = {Walk(l)[j] : j \in p + 1 .. l.len} /\ l.len \in Nat
    BY <2>1, NewerFrom
  <2>3. ASSUME NEW j \in p + 1 .. l.len
        PROVE  Walk(l)[j] \in Members(l) \ {n}
    <3>1. j \in 1 .. l.len /\ j # p
      BY <2>2
    <3> QED BY <3>1, <2>1, NewerFrom
  <2> QED BY <2>2, <2>3
<1> QED BY <1>1, <1>2

\* Every other element is nearer to the front than the back, and it to none.
LEMMA BackIsOldest ==
  ASSUME NEW l, Sound(l), l.len # 0
  PROVE  /\ Newer(l, Back(l)) = Members(l) \ {Back(l)}
         /\ \A n : Back(l) \notin Newer(l, n)
<1> DEFINE w == Walk(l)
<1>1. /\ l.len \in Nat /\ 0 \in 0 .. l.len /\ 0 # l.len /\ 0 + 1 = 1 /\ 1 \in 1 .. l.len
      /\ Orders(l, w)
  BY WalkIsTheOrder DEF Sound, Lists
<1>2. w[1] = l.next[Root]
  BY <1>1 DEF Orders
<1>3. w[1] = Back(l)
  <2>1. w[1] # Root
    BY <1>1, NewerFrom DEF Members
  <2> QED BY <2>1, <1>2 DEF Back
<1>4. Newer(l, Back(l)) = {w[j] : j \in 1 + 1 .. l.len}
  BY <1>1, <1>3, NewerFrom
<1>5. ASSUME NEW n \in Members(l) \ {Back(l)} PROVE n \in Newer(l, Back(l))
  <2>1. PICK p \in 1 .. l.len : w[p] = n
    BY NewerFrom
  <2>2. p \in 1 + 1 .. l.len
    BY <2>1, <1>1, <1>3
  <2> QED BY <2>1, <2>2, <1>4
<1>6. ASSUME NEW n, Back(l) \in Newer(l, n) PROVE FALSE
  <2>1. n \in Members(l)
    BY <1>6, NewerFrom
  <2>2. PICK p \in 1 .. l.len : w[p] = n
    BY <2>1, NewerFrom
  <2>3. PICK j \in p + 1 .. l.len : w[j] = w[1]
    <3>1. Newer(l, n) = {w[j] : j \in p + 1 .. l.len}
      BY <2>2, NewerFrom
    <3> QED BY <3>1, <1>3, <1>6
  <2>4. j \in 1 .. l.len /\ j # 1
    BY <1>1
  <2> QED BY <2>3, <2>4, <1>1, NewerFrom
<1> QED BY <1>5, <1>6, NewerAreMembers

\* Remove takes an element from in front of the others and changes nothing else.
LEMMA UnlinkNewer ==
  ASSUME NEW l, Sound(l), NEW at \in Members(l), NEW n, n # at
  PROVE  Newer(Unlink(l, at), n) = Newer(l, n) \ {at}
<1> DEFINE m == Unlink(l, at)
           w == Walk(l)
           v == Walk(m)
<1>1. /\ Sound(m) /\ Members(m) = Members(l) \ {at} /\ m.len = l.len - 1
      /\ Orders(l, w) /\ l.len \in Nat
  BY UnlinkKeepsRing, WalkIsTheOrder DEF Sound, Lists
<1>2. PICK k \in 1 .. l.len : w[k] = at
  BY NewerFrom
<1>3. v = Shortened(l, w, k)
  <2>1. k \in 0 .. l.len
    BY <1>1
  <2>2. Orders(m, Shortened(l, w, k))
    BY <1>1, <1>2, <2>1, UnlinkKeepsRing
  <2> QED BY <2>2, <1>1, WalkIsTheOrder
<1>4. \A i \in 1 .. l.len - 1 : v[i] = IF i < k THEN w[i] ELSE w[i + 1]
  BY <1>1, <1>3 DEF Shortened
<1>5. CASE n \notin Members(l)
  <2>1. Newer(m, n) = {} /\ Newer(l, n) = {}
    BY <1>1, <1>5, NewerFrom
  <2> QED BY <2>1
<1>6. CASE n \in Members(l)
  <2>1. PICK p \in 1 .. l.len : w[p] = n
    BY <1>6, NewerFrom
  <2>2. p # k
    BY <2>1, <1>2
  <2> DEFINE r == IF p < k THEN p ELSE p - 1
  <2>3. r \in 1 .. l.len - 1 /\ v[r] = n
    BY <1>1, <1>4, <2>1, <2>2
  <2>4. Newer(m, n) = {v[j] : j \in r + 1 .. l.len - 1}
    BY <1>1, <2>3, NewerFrom
  <2>5. Newer(l, n) = {w[j] : j \in p + 1 .. l.len}
    BY <2>1, NewerFrom
  <2>6. \A i, j \in 1 .. l.len : w[i] = w[j] => i = j
    BY NewerFrom
  <2> HIDE DEF w, v, m
  <2>7. ASSUME NEW j \in r + 1 .. l.len - 1
        PROVE  \E i \in p + 1 .. l.len : w[i] = v[j] /\ i # k
    <3>1. CASE j < k
      <4>1. j \in p + 1 .. l.len /\ w[j] = v[j] /\ j # k
        BY <3>1, <1>1, <1>4, <2>1, <2>2
      <4> QED BY <4>1
    <3>2. CASE ~(j < k)
      <4>1. j + 1 \in p + 1 .. l.len /\ w[j + 1] = v[j] /\ j + 1 # k
        BY <3>2, <1>1, <1>4, <2>1, <2>2
      <4> QED BY <4>1
    <3> QED BY <3>1, <3>2
  <2>8. ASSUME NEW i \in p + 1 .. l.len, i # k
        PROVE  \E j \in r + 1 .. l.len - 1 : w[i] = v[j]
    <3>1. CASE i < k
      <4>1. i \in r + 1 .. l.len - 1 /\ w[i] = v[i]
        BY <3>1, <1>1, <1>2, <1>4, <2>1
      <4> QED BY <4>1
    <3>2. CASE i > k
      <4>1. i - 1 \in r + 1 .. l.len - 1 /\ (i - 1) + 1 = i /\ ~(i - 1 < k)
        BY <3>2, <1>1, <1>2, <2>1, <2>2
      <4>2. w[i] = v[i - 1]
        BY <4>1, <1>4, <2>1
      <4> QED BY <4>1, <4>2
    <3> QED BY <3>1, <3>2, <2>8, <1>2
  <2>9. \A i \in p + 1 .. l.len : w[i] = at <=> i = k
    <3>1. \A i \in p + 1 .. l.len : i \in 1 .. l.len
      BY <1>1
    <3> QED BY <3>1, <1>2, <2>6
  <2>10. Newer(m, n) \subseteq Newer(l, n) \ {at}
    BY <2>4, <2>5, <2>7, <2>9
  <2>11. Newer(l, n) \ {at} \subseteq Newer(m, n)
    BY <2>4, <2>5, <2>8, <2>9
  <2> QED BY <2>10, <2>11 DEF m
<1> QED BY <1>5, <1>6

\* PushFront puts its node in front of every element.
LEMMA PushFrontNewer ==
  ASSUME NEW l, Sound(l), NEW node \in Nodes \ l.owned
  PROVE  /\ \A n \in Members(l) : Newer(PushFront(l, node), n) = Newer(l, n) \cup {node}
         /\ Newer(PushFront(l, node), node) = {}
<1> DEFINE a == l.prev[Root]
           m == Link(l, node, a)
           w == Walk(l)
           v == Walk(m)
<1>1. a \in l.owned /\ l.len \in Nat /\ Orders(l, w)
  BY WalkIsTheOrder DEF Sound, Lists, Linked
<1>2. PushFront(l, node) = m /\ Sound(m) /\ m.len = l.len + 1
  BY <1>1, LinkKeepsRing DEF PushFront, Insert
<1>3. l.len \in 0 .. l.len /\ w[l.len] = a
  <2>1. l.len \in 0 .. l.len
    BY <1>1
  <2>2. w[l.len] \in l.owned /\ l.next[w[l.len]] = Root
    BY <2>1, <1>1 DEF Orders
  <2> QED BY <2>1, <2>2 DEF Sound, Linked
<1>4. v = Extended(l, w, l.len, node)
  <2>1. Orders(m, Extended(l, w, l.len, node))
    BY <1>1, <1>3, LinkKeepsRing
  <2> QED BY <2>1, <1>2, WalkIsTheOrder
<1>5. /\ v[l.len + 1] = node /\ l.len + 1 \in 1 .. m.len
      /\ \A i \in 1 .. l.len : v[i] = w[i] /\ i \in 1 .. m.len
  BY <1>1, <1>2, <1>4 DEF Extended
<1>6. Newer(m, node) = {}
  <2>1. Newer(m, node) = {v[j] : j \in (l.len + 1) + 1 .. m.len}
    BY <1>2, <1>5, NewerFrom
  <2>2. (l.len + 1) + 1 .. m.len = {}
    BY <1>1, <1>2
  <2> QED BY <2>1, <2>2
<1>7. ASSUME NEW n \in Members(l)
      PROVE  Newer(m, n) = Newer(l, n) \cup {node}
  <2>1. PICK p \in 1 .. l.len : w[p] = n
    BY NewerFrom
  <2>2. Newer(l, n) = {w[j] : j \in p + 1 .. l.len}
    BY <2>1, NewerFrom
  <2>3. Newer(m, n) = {v[j] : j \in p + 1 .. m.len}
    <3>1. p \in 1 .. m.len /\ v[p] = n
      BY <2>1, <1>5
    <3> QED BY <3>1, <1>2, NewerFrom
  <2> HIDE DEF w, v, m
  <2>4. ASSUME NEW j \in p + 1 .. m.len
        PROVE  v[j] = node \/ (j \in p + 1 .. l.len /\ v[j] = w[j])
    <3>1. j = l.len + 1 \/ (j \in 1 .. l.len /\ j \in p + 1 .. l.len)
      BY <1>1, <1>2
    <3> QED BY <3>1, <1>5
  <2>5. ASSUME NEW j \in p + 1 .. l.len
        PROVE  j \in p + 1 .. m.len /\ v[j] = w[j]
    <3>1. j \in 1 .. l.len /\ j \in p + 1 .. m.len
      BY <1>1, <1>2
    <3> QED BY <3>1, <1>5
  <2>6. l.len + 1 \in p + 1 .. m.len
    BY <1>1, <1>2
  <2>7. Newer(m, n) \subseteq Newer(l, n) \cup {node}
    BY <2>2, <2>3, <2>4
  <2>8. Newer(l, n) \subseteq Newer(m, n)
    BY <2>2, <2>3, <2>5
  <2>9. node \in Newer(m, n)
    BY <2>3, <2>6, <1>5
  <2> QED BY <2>7, <2>8, <2>9
<1> QED BY <1>2, <1>6, <1>7
=============================================================================
