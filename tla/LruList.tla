------------------------------ MODULE LruList ------------------------------
(***************************************************************************)
(* The doubly linked list of internal/cache/lru_cache/list, as operators   *)
(* on a record.  A list is                                                 *)
(*   next, prev : the atomic pointers of every node and of the sentinel    *)
(*   owned      : the nodes whose `list` pointer is this list              *)
(*   len        : the counter the list keeps beside its links              *)
(* The front of the list is Root.prev and its back is Root.next, so next   *)
(* leads from older elements to newer ones.                                *)
(* Link and Unlink are the pointer updates the code makes under the list's *)
(* mutex; CanInsert and CanRemove are the early returns before them, which *)
(* leave the list as it was.                                               *)
(***************************************************************************)
EXTENDS Naturals, FiniteSets

CONSTANTS
  Nodes,  \* the LRUListNode objects the heap can hold
  Root,   \* the sentinel embedded in the list
  Nil     \* the nil pointer

ASSUME PointersDistinct == Root \notin Nodes /\ Nil \notin Nodes /\ Root # Nil

Elements == Nodes \cup {Root}
Pointers == Elements \cup {Nil}

Lists ==
  [next : [Elements -> Pointers], prev : [Elements -> Pointers],
   owned : SUBSET Elements, len : Nat]

NewLRUList ==
  LET selfLinked == [n \in Elements |-> IF n = Root THEN Root ELSE Nil]
  IN  [next |-> selfLinked, prev |-> selfLinked, owned |-> {Root}, len |-> 0]

\* root.Prev() and root.Next(): nil when the pointer leads back to the root.
Front(l) == IF l.prev[Root] = Root THEN Nil ELSE l.prev[Root]
Back(l)  == IF l.next[Root] = Root THEN Nil ELSE l.next[Root]

\* insert refuses a node that belongs to a list and an `at` that does not.
CanInsert(l, node, at) ==
  /\ node \notin l.owned /\ l.next[node] = Nil /\ l.prev[node] = Nil
  /\ at \in l.owned

Link(l, node, at) ==
  LET after == l.next[at] IN
  [next  |-> [l.next EXCEPT ![at] = node, ![node] = after],
   prev  |-> [l.prev EXCEPT ![node] = at, ![after] = node],
   owned |-> l.owned \cup {node},
   len   |-> l.len + 1]

Insert(l, node, at) == IF CanInsert(l, node, at) THEN Link(l, node, at) ELSE l

\* Wrong variant, for mutation: Remove without the check of at.list.
CanRemoveAnything(l, at) == at # Root

\* Remove refuses a node of another list and the root.  Remove(nil) is no
\* refusal: it panics, and is left to the callers.
CanRemove(l, at) == at \in l.owned /\ at # Root

\* Wrong variants, for mutation: Remove without `at.list = nil`, without the
\* reset of at.prev, without `len--`.
UnlinkKeepsOwner(l, at) ==
  [next  |-> [l.next EXCEPT ![l.prev[at]] = l.next[at], ![at] = Nil],
   prev  |-> [l.prev EXCEPT ![l.next[at]] = l.prev[at], ![at] = Nil],
   owned |-> l.owned, len |-> l.len - 1]

UnlinkKeepsPrev(l, at) ==
  [next  |-> [l.next EXCEPT ![l.prev[at]] = l.next[at], ![at] = Nil],
   prev  |-> [l.prev EXCEPT ![l.next[at]] = l.prev[at]],
   owned |-> l.owned \ {at}, len |-> l.len - 1]

UnlinkKeepsLen(l, at) ==
  [next  |-> [l.next EXCEPT ![l.prev[at]] = l.next[at], ![at] = Nil],
   prev  |-> [l.prev EXCEPT ![l.next[at]] = l.prev[at], ![at] = Nil],
   owned |-> l.owned \ {at}, len |-> l.len]

Unlink(l, at) ==
  [next  |-> [l.next EXCEPT ![l.prev[at]] = l.next[at], ![at] = Nil],
   prev  |-> [l.prev EXCEPT ![l.next[at]] = l.prev[at], ![at] = Nil],
   owned |-> l.owned \ {at},
   len   |-> l.len - 1]

Remove(l, at) == IF CanRemove(l, at) THEN Unlink(l, at) ELSE l

PushFront(l, node) == Insert(l, node, l.prev[Root])
PushBack(l, node)  == Insert(l, node, Root)

\* Wrong variant, for mutation: the moved element reinserted at the other end.
MoveToWrongEnd(l, at) == IF CanRemove(l, at) THEN PushBack(Unlink(l, at), at) ELSE l

\* Two critical sections each: a refusal of the first ends the operation.
MoveToFront(l, at) == IF CanRemove(l, at) THEN PushFront(Unlink(l, at), at) ELSE l
MoveToBack(l, at)  == IF CanRemove(l, at) THEN PushBack(Unlink(l, at), at) ELSE l

\* The elements of a list, and the shape insert and Remove must preserve: next
\* and prev are inverse on the owned nodes, the others hold no stale pointer,
\* and the counter counts.
Members(l) == l.owned \ {Root}

Linked(l) ==
  /\ Root \in l.owned
  /\ \A n \in l.owned : /\ l.next[n] \in l.owned /\ l.prev[l.next[n]] = n
                        /\ l.prev[n] \in l.owned /\ l.next[l.prev[n]] = n
  /\ \A n \in Elements \ l.owned : l.next[n] = Nil /\ l.prev[n] = Nil

Counted(l) == IsFiniteSet(l.owned) /\ l.len = Cardinality(Members(l))

\* The sentinel and the elements behind it in next-order, the back first; and the
\* elements of a list that are nearer to its front than n.
Walk(l) ==
  LET step[i \in 0 .. l.len] == IF i = 0 THEN Root ELSE l.next[step[i - 1]] IN step

Newer(l, n) ==
  LET w == Walk(l)
  IN  {w[j] : j \in {x \in 1 .. l.len : \E i \in 1 .. x - 1 : w[i] = n}}
=============================================================================
