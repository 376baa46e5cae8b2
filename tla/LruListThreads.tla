--------------------------- MODULE LruListThreads ---------------------------
(***************************************************************************)
(* The list of internal/cache/lru_cache/list used by several goroutines at *)
(* once.  Its lock is taken by insert, Remove, Front and Back one at a     *)
(* time, so PushFront, MoveToFront, MoveToBack, PopFront and PopBack are   *)
(* made of two or three steps that other goroutines come between.  A step  *)
(* below is what one goroutine does under one hold of the lock, or one     *)
(* atomic load without it.  A refused Remove changes nothing and is not an *)
(* action; a refused insert leaves its node to nobody.                     *)
(***************************************************************************)
EXTENDS LruList

CONSTANT Threads

VARIABLES
  list,      \* the shared list
  pc,        \* what a goroutine does next
  inHand,    \* the unlinked node a goroutine is about to insert
  at,        \* the node it read, or was given, to insert after or to remove
  used,      \* the nodes allocated so far
  returned,  \* the nodes each goroutine got from Remove, PopFront and PopBack
  refused    \* the nodes whose insertion failed

vars == <<list, pc, inHand, at, used, returned, refused>>

PCs == {"idle", "readFront", "insert", "remove", "panicked"}

TypeOK ==
  /\ list \in Lists
  /\ pc \in [Threads -> PCs]
  /\ inHand \in [Threads -> Nodes \cup {Nil}]
  /\ at \in [Threads -> Pointers]
  /\ used \subseteq Nodes
  /\ returned \in [Threads -> SUBSET Nodes]
  /\ refused \subseteq Nodes

Init ==
  /\ list = NewLRUList
  /\ pc = [t \in Threads |-> "idle"]
  /\ inHand = [t \in Threads |-> Nil]
  /\ at = [t \in Threads |-> Nil]
  /\ used = {}
  /\ returned = [t \in Threads |-> {}]
  /\ refused = {}

-----------------------------------------------------------------------------
\* NewLRUListNode for a goroutine that then goes on at `next`.
Allocate(t, next) ==
  \E n \in Nodes \ used :
    /\ used' = used \cup {n}
    /\ inHand' = [inHand EXCEPT ![t] = n]
    /\ pc' = [pc EXCEPT ![t] = next]

\* PushFront: the node, then the front, then insert.
PushFrontCall(t) ==
  /\ pc[t] = "idle"
  /\ Allocate(t, "readFront")
  /\ UNCHANGED <<list, at, returned, refused>>

\* Insert after any node the caller has a pointer to; PushBack's is the root.
InsertCall(t, a) ==
  /\ pc[t] = "idle"
  /\ Allocate(t, "insert")
  /\ at' = [at EXCEPT ![t] = a]
  /\ UNCHANGED <<list, returned, refused>>

\* Wrong variant, for mutation: Remove's refusal passed over.
DetachUnchecked(t, a, next, position) ==
  /\ pc[t] = "idle"
  /\ list' = Remove(list, a)
  /\ inHand' = [inHand EXCEPT ![t] = a]
  /\ pc' = [pc EXCEPT ![t] = next]
  /\ at' = [at EXCEPT ![t] = position]
  /\ UNCHANGED <<used, returned, refused>>

\* The first half of MoveToFront and MoveToBack: Remove, under the lock.
Detach(t, a, next, position) ==
  /\ pc[t] = "idle" /\ CanRemove(list, a)
  /\ list' = Unlink(list, a)
  /\ inHand' = [inHand EXCEPT ![t] = a]
  /\ pc' = [pc EXCEPT ![t] = next]
  /\ at' = [at EXCEPT ![t] = position]
  /\ UNCHANGED <<used, returned, refused>>

MoveToFrontCall(t, a) == Detach(t, a, "readFront", Nil)
MoveToBackCall(t, a)  == Detach(t, a, "insert", Root)

\* pushFront evaluates l.root.prev before insert takes the lock.
ReadFront(t) ==
  /\ pc[t] = "readFront"
  /\ at' = [at EXCEPT ![t] = list.prev[Root]]
  /\ pc' = [pc EXCEPT ![t] = "insert"]
  /\ UNCHANGED <<list, inHand, used, returned, refused>>

\* Wrong variant, for mutation: insert trusting the position it was given.
InsertUnchecked(t) ==
  /\ pc[t] = "insert"
  /\ list' = Link(list, inHand[t], at[t])
  /\ pc' = [pc EXCEPT ![t] = "idle"]
  /\ inHand' = [inHand EXCEPT ![t] = Nil]
  /\ at' = [at EXCEPT ![t] = Nil]
  /\ UNCHANGED <<used, returned, refused>>

\* insert, under the lock.  PushFront drops its error and returns nil;
\* MoveToFront returns it, with the node already out of the list.
InsertStep(t) ==
  /\ pc[t] = "insert"
  /\ \/ /\ CanInsert(list, inHand[t], at[t])
        /\ list' = Link(list, inHand[t], at[t])
        /\ UNCHANGED refused
     \/ /\ ~CanInsert(list, inHand[t], at[t])
        /\ refused' = refused \cup {inHand[t]}
        /\ UNCHANGED list
  /\ pc' = [pc EXCEPT ![t] = "idle"]
  /\ inHand' = [inHand EXCEPT ![t] = Nil]
  /\ at' = [at EXCEPT ![t] = Nil]
  /\ UNCHANGED <<used, returned>>

\* Remove called with a node the caller has: no step before it.
RemoveCall(t, a) ==
  /\ pc[t] = "idle" /\ CanRemove(list, a)
  /\ list' = Unlink(list, a)
  /\ returned' = [returned EXCEPT ![t] = @ \cup {a}]
  /\ UNCHANGED <<pc, inHand, at, used, refused>>

\* The first half of PopFront and PopBack: which end, under the read lock.
PopCall(t) ==
  /\ pc[t] = "idle"
  /\ \E end \in {Front(list), Back(list)} : at' = [at EXCEPT ![t] = end]
  /\ pc' = [pc EXCEPT ![t] = "remove"]
  /\ UNCHANGED <<list, inHand, used, returned, refused>>

\* Wrong variant, for mutation: Remove returning a node that has left the list.
PopUnchecked(t) ==
  /\ pc[t] = "remove" /\ at[t] # Nil
  /\ list' = Remove(list, at[t])
  /\ returned' = [returned EXCEPT ![t] = @ \cup {at[t]}]
  /\ pc' = [pc EXCEPT ![t] = "idle"]
  /\ at' = [at EXCEPT ![t] = Nil]
  /\ UNCHANGED <<inHand, used, refused>>

\* The second half: Remove of what the first half found, which may be nil (the
\* deferred unlock runs, the goroutine panics) or may have gone (an error).
PopStep(t) ==
  /\ pc[t] = "remove"
  /\ \/ /\ at[t] = Nil
        /\ pc' = [pc EXCEPT ![t] = "panicked"]
        /\ UNCHANGED <<list, at, returned>>
     \/ /\ at[t] # Nil
        /\ list' = Remove(list, at[t])
        /\ returned' = IF CanRemove(list, at[t])
                       THEN [returned EXCEPT ![t] = @ \cup {at[t]}] ELSE returned
        /\ pc' = [pc EXCEPT ![t] = "idle"]
        /\ at' = [at EXCEPT ![t] = Nil]
  /\ UNCHANGED <<inHand, used, refused>>

ThreadStep(t) ==
  \/ PushFrontCall(t)
  \/ \E a \in used \cup {Root} : InsertCall(t, a)
  \/ \E a \in used : MoveToFrontCall(t, a) \/ MoveToBackCall(t, a) \/ RemoveCall(t, a)
  \/ ReadFront(t) \/ InsertStep(t)
  \/ PopCall(t) \/ PopStep(t)

Next == \E t \in Threads : ThreadStep(t)

Spec == Init /\ [][Next]_vars

-----------------------------------------------------------------------------
\* Whatever the interleaving, the links stay intact and the counter counts:
\* no insert follows a node that was removed after it was read, and no two
\* goroutines unlink the same node.
ListIntact == Linked(list) /\ Counted(list)

\* A node the list has let go of was given to one goroutine only, and is not in
\* the list: two PopBacks that read the same back do not both return it.
ReturnedOnce ==
  /\ \A t \in Threads : returned[t] \cap Members(list) = {}
  /\ \A t, u \in Threads : t # u => returned[t] \cap returned[u] = {}

\* Every node ever allocated is in the list, on its way into it in the hands of
\* one goroutine, returned, or refused by an insert; none is in two places: no
\* interleaving of the two halves of a move with a removal duplicates or leaks
\* an element.
InHands  == {inHand[t] : t \in Threads} \ {Nil}
Returned == UNION {returned[t] : t \in Threads}

Accounted ==
  /\ used = Members(list) \cup InHands \cup Returned \cup refused
  /\ InHands \cap (Members(list) \cup Returned \cup refused) = {}
  /\ refused \cap (Members(list) \cup Returned) = {}
  /\ \A t, u \in Threads : inHand[t] = inHand[u] /\ inHand[t] # Nil => t = u

\* An insertion at the back is never refused: a node on its way into the list
\* holds no pointer and no list, however it got into the goroutine's hands.
\* (One at the front is, when the front it read has been removed since: that is
\* the only way into `refused`, and it costs MoveToFront's element.)
BackNeverRefuses ==
  \A t \in Threads :
    pc[t] = "insert" /\ at[t] = Root => CanInsert(list, inHand[t], Root)
=============================================================================
