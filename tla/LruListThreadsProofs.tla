------------------------ MODULE LruListThreadsProofs ------------------------
(***************************************************************************)
(* The list shared by any number of goroutines over any set of nodes.  One *)
(* hold of the lock is one Link or Unlink, and LruListProofs says that     *)
(* each keeps a sound list sound provided its node is outside, or inside,  *)
(* the list.  What remains is that the nodes goroutines hold between their *)
(* steps are what those lemmas ask for: unlinked, and in one pair of hands.*)
(***************************************************************************)
EXTENDS LruListThreads, LruListProofs

\* A goroutine has a node in hand exactly between its allocation or removal and
\* the insert, and a position when it inserts.
HandsMatchSteps ==
  \A t \in Threads :
    /\ pc[t] \in {"readFront", "insert"} <=> inHand[t] # Nil
    /\ pc[t] = "insert" => at[t] # Nil

IInv ==
  TypeOK /\ Sound(list) /\ HandsMatchSteps /\ Accounted /\ ReturnedOnce

-----------------------------------------------------------------------------
LEMMA MemberNodes ==
  ASSUME TypeOK, Sound(list)
  PROVE  /\ Members(list) = list.owned \ {Root} /\ Members(list) \subseteq Nodes
         /\ Root \in list.owned /\ list.owned \subseteq Elements
         /\ Root \notin Nodes /\ Nil \notin Nodes /\ Nil \notin Elements /\ Root # Nil
BY PointersDistinct DEF Sound, Lists, Linked, Members, Elements

\* What a goroutine inserts is in no list, and is refused for its position only.
LEMMA InHandIsLoose ==
  ASSUME IInv, NEW t \in Threads, inHand[t] # Nil
  PROVE  /\ inHand[t] \in Nodes \ list.owned
         /\ inHand[t] \in InHands
         /\ \A a \in Elements : CanInsert(list, inHand[t], a) <=> a \in list.owned
<1>1. inHand[t] \in Nodes /\ inHand[t] \in InHands
  BY DEF IInv, TypeOK, InHands
<1>2. inHand[t] \notin list.owned
  BY <1>1, MemberNodes DEF IInv, Accounted
<1>3. list.next[inHand[t]] = Nil /\ list.prev[inHand[t]] = Nil
  BY <1>1, <1>2 DEF IInv, Sound, Linked, Elements
<1> QED BY <1>1, <1>2, <1>3 DEF CanInsert

\* How the set of nodes in hand changes when one goroutine takes a node or lets
\* go of the one it has.
LEMMA TakeInHand ==
  ASSUME IInv, NEW t \in Threads, inHand[t] = Nil, NEW n \in Nodes \ InHands,
         inHand' = [inHand EXCEPT ![t] = n]
  PROVE  /\ InHands' = InHands \cup {n}
         /\ \A v, u \in Threads : inHand'[v] = inHand'[u] /\ inHand'[v] # Nil => v = u
<1>1. /\ inHand \in [Threads -> Nodes \cup {Nil}] /\ n # Nil
      /\ \A v \in Threads : inHand'[v] = IF v = t THEN n ELSE inHand[v]
  BY PointersDistinct DEF IInv, TypeOK
<1>2. InHands' = InHands \cup {n}
  BY <1>1 DEF InHands
<1>3. \A v \in Threads : inHand[v] # Nil => inHand[v] # n
  BY <1>1 DEF InHands
<1> QED BY <1>1, <1>2, <1>3 DEF IInv, Accounted

LEMMA LetGo ==
  ASSUME IInv, NEW t \in Threads, inHand' = [inHand EXCEPT ![t] = Nil]
  PROVE  /\ InHands' = InHands \ {inHand[t]}
         /\ \A v, u \in Threads : inHand'[v] = inHand'[u] /\ inHand'[v] # Nil => v = u
<1>1. /\ inHand \in [Threads -> Nodes \cup {Nil}]
      /\ \A v \in Threads : inHand'[v] = IF v = t THEN Nil ELSE inHand[v]
  BY DEF IInv, TypeOK
<1>2. \A v, u \in Threads : inHand[v] = inHand[u] /\ inHand[v] # Nil => v = u
  BY DEF IInv, Accounted
<1>3. InHands' = InHands \ {inHand[t]}
  <2>1. ASSUME NEW n \in InHands' PROVE n \in InHands \ {inHand[t]}
    <3>1. PICK v \in Threads : n = inHand'[v] /\ n # Nil
      BY <2>1 DEF InHands
    <3> QED BY <3>1, <1>1, <1>2 DEF InHands
  <2>2. ASSUME NEW n \in InHands \ {inHand[t]} PROVE n \in InHands'
    <3>1. PICK v \in Threads : n = inHand[v] /\ n # Nil
      BY <2>2 DEF InHands
    <3>2. n = inHand'[v]
      BY <3>1, <1>1, <2>2
    <3> QED BY <3>1, <3>2 DEF InHands
  <2> QED BY <2>1, <2>2
<1> QED BY <1>1, <1>2, <1>3

\* What Unlink does to the list a goroutine holds locked.
LEMMA UnlinkInList ==
  ASSUME IInv, NEW a \in Pointers, CanRemove(list, a)
  PROVE  /\ a \in Members(list) /\ a \in Nodes /\ a \notin InHands
         /\ a \notin Returned /\ a \notin refused
         /\ Remove(list, a) = Unlink(list, a)
         /\ Sound(Unlink(list, a)) /\ Unlink(list, a) \in Lists
         /\ Members(Unlink(list, a)) = Members(list) \ {a}
<1>1. a \in Members(list)
  BY DEF CanRemove, Members
<1>2. a \in Nodes /\ a \notin InHands /\ a \notin refused
  BY <1>1, MemberNodes DEF IInv, Accounted
<1>3. a \notin Returned
  BY <1>1 DEF IInv, ReturnedOnce, Returned
<1> QED BY <1>1, <1>2, <1>3, RemoveSound DEF IInv, Sound

\* What a goroutine that returns node a to its caller adds to the history.
LEMMA Return ==
  ASSUME IInv, NEW t \in Threads, NEW a \in Nodes \ Returned,
         returned' = [returned EXCEPT ![t] = @ \cup {a}]
  PROVE  /\ Returned' = Returned \cup {a}
         /\ returned' \in [Threads -> SUBSET Nodes]
         /\ \A v, u \in Threads : v # u => returned'[v] \cap returned'[u] = {}
<1>1. returned \in [Threads -> SUBSET Nodes]
  BY DEF IInv, TypeOK
<1>2. \A v \in Threads :
        returned'[v] = IF v = t THEN returned[v] \cup {a} ELSE returned[v]
  BY <1>1
<1>3. Returned' = Returned \cup {a}
  <2>1. ASSUME NEW n PROVE n \in Returned' <=> \E v \in Threads : n \in returned'[v]
    BY DEF Returned
  <2>2. ASSUME NEW n PROVE n \in Returned <=> \E v \in Threads : n \in returned[v]
    BY DEF Returned
  <2> QED BY <2>1, <2>2, <1>2
<1>4. \A v \in Threads : a \notin returned[v]
  BY DEF Returned
<1>5. \A v, u \in Threads : v # u => returned[v] \cap returned[u] = {}
  BY DEF IInv, ReturnedOnce
<1>6. \A v, u \in Threads : v # u => returned'[v] \cap returned'[u] = {}
  BY <1>2, <1>4, <1>5
<1> QED BY <1>1, <1>2, <1>3, <1>6

-----------------------------------------------------------------------------
LEMMA InitHolds == Init => IInv
<1> SUFFICES ASSUME Init PROVE IInv
  OBVIOUS
<1>1. Sound(list) /\ Members(list) = {}
  BY NewListSound DEF Init
<1>2. TypeOK
  BY <1>1 DEF Init, TypeOK, PCs, Sound, Pointers
<1>3. InHands = {} /\ Returned = {}
  BY DEF Init, InHands, Returned
<1>4. HandsMatchSteps /\ ReturnedOnce
  BY DEF Init, HandsMatchSteps, ReturnedOnce
<1>5. Accounted
  BY <1>1, <1>3 DEF Init, Accounted
<1> QED BY <1>1, <1>2, <1>4, <1>5 DEF IInv

\* A goroutine that allocates a node, for PushFront or Insert.
LEMMA AllocationHolds ==
  ASSUME IInv, NEW t \in Threads, PushFrontCall(t) \/ \E a \in used \cup {Root} : InsertCall(t, a)
  PROVE  IInv'
<1>1. PICK n \in Nodes \ used, next \in {"readFront", "insert"} :
        /\ used' = used \cup {n} /\ inHand' = [inHand EXCEPT ![t] = n]
        /\ pc[t] = "idle" /\ pc' = [pc EXCEPT ![t] = next]
        /\ UNCHANGED <<list, returned, refused>>
        /\ \/ at' = at /\ next = "readFront"
           \/ \E a \in used \cup {Root} : at' = [at EXCEPT ![t] = a]
  BY DEF PushFrontCall, InsertCall, Allocate
<1>2. inHand[t] = Nil /\ n \notin InHands
  BY <1>1 DEF IInv, HandsMatchSteps, Accounted
<1>3. /\ InHands' = InHands \cup {n}
      /\ \A v, u \in Threads : inHand'[v] = inHand'[u] /\ inHand'[v] # Nil => v = u
  BY <1>1, <1>2, TakeInHand
<1>4. TypeOK'
  BY <1>1, PointersDistinct DEF IInv, TypeOK, PCs, Pointers, Elements
<1>5. HandsMatchSteps'
  <2>1. /\ pc \in [Threads -> PCs] /\ inHand \in [Threads -> Nodes \cup {Nil}]
        /\ at \in [Threads -> Pointers] /\ n # Nil /\ Nil \notin used \cup {Root}
    BY PointersDistinct DEF IInv, TypeOK
  <2> QED BY <1>1, <2>1 DEF IInv, HandsMatchSteps
<1>6. Returned' = Returned
  BY <1>1 DEF Returned
<1>7. Accounted' /\ ReturnedOnce'
  <2>1. n \notin Members(list) /\ n \notin Returned /\ n \notin refused
    BY <1>1 DEF IInv, Accounted
  <2>2. Members(list)' = Members(list)
    BY <1>1
  <2>3. Accounted'
    BY <1>1, <1>3, <1>6, <2>1, <2>2 DEF IInv, Accounted
  <2>4. ReturnedOnce'
    BY <1>1, <2>2 DEF IInv, ReturnedOnce
  <2> QED BY <2>3, <2>4
<1>8. Sound(list)'
  BY <1>1 DEF IInv
<1> QED BY <1>4, <1>5, <1>7, <1>8 DEF IInv

\* The removal that begins a move.
LEMMA DetachHolds ==
  ASSUME IInv, NEW t \in Threads, NEW a \in used,
         MoveToFrontCall(t, a) \/ MoveToBackCall(t, a)
  PROVE  IInv'
<1>1. PICK next \in {"readFront", "insert"}, position \in {Nil, Root} :
        Detach(t, a, next, position) /\ (next = "insert" => position = Root)
  BY DEF MoveToFrontCall, MoveToBackCall
<1>2. a \in Nodes /\ a \in Pointers /\ a # Nil /\ position \in Pointers
  BY PointersDistinct DEF IInv, TypeOK, Pointers, Elements
<1>3. /\ a \in Members(list) /\ a \notin InHands /\ a \notin Returned /\ a \notin refused
      /\ Sound(list') /\ list' \in Lists /\ Members(list') = Members(list) \ {a}
  BY <1>1, <1>2, UnlinkInList DEF Detach
<1>4. inHand[t] = Nil
  BY <1>1 DEF IInv, HandsMatchSteps, Detach
<1>5. /\ InHands' = InHands \cup {a}
      /\ \A v, u \in Threads : inHand'[v] = inHand'[u] /\ inHand'[v] # Nil => v = u
  BY <1>1, <1>2, <1>3, <1>4, TakeInHand DEF Detach
<1>6. TypeOK'
  BY <1>1, <1>2, <1>3 DEF IInv, TypeOK, PCs, Detach
<1>7. HandsMatchSteps'
  <2>1. /\ pc \in [Threads -> PCs] /\ inHand \in [Threads -> Nodes \cup {Nil}]
        /\ at \in [Threads -> Pointers] /\ Root # Nil
    BY PointersDistinct DEF IInv, TypeOK
  <2> QED BY <1>1, <1>2, <2>1 DEF IInv, HandsMatchSteps, Detach
<1>8. Returned' = Returned /\ Accounted'
  <2>1. Returned' = Returned
    BY <1>1 DEF Returned, Detach
  <2>2. used' = used /\ refused' = refused
    BY <1>1 DEF Detach
  <2> QED BY <1>3, <1>5, <2>1, <2>2 DEF IInv, Accounted
<1>9. ReturnedOnce'
  BY <1>1, <1>3 DEF IInv, ReturnedOnce, Detach
<1> QED BY <1>3, <1>6, <1>7, <1>8, <1>9 DEF IInv

LEMMA ReadFrontHolds ==
  ASSUME IInv, NEW t \in Threads, ReadFront(t)
  PROVE  IInv'
<1>1. list.prev[Root] \in Pointers /\ list.prev[Root] # Nil
  BY MemberNodes DEF IInv, Sound, Linked, Pointers
<1>2. TypeOK'
  BY <1>1 DEF IInv, TypeOK, PCs, ReadFront
<1>3. HandsMatchSteps'
  BY <1>1 DEF IInv, TypeOK, HandsMatchSteps, ReadFront
<1>4. InHands' = InHands /\ Returned' = Returned
  BY DEF ReadFront, InHands, Returned
<1>5. Accounted' /\ ReturnedOnce'
  BY <1>4 DEF IInv, Accounted, ReturnedOnce, ReadFront
<1> QED BY <1>2, <1>3, <1>5 DEF IInv, ReadFront

\* insert: the node in hand goes into the list, or to nobody.
LEMMA InsertHolds ==
  ASSUME IInv, NEW t \in Threads, InsertStep(t)
  PROVE  IInv'
<1> DEFINE n == inHand[t]
<1>1. /\ n # Nil /\ at[t] \in Elements
      /\ inHand' = [inHand EXCEPT ![t] = Nil] /\ at' = [at EXCEPT ![t] = Nil]
      /\ pc' = [pc EXCEPT ![t] = "idle"] /\ used' = used /\ returned' = returned
  BY DEF IInv, TypeOK, HandsMatchSteps, InsertStep, Pointers
<1>2. /\ n \in Nodes \ list.owned /\ n \in InHands
      /\ CanInsert(list, n, at[t]) <=> at[t] \in list.owned
  BY <1>1, InHandIsLoose
<1>3. /\ InHands' = InHands \ {n}
      /\ \A v, u \in Threads : inHand'[v] = inHand'[u] /\ inHand'[v] # Nil => v = u
  BY <1>1, LetGo
<1>4. Returned' = Returned
  BY <1>1 DEF Returned
<1>5. HandsMatchSteps'
  BY <1>1 DEF IInv, TypeOK, HandsMatchSteps
<1>6. n \notin Members(list) /\ n \notin Returned /\ n \notin refused
  BY <1>2 DEF IInv, Accounted
<1>7. CASE CanInsert(list, n, at[t])
  <2>1. list' = Link(list, n, at[t]) /\ refused' = refused
    BY <1>7 DEF InsertStep
  <2>2. Sound(list') /\ Members(list') = Members(list) \cup {n} /\ list' \in Lists
    BY <2>1, <1>2, <1>7, InsertSound DEF IInv, Sound
  <2>3. TypeOK'
    BY <1>1, <2>1, <2>2 DEF IInv, TypeOK, PCs, Pointers
  <2>4. Accounted'
    BY <1>1, <1>2, <1>3, <1>4, <1>6, <2>1, <2>2 DEF IInv, Accounted
  <2>5. ReturnedOnce'
    <3>1. \A v \in Threads : n \notin returned[v]
      BY <1>6 DEF Returned
    <3> QED BY <3>1, <1>1, <2>2 DEF IInv, ReturnedOnce
  <2> QED BY <1>5, <2>2, <2>3, <2>4, <2>5 DEF IInv
<1>8. CASE ~CanInsert(list, n, at[t])
  <2>1. list' = list /\ refused' = refused \cup {n}
    BY <1>8 DEF InsertStep
  <2>2. TypeOK'
    BY <1>1, <1>2, <2>1 DEF IInv, TypeOK, PCs, Pointers
  <2>3. Accounted'
    BY <1>1, <1>2, <1>3, <1>4, <1>6, <2>1 DEF IInv, Accounted
  <2>4. ReturnedOnce'
    BY <1>1, <2>1 DEF IInv, ReturnedOnce
  <2> QED BY <1>5, <2>1, <2>2, <2>3, <2>4 DEF IInv
<1> QED BY <1>7, <1>8

\* A removal that returns its node: Remove itself, or the second half of a pop.
LEMMA ReturnHolds ==
  ASSUME IInv, NEW t \in Threads, NEW a \in Pointers, CanRemove(list, a),
         list' = Unlink(list, a), returned' = [returned EXCEPT ![t] = @ \cup {a}],
         UNCHANGED <<inHand, used, refused>>
  PROVE  Sound(list') /\ list' \in Lists /\ Accounted' /\ ReturnedOnce'
         /\ returned' \in [Threads -> SUBSET Nodes]
<1>1. /\ a \in Members(list) /\ a \in Nodes /\ a \notin InHands
      /\ a \notin Returned /\ a \notin refused
      /\ Sound(list') /\ list' \in Lists /\ Members(list') = Members(list) \ {a}
  BY UnlinkInList
<1>2. /\ Returned' = Returned \cup {a}
      /\ returned' \in [Threads -> SUBSET Nodes]
      /\ \A v, u \in Threads : v # u => returned'[v] \cap returned'[u] = {}
  BY <1>1, Return
<1>3. InHands' = InHands
  BY DEF InHands
<1>4. Accounted'
  BY <1>1, <1>2, <1>3 DEF IInv, Accounted
<1>5. ReturnedOnce'
  <2>1. \A v \in Threads : returned'[v] \subseteq returned[v] \cup {a}
    BY DEF IInv, TypeOK
  <2> QED BY <2>1, <1>1, <1>2 DEF IInv, ReturnedOnce
<1> QED BY <1>1, <1>2, <1>4, <1>5

LEMMA RemoveHolds ==
  ASSUME IInv, NEW t \in Threads, NEW a \in used, RemoveCall(t, a)
  PROVE  IInv'
<1>1. a \in Pointers
  BY DEF IInv, TypeOK, Pointers, Elements
<1>2. /\ Sound(list') /\ list' \in Lists /\ Accounted' /\ ReturnedOnce'
      /\ returned' \in [Threads -> SUBSET Nodes]
  BY <1>1, ReturnHolds DEF RemoveCall
<1>3. TypeOK' /\ HandsMatchSteps'
  BY <1>2 DEF IInv, TypeOK, HandsMatchSteps, RemoveCall
<1> QED BY <1>2, <1>3 DEF IInv

LEMMA PopCallHolds ==
  ASSUME IInv, NEW t \in Threads, PopCall(t)
  PROVE  IInv'
<1>1. Front(list) \in Pointers /\ Back(list) \in Pointers
  BY MemberNodes DEF IInv, TypeOK, Lists, Front, Back, Pointers
<1>2. TypeOK'
  BY <1>1 DEF IInv, TypeOK, PCs, PopCall
<1>3. HandsMatchSteps'
  BY DEF IInv, TypeOK, HandsMatchSteps, PopCall
<1>4. InHands' = InHands /\ Returned' = Returned
  BY DEF PopCall, InHands, Returned
<1>5. Accounted' /\ ReturnedOnce'
  BY <1>4 DEF IInv, Accounted, ReturnedOnce, PopCall
<1> QED BY <1>2, <1>3, <1>5 DEF IInv, PopCall

LEMMA PopStepHolds ==
  ASSUME IInv, NEW t \in Threads, PopStep(t)
  PROVE  IInv'
<1>1. at[t] \in Pointers /\ Nil \in Pointers
  BY DEF IInv, TypeOK, Pointers
<1>2. HandsMatchSteps'
  BY DEF IInv, TypeOK, HandsMatchSteps, PopStep
<1>3. CASE at[t] # Nil /\ CanRemove(list, at[t])
  <2>1. /\ Sound(list') /\ list' \in Lists /\ Accounted' /\ ReturnedOnce'
        /\ returned' \in [Threads -> SUBSET Nodes]
    BY <1>1, <1>3, UnlinkInList, ReturnHolds DEF PopStep
  <2>2. TypeOK'
    BY <1>1, <1>3, <2>1 DEF IInv, TypeOK, PCs, PopStep
  <2> QED BY <1>2, <2>1, <2>2 DEF IInv
<1>4. CASE at[t] = Nil \/ ~CanRemove(list, at[t])
  <2>1. UNCHANGED <<list, inHand, used, returned, refused>>
    BY <1>4 DEF PopStep, Remove
  <2>2. TypeOK'
    BY <1>1, <2>1 DEF IInv, TypeOK, PCs, PopStep
  <2>3. InHands' = InHands /\ Returned' = Returned
    BY <2>1 DEF InHands, Returned
  <2>4. Accounted' /\ ReturnedOnce'
    BY <2>1, <2>3 DEF IInv, Accounted, ReturnedOnce
  <2> QED BY <1>2, <2>1, <2>2, <2>4 DEF IInv
<1> QED BY <1>3, <1>4

\* The inductive invariant holds in every state of every interleaving.
THEOREM InvariantHolds == Spec => []IInv
<1>1. Init => IInv
  BY InitHolds
<1>2. IInv /\ [Next]_vars => IInv'
  <2> SUFFICES ASSUME IInv, [Next]_vars PROVE IInv'
    OBVIOUS
  <2>1. CASE UNCHANGED vars
    BY <2>1 DEF IInv, TypeOK, HandsMatchSteps, Accounted, ReturnedOnce, InHands,
                Returned, vars
  <2>2. ASSUME NEW t \in Threads, ThreadStep(t) PROVE IInv'
    <3>1. CASE PushFrontCall(t) \/ \E a \in used \cup {Root} : InsertCall(t, a)
      BY <3>1, AllocationHolds
    <3>2. CASE \E a \in used : MoveToFrontCall(t, a) \/ MoveToBackCall(t, a)
      BY <3>2, DetachHolds
    <3>3. CASE \E a \in used : RemoveCall(t, a)
      BY <3>3, RemoveHolds
    <3>4. CASE ReadFront(t) \/ InsertStep(t)
      BY <3>4, ReadFrontHolds, InsertHolds
    <3>5. CASE PopCall(t) \/ PopStep(t)
      BY <3>5, PopCallHolds, PopStepHolds
    <3> QED BY <2>2, <3>1, <3>2, <3>3, <3>4, <3>5 DEF ThreadStep
  <2> QED BY <2>1, <2>2 DEF Next
<1> QED BY <1>1, <1>2, PTL DEF Spec

\* The variables stay in their types: no pointer of the list leads out of the
\* heap and its counter is never negative, whoever else works on the list.
THEOREM TypeCorrect == Spec => []TypeOK
<1>1. IInv => TypeOK
  BY DEF IInv
<1> QED BY <1>1, InvariantHolds, PTL

\* The links and the counter are intact in every state of every interleaving of
\* the operations, between the two halves of a move or a pop as well.
THEOREM ListStaysIntact == Spec => []ListIntact
<1>1. IInv => ListIntact
  BY DEF IInv, Sound, ListIntact
<1> QED BY <1>1, InvariantHolds, PTL

\* No node is returned to two goroutines, nor returned and still in the list.
THEOREM NodesReturnedOnce == Spec => []ReturnedOnce
<1>1. IInv => ReturnedOnce
  BY DEF IInv
<1> QED BY <1>1, InvariantHolds, PTL

\* Every node allocated is in exactly one place, lost ones among `refused`.
THEOREM EveryNodeAccounted == Spec => []Accounted
<1>1. IInv => Accounted
  BY DEF IInv
<1> QED BY <1>1, InvariantHolds, PTL

\* insert refuses nothing at the back: MoveToBack and PushBack lose no element.
THEOREM BackInsertsSucceed == Spec => []BackNeverRefuses
<1>1. IInv => BackNeverRefuses
  <2> SUFFICES ASSUME IInv, NEW t \in Threads, pc[t] = "insert", at[t] = Root
               PROVE  CanInsert(list, inHand[t], Root)
    BY DEF BackNeverRefuses
  <2>1. inHand[t] # Nil
    BY DEF IInv, HandsMatchSteps
  <2>2. Root \in list.owned /\ Root \in Elements
    BY MemberNodes DEF IInv, Elements
  <2> QED BY <2>1, <2>2, InHandIsLoose
<1> QED BY <1>1, InvariantHolds, PTL
=============================================================================
