---------------------------- MODULE AtomicService ----------------------------
(***************************************************************************)
(* What a handler and the consumer may assume of the service, without its  *)
(* breaker, its mutex and the time the database takes: every call takes    *)
(* effect at one moment between its call and its answer, or is turned away *)
(* without an effect.  A read is of the cache alone: an order not cached is *)
(* an error, stored or not.  A write is of cache and table at once, and its *)
(* answer says nothing of the table.  A crash forgets calls and cache.     *)
(***************************************************************************)
CONSTANTS
  Orders, Versions, Readers, Writers, Capacity, None,
  Entries, Whole(_), Header(_),  \* what may be cached of an order's versions
  Ok, Error, Rejected

VARIABLES
  store,   \* the version of every order that is stored, or None
  cached,  \* the entry of every order that is cached, or None
  pending  \* the call every goroutine is in: idle, called or answered

serviceVars == <<store, cached, pending>>

Cache == INSTANCE BoundedCache WITH
           Keys <- Orders, Values <- Entries, store <- cached,
           reply <- None, Refused <- Error

Callers == Readers \cup Writers

NoCall  == [pc |-> "idle", order |-> None, version |-> None, result |-> None]
NoCalls == [c \in Callers |-> NoCall]

ServiceInit ==
  /\ store = [o \in Orders |-> None]
  /\ cached = Cache!EmptyMap
  /\ pending = NoCalls

\* A call begins and waits for its moment, or is turned away.
Begins(c, o, v, pc, result) ==
  /\ pending[c].pc = "idle"
  /\ pending' = [pending EXCEPT ![c] = [pc |-> pc, order |-> o, version |-> v,
                                        result |-> result]]
  /\ UNCHANGED <<store, cached>>

Begin(c, o, v) ==
  Begins(c, o, v, "called", None) \/ Begins(c, o, v, "answered", Rejected)

\* The moment of a call.
Answers(c, result) ==
  /\ pending[c].pc = "called"
  /\ pending' = [pending EXCEPT ![c] = [@ EXCEPT !.pc = "answered", !.result = result]]

Read(r) ==
  LET e == cached[pending[r].order] IN
  /\ Answers(r, IF e # None THEN e ELSE Error)
  /\ UNCHANGED <<store, cached>>

Write(w) ==
  LET o == pending[w].order
      v == pending[w].version
  IN  /\ Answers(w, Ok)
      /\ \/ UNCHANGED store
         \/ store[o] = None /\ store' = [store EXCEPT ![o] = v]
      /\ cached' \in Cache!AfterSet(cached, o, Whole(v))

\* The answer is delivered.
End(c) ==
  /\ pending[c].pc = "answered"
  /\ pending' = [pending EXCEPT ![c] = NoCall]
  /\ UNCHANGED <<store, cached>>

\* The cache is asked to forget some orders.
Forget(s) ==
  /\ cached' = [o \in Orders |-> IF o \in s THEN None ELSE cached[o]]
  /\ UNCHANGED <<store, pending>>

\* The process ends and starts again with the rows of some stored orders.
Crash(s) ==
  /\ \A o \in s : store[o] # None
  /\ cached' = [o \in Orders |-> IF o \in s THEN Header(store[o]) ELSE None]
  /\ pending' = NoCalls
  /\ UNCHANGED store

ServiceNext ==
  \/ \E r \in Readers : Read(r) \/ \E o \in Orders : Begin(r, o, None)
  \/ \E w \in Writers : Write(w) \/ \E o \in Orders, v \in Versions : Begin(w, o, v)
  \/ \E c \in Callers : End(c)
  \/ \E s \in SUBSET Orders : Forget(s) \/ Crash(s)

ServiceSpec == ServiceInit /\ [][ServiceNext]_serviceVars
=============================================================================
