---------------------------- MODULE OrderService ----------------------------
(***************************************************************************)
(* internal/service over internal/cache.Manager over internal/db.OrderRepo: *)
(* the HTTP handlers call GetOrder, the Kafka consumer calls ProcessOrder. *)
(* A call passes the service's one breaker, waits for the manager's mutex, *)
(* works on the cache and, holding the mutex, on the database, and reports *)
(* its outcome to the breaker after the mutex is released.  A restart      *)
(* loses all but the database; WarmCache then runs before any other call.  *)
(*                                                                         *)
(* The cache is used through the promise of BoundedCache, whatever it      *)
(* evicts.  An order's content is its version: what distinguishes two      *)
(* messages with one order_uid.                                            *)
(***************************************************************************)
EXTENDS Naturals, FiniteSets

CONSTANTS
  Orders,       \* order_uids
  Versions,     \* the valid contents an order message may carry
  Readers,      \* goroutines of HTTP handlers
  Writers,      \* goroutines of the consumer's loops
  Capacity, None,
  MaxRequests, TripAt,  \* 3 and 5 in NewOrderService
  Ok, Error, Rejected   \* what a call returns, if not an order

ASSUME ActorsDistinct ==
  Readers \cap Writers = {} /\ None \notin Readers \cup Writers \cup Versions
ASSUME CapacityPositive == Capacity \in Nat \ {0}
ASSUME BreakerSettings == MaxRequests \in Nat \ {0} /\ TripAt \in Nat \ {0}

Callers == Readers \cup Writers

INSTANCE Breaker

\* What the cache holds of an order: the whole message, or the columns of the
\* orders table alone, without delivery, payment and items.
Entries   == [version : Versions, complete : BOOLEAN]
Whole(v)  == [version |-> v, complete |-> TRUE]
Header(v) == [version |-> v, complete |-> FALSE]

ASSUME OutcomesDistinct ==
  /\ None \notin Entries /\ {Ok, Error, Rejected} \cap (Entries \cup {None}) = {}
  /\ Ok # Error /\ Ok # Rejected /\ Error # Rejected

VARIABLES
  repo,     \* the orders table: the version whose row is stored, or None
  cache,    \* the entry cached, or None
  mu,       \* the caller that holds Manager.mu, or None
  breaker,
  call,     \* where every goroutine is
  lastSet,  \* history: the version last handed to Manager.Set since the start
  unsaved   \* history: the orders of which some SaveOrder has reported an error

vars == <<repo, cache, mu, breaker, call, lastSet, unsaved>>

Idle == [pc |-> "idle", order |-> None, version |-> None, result |-> None]

Calls == [pc : {"idle", "waiting", "inRepo", "returning"}, order : Orders \cup {None},
          version : Versions \cup {None},
          result : Entries \cup {None, Ok, Error, Rejected}]

TypeOK ==
  /\ repo \in [Orders -> Versions \cup {None}]
  /\ cache \in [Orders -> Entries \cup {None}]
  /\ mu \in Callers \cup {None}
  /\ breaker \in Breakers
  /\ call \in [Callers -> Calls]
  /\ lastSet \in [Orders -> Versions \cup {None}]
  /\ unsaved \subseteq Orders

Promise == INSTANCE BoundedCache WITH
             Keys <- Orders, Values <- Entries, store <- cache,
             reply <- None, Refused <- Error

-----------------------------------------------------------------------------
\* Startup.  GetNOrders reads at most Capacity rows of the orders table in no
\* particular order, or fails, which WarmCache only logs.
Stored == {o \in Orders : repo[o] # None}

\* What GetNOrders may return: LIMIT n without ORDER BY.
Selections ==
  {s \in SUBSET Stored :
     \/ Cardinality(s) = Capacity
     \/ s = Stored /\ Cardinality(s) <= Capacity}

Warmed(s) == [o \in Orders |-> IF o \in s THEN Header(repo[o]) ELSE None]

Init ==
  /\ repo = [o \in Orders |-> None]
  /\ cache = [o \in Orders |-> None]
  /\ mu = None
  /\ breaker = Generation("closed")
  /\ call = [c \in Callers |-> Idle]
  /\ lastSet = [o \in Orders |-> None]
  /\ unsaved = {}

\* The process dies, wherever its goroutines are, and starts again.
Restart ==
  /\ \E s \in Selections \cup {{}} : cache' = Warmed(s)
  /\ mu' = None
  /\ breaker' = Generation("closed")
  /\ call' = [c \in Callers |-> Idle]
  /\ lastSet' = [o \in Orders |-> None]
  /\ UNCHANGED <<repo, unsaved>>

-----------------------------------------------------------------------------
\* Both operations start at the breaker.
Enter(c, o, v) ==
  /\ call[c].pc = "idle"
  /\ IF Admits(breaker)
     THEN /\ breaker' = Admitted(breaker, c)
          /\ call' = [call EXCEPT ![c] = [pc |-> "waiting", order |-> o,
                                          version |-> v, result |-> None]]
     ELSE /\ call' = [call EXCEPT ![c] = [pc |-> "returning", order |-> o,
                                          version |-> v, result |-> Rejected]]
          /\ UNCHANGED breaker
  /\ UNCHANGED <<repo, cache, mu, lastSet, unsaved>>

ProcessOrder(w, o, v) == Enter(w, o, v)
GetOrder(r, o)        == Enter(r, o, None)

\* Wrong variant, for mutation: Set without c.mu.Lock().
LockSetUnlocked(w) ==
  /\ call[w].pc = "waiting"
  /\ call' = [call EXCEPT ![w].pc = "inRepo"]
  /\ UNCHANGED <<repo, cache, mu, breaker, lastSet, unsaved>>

\* Manager.Set takes the mutex and keeps it while SaveOrder runs.
LockSet(w) ==
  /\ call[w].pc = "waiting" /\ mu = None
  /\ mu' = w
  /\ call' = [call EXCEPT ![w].pc = "inRepo"]
  /\ UNCHANGED <<repo, cache, breaker, lastSet, unsaved>>

\* Wrong variant, for mutation: Get releasing the mutex while the database is read.
LockGetReleases(r) ==
  /\ call[r].pc = "waiting" /\ mu = None
  /\ call' = IF cache[call[r].order] # None
             THEN [call EXCEPT ![r].pc = "returning", ![r].result = cache[call[r].order]]
             ELSE [call EXCEPT ![r].pc = "inRepo"]
  /\ UNCHANGED <<repo, cache, mu, breaker, lastSet, unsaved>>

\* Manager.Get takes the mutex; a hit releases it at once.
LockGet(r) ==
  /\ call[r].pc = "waiting" /\ mu = None
  /\ IF cache[call[r].order] # None
     THEN /\ call' = [call EXCEPT ![r].pc = "returning",
                                  ![r].result = cache[call[r].order]]
          /\ UNCHANGED mu
     ELSE /\ call' = [call EXCEPT ![r].pc = "inRepo"]
          /\ mu' = r
  /\ UNCHANGED <<repo, cache, breaker, lastSet, unsaved>>

\* Wrong variant, for mutation: WithTx dropping the error of tx.Commit.
SaveUnchecked(o, v, committed, failed) ==
  /\ repo' = IF committed /\ repo[o] = None THEN [repo EXCEPT ![o] = v] ELSE repo
  /\ unsaved' = IF failed THEN unsaved \cup {o} ELSE unsaved

\* The end of SaveOrder.  Its transaction is committed or not, and an error is
\* reported or not: a commit whose reply is lost is both.  The row of an order
\* already stored stays as it is (ON CONFLICT DO NOTHING).  The manager only logs
\* the error.
SaveOrder(o, v, committed, failed) ==
  /\ failed \/ committed
  /\ repo' = IF committed /\ repo[o] = None THEN [repo EXCEPT ![o] = v] ELSE repo
  /\ unsaved' = IF failed THEN unsaved \cup {o} ELSE unsaved

\* Wrong variant, for mutation: a cached order kept when a later message arrives.
CachesFirst(o, v) ==
  IF cache[o] # None THEN {cache} ELSE Promise!AfterSet(cache, o, Whole(v))

AfterCaching(o, v) == Promise!AfterSet(cache, o, Whole(v))

SetReturns(w) ==
  /\ call[w].pc = "inRepo"
  /\ \E committed, failed \in BOOLEAN :
       SaveOrder(call[w].order, call[w].version, committed, failed)
  /\ cache' \in AfterCaching(call[w].order, call[w].version)
  /\ lastSet' = [lastSet EXCEPT ![call[w].order] = call[w].version]
  /\ mu' = None
  /\ call' = [call EXCEPT ![w].pc = "returning", ![w].result = Ok]
  /\ UNCHANGED breaker

\* OrderRepo.GetOrder passes no argument for the query's one placeholder, and
\* the driver refuses to run it.
Placeholders == 1
Arguments    == 0

RepoGetOrder(o) ==
  IF Arguments # Placeholders THEN Error
  ELSE IF repo[o] = None THEN None ELSE Whole(repo[o])

\* Wrong variant, for mutation: the error path of Get without the unlock.
GetKeepsLock(r) ==
  /\ call[r].pc = "inRepo"
  /\ call' = [call EXCEPT ![r].pc = "returning", ![r].result = Error]
  /\ UNCHANGED <<repo, cache, mu, breaker, lastSet, unsaved>>

\* Wrong variant, for mutation: the error path of Get without its return.
GetCachesError(r) ==
  /\ call[r].pc = "inRepo"
  /\ LET node == RepoGetOrder(call[r].order) IN
     /\ cache' \in Promise!AfterSet(cache, call[r].order, node)
     /\ call' = [call EXCEPT ![r].pc = "returning", ![r].result = node]
  /\ mu' = None
  /\ UNCHANGED <<repo, breaker, lastSet, unsaved>>

GetReturns(r) ==
  /\ call[r].pc = "inRepo"
  /\ LET o == call[r].order
         node == RepoGetOrder(o) IN
     /\ IF node \in Entries THEN cache' \in Promise!AfterSet(cache, o, node)
        ELSE UNCHANGED cache
     /\ call' = [call EXCEPT ![r].pc = "returning", ![r].result = node]
  /\ mu' = None
  /\ UNCHANGED <<repo, breaker, lastSet, unsaved>>

\* Wrong variant, for mutation: Execute taking a nil result for a failure.
ReturnNilFails(c) ==
  /\ call[c].pc = "returning"
  /\ breaker' = Recorded(breaker, c, call[c].result \in Entries)
  /\ call' = [call EXCEPT ![c] = Idle]
  /\ UNCHANGED <<repo, cache, mu, lastSet, unsaved>>

\* Wrong variant, for mutation: admission and report apart, and ProcessOrder
\* returning without its report.
ReturnUnreported(c) ==
  /\ call[c].pc = "returning"
  /\ breaker' = IF call[c].result = Ok THEN breaker
                ELSE Recorded(breaker, c, call[c].result # Error)
  /\ call' = [call EXCEPT ![c] = Idle]
  /\ UNCHANGED <<repo, cache, mu, lastSet, unsaved>>

\* Execute records the outcome, and the call returns to its handler.
Return(c) ==
  /\ call[c].pc = "returning"
  /\ breaker' = Recorded(breaker, c, call[c].result # Error)
  /\ call' = [call EXCEPT ![c] = Idle]
  /\ UNCHANGED <<repo, cache, mu, lastSet, unsaved>>

\* Manager.DeleteCache and FlushCache touch the cache alone, under the mutex; a key
\* that is not there is an error and changes nothing.
DeleteCache(o) ==
  /\ mu = None /\ cache[o] # None
  /\ cache' = [cache EXCEPT ![o] = None]
  /\ UNCHANGED <<repo, mu, breaker, call, lastSet, unsaved>>

FlushCache ==
  /\ mu = None
  /\ cache' = [o \in Orders |-> None]
  /\ UNCHANGED <<repo, mu, breaker, call, lastSet, unsaved>>

\* Sixty seconds pass: the breaker's Timeout, or its Interval, is over.
BreakerClock ==
  /\ CanExpire(breaker, TRUE)
  /\ breaker' = Expired(breaker)
  /\ UNCHANGED <<repo, cache, mu, call, lastSet, unsaved>>

Next ==
  \/ \E w \in Writers :
       \/ \E o \in Orders, v \in Versions : ProcessOrder(w, o, v)
       \/ LockSet(w) \/ SetReturns(w)
  \/ \E r \in Readers :
       \/ \E o \in Orders : GetOrder(r, o)
       \/ LockGet(r) \/ GetReturns(r)
  \/ \E c \in Callers : Return(c)
  \/ \E o \in Orders : DeleteCache(o)
  \/ FlushCache
  \/ BreakerClock
  \/ Restart

Spec == Init /\ [][Next]_vars

\* Every admitted call goes on: SaveOrder and GetOrder have deadlines of 30 and
\* 15 seconds, and sync.Mutex hands the lock to whoever has waited a millisecond.
\* Nobody has to call, the clock need not tick, and nothing need restart.
Fairness ==
  /\ \A w \in Writers : SF_vars(LockSet(w)) /\ WF_vars(SetReturns(w))
  /\ \A r \in Readers : SF_vars(LockGet(r)) /\ WF_vars(GetReturns(r))
  /\ \A c \in Callers : WF_vars(Return(c))

LiveSpec == Spec /\ Fairness

-----------------------------------------------------------------------------
\* The cache answers with the message consumed last, however calls, evictions
\* and failed saves interleave; before the first message of this run of the
\* process it holds the header WarmCache read from the database.  No read puts back
\* the version the database kept, which may be an older one: every query fails.
CacheIsCurrent ==
  \A o \in Orders : cache[o] # None =>
    cache[o] = IF lastSet[o] # None THEN Whole(lastSet[o]) ELSE Header(repo[o])

\* An order is served that the database does not hold only after a SaveOrder of
\* it has reported an error: the cache never runs ahead of the database silently.
CachedIsStoredOrReported ==
  \A o \in Orders : cache[o] # None /\ repo[o] = None => o \in unsaved

\* The manager's mutex is held exactly while one call is inside the repository:
\* all database work of the process is serial, so the second connection that a
\* nested WithTx takes is never contended by another SaveOrder.
OneCallInRepo ==
  \A c \in Callers : call[c].pc = "inRepo" <=> mu = c

\* A half-open breaker that admits nobody has a probe under way, which will close
\* or reopen it: no interleaving of late answers, expiries and probes leaves it
\* half-open with its quota used up and nobody left to report.
HalfOpenNotStuck ==
  breaker.state = "half-open" /\ ~Admits(breaker) =>
    \E c \in breaker.current : call[c].pc # "idle"

\* Every call the breaker counts is under way, and a call waiting for the mutex
\* that is not counted was admitted in an older generation: the counts of a
\* generation never include a call that has returned.
CurrentIsUnderWay ==
  \A c \in breaker.current : call[c].pc # "idle" /\ call[c].result # Rejected

\* Only a read opens the closed breaker: ProcessOrder's function returns nil
\* whatever SaveOrder reported, so a failing database never stops the consumer
\* by itself, and cache misses of GET /order do.
OnlyReadsTrip ==
  [][breaker.state = "closed" /\ breaker'.state = "open"
       => \E r \in Readers : call[r].result = Error /\ call'[r] = Idle]_vars

\* Whoever calls sees database and cache change at one moment of every call,
\* although a call is many steps and others run between them: a read that found
\* the cache without its order, and waited for the database, answers as if it had
\* looked when it answers.
Phase(pc) ==
  CASE pc = "idle" -> "idle"
    [] pc \in {"waiting", "inRepo"} -> "called"
    [] pc = "returning" -> "answered"

Atomic == INSTANCE AtomicService WITH
            store <- repo, cached <- cache,
            pending <- [c \in Callers |->
                          [pc |-> Phase(call[c].pc), order |-> call[c].order,
                           version |-> call[c].version, result |-> call[c].result]]

CallsAreAtomic == Atomic!ServiceSpec

\* Every call returns: no order of waiting, failing and answering leaves a
\* handler or the consumer's loop inside the service for ever.
CallsReturn == \A c \in Callers : call[c].pc # "idle" ~> call[c].pc = "idle"

-----------------------------------------------------------------------------
\* What comments promise, and the code does not do.
\* order_service.go:45, manager.go:48: an order ProcessOrder accepted is stored.
AcceptedIsStored ==
  \A w \in Writers :
    call[w].pc = "returning" /\ call[w].result = Ok => repo[call[w].order] # None

\* order_service.go:92, manager.go:59: an order absent from the cache is
\* retrieved from the database, if it is there.
DatabaseBacksCache ==
  [][\A r \in Readers : call[r].pc = "inRepo" /\ repo[call[r].order] # None
                          => call'[r].result # Error]_vars

\* models/orders.go:11: an order has its payment, delivery and items.
ServedOrdersComplete ==
  \A r \in Readers :
    call[r].pc = "returning" /\ call[r].result \in Entries => call[r].result.complete
=============================================================================
