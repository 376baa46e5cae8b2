# A verification project for the L0 order service

The repository is a small Go service: orders arrive on a Kafka topic, are
validated, stored in Postgres and cached, and `GET /order/{order_uid}` answers
from the cache or from the database. This directory holds TLA+ models of it, the
TLC configurations that check them, and TLAPS proofs about them.

    tlc -workers 2 -config MCOrderService.cfg MCOrderService
    tlapm OrderServiceProofs.tla

## 1. Inventory

| component | code | state | operations |
|---|---|---|---|
| LRU list | `internal/cache/lru_cache/list` | next, prev and list pointers of nodes and sentinel, `len` | insert at either end, Remove, MoveToFront/Back, PopFront/Back |
| LRU cache | `internal/cache/lru_cache` | the list, a map from keys to its nodes, capacity | Set, Get, Delete, Flush, Contains, Size, Empty |
| cache manager | `internal/cache/manager.go` | one mutex over cache and repository | WarmCache, Set, Get, DeleteCache, FlushCache |
| order service | `internal/service` | one circuit breaker | ProcessOrder, GetOrder, WarmCache |
| Kafka consumer | `internal/kafka/consumer.go` | reader, running, breaker, a goroutine | Start, Stop, the loop: fetch, process, bury, commit |
| dead letter queue | `internal/kafka/dead_letter_queue.go` | map of messages, id counter | Send, Get, Retry, Clear, GetByReason, Statistics |
| repository | `internal/db`, `deployments/db/init.sql` | four tables, connection pool | SaveOrder, GetOrder, GetNOrders, single inserts and reads |
| HTTP server | `internal/server` | requests under way | GET /order, GET /health, timeout and recovery middleware |
| model | `internal/models` | none | validation of an order |
| processes | `cmd/order_service`, `cmd/producer` | startup and shutdown order | main |
| configuration | `internal/config`, `config/config.yml` | none | load, validate |

**How they interact.** Every HTTP request and the consumer's loop is a goroutine
of its own. Both call the order service, whose breaker admits or refuses them;
an admitted call takes the manager's mutex and keeps it through the database
call; the outcome is reported to the breaker after the mutex is released. The
consumer has a second breaker around its fetches, and shares `running` and
`reader` with the callers of Start and Stop under an RWMutex that its loop holds
only while it looks. The cache and the list have locks of their own, always
taken in the order manager, cache, list.

**What is hard.** Late answers to a breaker that has changed state; errors that
are logged and dropped (`SaveOrder`); commits that fail while the loop goes on;
a loop that outlives the Stop that ends it; a restart that refills the cache
with less than it held; two structures (map and list) that every method updates
in several steps. `PROJECT.json` lists each hazard at its line.

**What makes each part correct.** The cache: map and list agree, size is bounded
and counted right, the evicted key is the least recently used. The service: the
cache answers with the order consumed last and does not silently run ahead of
the database; calls return; the breaker does not wedge. The consumer, as long as one
loop runs: no message is forgotten or skipped, and it has a loop until its context is cancelled.
The repository: an order is stored whole or not at all. The server: no request waits for
ever, and what arrives is the handler's answer. One would also ask that an order be read back
as stored, that every request get an answer and that a panic cost one request: the
code does not do that (section 6).

## 2. The modules

### LruList, LruCache (and BoundedCache, LruOrder, MCLruCache)

`LruList` is the linked list as operators on a record: `next`, `prev`, `owned`
(the nodes whose `list` pointer is this list) and `len`. `Link` and `Unlink` are
the pointer updates of `insert` and `Remove`; `CanInsert` and `CanRemove` are
their early returns, so a node left with a stale pointer is refused here exactly
where the code refuses it. `LruCache` has one action per method of `LRUCache`,
which runs under the cache's mutex from its first line to its last. `Set` is
composed as in the code: unlink the old node (`Trimmed`), pop the back at
capacity (`Evicted`, `Purged`), push a new node. `Flush` runs its loop over the
map's nodes in any order (`FlushLoop`), as `range` does. A nil dereference is the reply
`Panic`.

`BoundedCache` is what users of `interfaces.Cache` rely on: a bounded map where
a Set at capacity drops *some* other key. `LruOrder` says *which*: it keeps for every
cached key the set of keys used since, and drops the key since which all others have
been used. `LruCache` is checked and proved to implement both: `store` maps the
pointers to the values, and `newer` to the sets, following `next` from the sentinel
(`Walk`, back to front) to whatever lies in front of a key's node.

### LruListThreads (and MCLruListThreads)

The comment of the list calls it thread-safe, and it has a lock of its own. This
module uses `LruList`'s operators without the cache's mutex: a step is what one
goroutine does under *one* hold of the list's lock. `PushFront` is allocate, read
the front (`ReadFront`, outside the lock), `InsertStep`; a move is `Detach` and
then an insertion; a pop is `PopCall` and `PopStep`. `inHand` is the node a
goroutine carries between two steps, `refused` the nodes whose insertion failed.

### Breaker

gobreaker as operators on a record, external to the repository, used by both its
users here. `current` is the set of calls admitted in the present generation;
`Recorded` ignores all others. `Expired` is what the passing of `Timeout` or
`Interval` does.

### OrderService (and AtomicService, MCOrderService)

`repo` is the orders table, `cache` the cached entries, `mu` the manager's mutex,
`call` where every goroutine is: idle, waiting for the mutex, in the repository,
returning. `ProcessOrder` and `GetOrder` pass the breaker; `LockSet`/`SetReturns`
and `LockGet`/`GetReturns` are the two halves of `Manager.Set` and `Manager.Get`
around the database call; `Return` reports to the breaker. The cache is used
through `BoundedCache!AfterSet`, so the checks hold for every eviction policy.
`DeleteCache` and `FlushCache`, which nothing in the program calls yet, are actions
too: a cache that loses entries at any moment keeps the properties.
`SaveOrder` is committed or not and reports an error or not, in every
combination but a silent failure. `Restart` may strike at any point; it keeps
the database and warms the cache with any selection `LIMIT` without `ORDER BY`
may return. An order's content is its *version*: two messages with one order_uid
differ in it.

`AtomicService` is what a handler and the consumer may assume of all this, with no
mutex, breaker or database time in sight: between a call and its answer there is one
moment at which the call reads the cache, or writes cache and table together, or it is turned
away without an effect. In `OrderService` that moment is a cache hit's `LockGet`, a
miss's `GetReturns`, a writer's `SetReturns`. It promises no more than the code
does: an order that is stored but not cached is an error, and a write's answer says
nothing of the table.

### Validation, OrderRepo, OrderStore (and MCOrderRepo)

`Validation` is the four `Validate` methods. A pattern or a date is a fact about
a field; the numbers are kept, in words of `2 * HalfWord` values that wrap around, and
`OrderFits`, `PaymentFits` and `ItemFits` say what the `INT` columns hold.

`OrderRepo` executes `SaveOrder` and the public inserts statement by statement:
`Program` is the order in which the code sends them, `tx.work` the tables as the
transaction sees them, and every `Exec...` has the constraints of `init.sql` and
the `ON CONFLICT` clause of its statement. `BeginItems` is the second connection
that `insertItems` takes through a `WithTx` of its own. Its statements run on the
outer transaction, so it begins and commits empty. `Fail` may strike between any
two steps: a refused statement, a deadline, a lost connection and a crash all end
in a rollback. `CommitTx` may lose its reply. The model has one transaction of the process at
a time, which theorem `RepoIsSerial` of `OrderServiceProofs` justifies.

`OrderStore` is what the cache manager may assume of `SaveOrder`: one `Commit` or
one `Abort`. It has the outcomes of the `SaveOrder` in `OrderService`, so that the two
modules meet in it.

### Consumer (and MCConsumer)

The log of one partition, the group's committed offset, the readers that Start
has made, and for each Start a loop with its program counter, the reader it read
under the lock and the message it holds. One action per step of `consume`
between two points where another goroutine can act: look at the flags (`Top`),
pass the breaker (`Execute`), the fetch's answer (`Fetched`, `FetchFails`),
`processMessage` (`Process`), the second burial (`Bury`), the commit. A closed
reader may still hand out a buffered message and cannot commit. `Crash` keeps
log and offsets only. The `retry.Do` between two fetches does nothing in the
code and is no step here; it can only fail if the context is done, which is
`FetchError`'s condition.

### HttpServer (and MCHttpServer)

A request is two goroutines: net/http's, which runs the middlewares and waits in
`timeoutMiddleware`'s select (`server`), and the handler's (`handler`). They share
a response and nothing stops the second when the first returns. The steps are
those that the other goroutine can come between: the call and answer of the
service, the header, the body, the two halves of `http.Error`, the return. The
connection's write deadline, the request's and the client's departure are steps of
their own, in the order that the two timeouts allow. A client that has closed its half of the
connection cancels the request as one that is gone does, and may still listen. `Crash` is the end of the process
that a write after `ServeHTTP` has returned, or two writes to the header map
at once, may cause. net/http is modelled from the outside.

## 3. The runs

| run | bounds | states | what it shows |
|---|---|---|---|
| `lru_cache` | 4 nodes, 4 keys, 2 values, capacity 3 | 16,614 | map, list and counter agree; both refinements; Flush's loop empties the list in any order |
| `lru_list_threads` | 3 goroutines, 5 nodes | 21,388 | links and counter survive every interleaving; no node is returned twice, duplicated or leaked |
| `order_service` | 2 orders, 2 versions, 2 readers, 1 writer, capacity 1, quota 2, trip at 2 | 1.94 M | currency of the cache, the breaker's accounting, serial database work |
| `order_service_live` | 1 order, 2 versions, 1 reader, 2 writers, otherwise as `order_service` | 102,958 | every call returns, and takes effect at one moment |
| `order_repo` | 7 messages, pools of 1 and 2, 3 delivery ids, words of 10 bits, columns of 3 | 321,596 | an order is stored whole or not at all, its totals add up, no row is ever changed |
| `consumer` | 2 messages, 2 Starts, 1 crash, quota 1, trip at the first failure | 3.84 M | nothing forgotten or skipped, offsets monotonic, a running consumer has a loop |
| `consumer_live` | 2 messages, 1 Start, 1 crash, quota 1, trip at 2 | 33,542 | every message behind the joining offset is handled |
| `http_server` | 2 connections, both timeouts 30 s | 208,185 | what is delivered is the handler's answer; no request waits for ever |
| `order_service_accepted`, `order_service_database`, `order_service_complete`, `consumer_two_loops` | as above | | each violates one sentence of the code's comments, see section 6 |

**Why the bounds are enough.**

* *Cache.* Capacity 3 with 4 keys makes the evicted key differ from the front, the
  middle and the key set; a fourth node is what a Set at capacity allocates before
  the old one is garbage. Node symmetry is sound: no property names a node, and the
  run checks only safety.
* *List under threads.* Three goroutines are two whose halves interleave and one that
  changes the ends between them; five nodes are a list of two, and one in each hand.
  A goroutine that panicked stops, so the run does not check for deadlock.
* *Service.* Capacity 1 with 2 orders evicts on every other Set; two readers and a
  writer are a call that answers late, one that is a probe and one that holds the
  mutex; quota and threshold of 2 (3 and 5 in the code) tell "some" from "all" and
  "one" from "in a row". `order_service_live` has two writers, since a Stop followed by a Start can leave
  two loops (section 6), and the versions of one order, which are what two calls
  may confuse; an order evicted by another is left to the theorem.
  The safety properties and `CallsAreAtomic` are proved for every value.
* *Repository.* The messages are chosen to meet in every constraint: one order alone,
  an invalid one, a redelivery with other items, an order with another's track_number,
  an order whose payment and items are another's, and one whose amount wraps around
  to a valid sum. Ten-bit words and three-bit columns keep the proportion the code
  relies on: a price that fits its column, times a percentage, fits a word. A pool of
  2 stands for all larger ones, since nobody needs a third connection.
* *Consumer.* Two messages are one whose commit fails and one whose commit covers it;
  two Starts are a loop and its successor; a crash between any two steps is one
  crash. The shipped configuration has no `circuit_breaker` section: quota 0 becomes
  the library's 1, threshold 0 trips at the first failure, and there is no Interval;
  `consumer_live` takes a threshold of 2 and sets the timeout, so that the Interval
  expires as well. `Faults` are alike to the loop, so their symmetry is sound.
* *Server.* Two connections are a handler that outlives its request and the response
  it may write into. The timeouts are those of `config.yml:4` and `server.go:103`.

`MaxLog`, `MaxStarts`, `MaxCrashes` and `MaxDeliveryId` are bounds of the models, not
of the code. Because of the first three the consumer's model may stop for good, and
its runs do not check for deadlock; the runs of service, repository and server do.

**Fairness.** In `OrderService` an admitted call goes on: the repository's calls
have deadlines of 30 and 15 seconds (WF of `SetReturns`, `GetReturns`), `Return`
only computes (WF), and `sync.Mutex` switches to hand-over once a waiter has
waited a millisecond (SF of `LockSet`, `LockGet`). No call need be made, the
clock need not tick, nothing need restart. In `Consumer` the loop's steps, the
joining of a reader and the breaker's clock go on (WF), main calls Start (WF),
and a fetch that could be served again and again is served at some time (SF of
`Fetched`): the broker does not fail for ever. Commits need never succeed. Stop,
Cancel and Crash need not happen, and the property excuses a consumer that was
stopped or cancelled; one that crashes is started again. In `HttpServer` the
clocks of a request go on and so does the goroutine that waits for them (WF of
`WriteDeadline`, `Expire`, `ServerStep`); nothing is assumed of the handler, the
service and the database.

## 4. The properties worth knowing

* `MapMatchesList`, `ListIntact`, `SizeBounded`, `FlushLoopEmpties`, `KeepsBoundedMap`,
  `KeepsLruOrder`: no sequence of calls separates map, links and counter, and what
  an overflowing Set drops is the key left alone the longest.
* `ReturnedOnce`, `Accounted`, `BackNeverRefuses`: without the cache's mutex the list
  stays a list and hands each node out once. It may still lose an element, and only
  in one way: `PushFront` and `MoveToFront` insert after a front read
  before the lock (`lru_list.go:165`), and are refused if it has been removed since.
* `CacheIsCurrent`: the cache holds the order consumed last, or before the first
  message of a process the row read from the database. The database may hold the
  *first* version of the same order (`ON CONFLICT DO NOTHING`), and a restart goes back
  to it. A read does not, but for a poor reason: every query of `GetOrder`
  fails. The critical section of `Manager.Get` alone would not prevent it. With `Arguments` set to 1
  TLC finds the cache going back: two messages, an eviction, a read. Whoever
  mends the query needs `ON CONFLICT DO UPDATE` too.
* `CallsAreAtomic`: two messages for one order and a read of it leave what some order of
  the three calls leaves, whatever the database's timing. A `Get` that released the mutex
  after its miss would answer with an error an order that was cached meanwhile.
* `CachedIsStoredOrReported`: an order served but not stored had its error logged.
* `HalfOpenNotStuck`, `FetchBreakerNotStuck`, `CurrentIsUnderWay`: the breaker's
  accounting survives late outcomes.
* `OnlyReadsTrip`: a database that refuses writes never opens the breaker, reads
  that miss the cache do, and the consumer's orders are refused with them.
* `StoredWhole`, `KeepsOrderStore`, `CommittedRowsStay`: four inserts and a nested
  transaction are one atomic step, and what an order stored stays as it is.
  Whole means that the payment and the items *have* rows: an order that names another's
  payment or chrt_ids, which `Validate` permits, is stored with the rows of that other.
* `StoredTotalsAddUp`: for orders that name nobody else's rows, the totals in the
  database add up in exact arithmetic, although `Validate` compares words that
  wrap around; whatever wraps does not fit the columns.
* `OneConnectionStoresNothing`: with `max_open_connections` 1, which
  `config.Validate` accepts, `SaveOrder` waits for the connection it holds itself.
* `CommittedIsHandled`: at least once, from the first commit's reader on and as
  long as one loop runs. Before the group's first commit a reader joins at the
  end of the log, so messages published while no reader was there are skipped:
  the code asks for `LastOffset`. Like `CommittedMonotonic` it says nothing once two loops have
  overlapped, which `OneLoop` shows to be possible.
* `RunningHasLoop`: only a cancelled context leaves a consumer that says it runs, refuses
  Start and has no loop; that case it excuses.
* `NothingDropped`, `FaultsBuriedTwice`, `CommittedMonotonic`, `MessagesAreHandled`.
* `DeliveredIsTheHandlers`: no response mixes two authors before some handler has
  outlived its request, and the 408 of the timeout reaches nobody: the
  connection's write deadline is over when it is written. The second half needs a
  `write_timeout` of at most the middleware's 30 s, as shipped; `config.Validate` does not ask for it.
  What a panic costs, the whole process, is the model's `Crash`, not a property.
* `RequestsReturn`: with a service that never answers, too.

## 5. The proofs

TLAPS proves for every value of the constants what TLC checks on the instances.

**FoldLemmas** has what the other modules need of folds and sums. Induction is stated
as a fact about sets: a set of naturals that has 0 and the successors of its members
has them all (`InductionUpTo`, from the well-foundedness of `<`), and so has a collection of
subsets of a finite set that has the empty one and every subset all of whose
subsets with one element less it has (`SubsetInduction`). From that
follow that the recursive function a fold over a set stands for exists
(`FoldExists`), whatever element it takes first, and that a sum may give up any
element first (`SumRemovesAny`).

**LruListProofs**: that next and prev are inverse and the counter counts are
facts about neighbours; that the back is a node whenever `len > 0` is not, since
two separate rings have those facts too. `OneRing` adds the global one without
induction over data: some enumeration `s` of the owned nodes, injective on
`0 .. len` with `s[0] = Root`, follows `next`. `Sound` is all of it together, and
the lemmas give for `Remove` and insert the enumeration they leave. The last part of
the module is about order: `Walk` is the one enumeration (two that differ would
differ at a smallest place, by the well-foundedness of `<`), and `UnlinkNewer`,
`PushFrontNewer` and `BackIsOldest` say what is in front of an element after each step.

**LruCacheProofs**: `IInv` is `TypeOK`, `Sound`, every owned node allocated, the
map matching the list, and size within the capacity. `MapMatchesList` alone is
not inductive: with a broken ring the back of the list could be nil while its
counter is at capacity, and `Purged` would drop no key. From it follow type
correctness, `ListIntact`, `MapMatchesList`, `SizeBounded`, and for capacity other
than 0 (what `Config.Validate` lets through) the absence of the nil dereference and
the refinements of `BoundedCache` and `LruOrder`. For the latter the keys in front
of a node follow each method's unlinking and pushing (`EvictedNewer`), and the back of a full
list is the one oldest key (`OldestIsBack`). `FlushLoopEmpties` follows the loop: after `i` turns
the list is sound and owns the nodes from place `i + 1` of the order on, so
each is removed and the last leaves the fresh list's sentinel. The assumptions are that pointers and replies are
distinct and that the capacity is a natural number. For capacity 0, which
`NewLRUCache` accepts and `Config.Validate` keeps out, the first Set would panic; no run has it.

**LruListThreadsProofs**: the same `Sound` for any number of goroutines. An insertion
is safe whenever `CanInsert` holds, so the position read too early costs an element,
never a link. `IInv` adds where a goroutine may carry a node (`HandsMatchSteps`);
without it a node might be inserted from two hands.

**OrderServiceProofs**: `IInv` joins where every goroutine is (`WellPlaced`,
`OneCallInRepo`), what the breaker counts (`ProbesCounted`: while half-open,
requests = successes + calls under way; `CurrentIsUnderWay`) and what cache and
database agree on. `HalfOpenNotStuck` needs `ProbesCounted`, and that needs
`CurrentIsUnderWay`: a call counted twice would break the equation. All safety
properties of the run are theorems, `OnlyReadsTrip` included. The refinement of
`AtomicService` needs `MissStands` besides: an order that missed the cache is not
cached by anybody else while its reader waits for the database, because only the
holder of the mutex fills the cache. Without it the moment of a miss
could not be the moment of its answer.

**OrderRepoProofs**: `IInv` says how far a transaction has come. `SaveProgress` gives
for each statement behind `at` the row it has left in `work`; `OrdersOfWork` that `work` differs
from what is committed in the one order being saved; `WorkGrows` that no statement
changes or removes a row; `IdsAreFresh` that a new delivery replaces none. Commit
turns these into `StoredWhole` and `CommittedRowsStay`, and the refinement of `OrderStore`
maps every statement to a stutter. `RowsKept` says that every row is under the key its message gives it, an order's from a
valid message, a payment's and an item's with numbers that fit their columns. For an order
that names nobody else's rows these are its own (`OwnRows`), and then the
sums agree (`TotalsAgree`): what `Validate` added up in a word is a sum of numbers
that fit columns, so it has not wrapped (`WrapIsExact`); and the database's sum over
chrt_ids is the code's sum over the list of items, whose chrt_ids differ. The assumptions
are that a word holds the sum of three columns (`WordsHoldColumns`: 63 bits against
31) and of as many columns as an order has items (`AmountsAreInts`: a fetch of at
most 10e6 bytes, `consumer.go:74`, holds fewer than 2^24 of them).

**ConsumerProofs**: the at-least-once argument is that a commit is the offset
after its loop's message; what its reader handed out up to there is handled, for one loop
takes one message at a time (`OneAtATime`) and forgets none (`NothingDropped`); and
what lies before the reader's first offset was handled before it joined
(`CommitsCovered`). `NothingDropped` holds in every state, the other two while no
loop has outlived its Stop, which the history variable `overlapped` records.
`BreakerCounts` carries `FetchBreakerNotStuck`, for any number of loops.

**HttpServerProofs**: `Sound` of one request. A request that has expired is not
writable, so unless its client has closed its half only the select's branch that has seen the handler end
delivers; and only a handler that outlived its request writes into another's body.
The assumption is that `write_timeout` is positive and not the longer of the two.

**Only model-checked**: the liveness properties `CallsReturn`, `MessagesAreHandled` and
`RequestsReturn`; fairness is out of the prover's reach.

## 6. Where the code departs from its comments

1. `order_service_accepted`: `Manager.Set` drops `SaveOrder`'s error
   (`manager.go:53`), so an order "saved to database/cache"
   (`order_service.go:45`) may be in neither after a restart, its offset committed.
2. `order_service_database`: `OrderRepo.GetOrder` passes no argument for `$1`
   (`repo.go:219`); "from cache, if it's not there - from database"
   (`manager.go:59`) never comes true, and five misses open the breaker.
3. `order_service_complete`: `WarmCache` loads header rows (`repo.go:360`), which
   are then served as orders without delivery, payment and items.
4. `consumer_two_loops`: Start after Stop can leave two loops on one reader
   (`consumer.go:106`), although a second Start is refused.

Met while modelling, without a run of their own:

* A redelivered order with other items adds those items to the stored order, and each
  save of an order already stored adds a delivery row that nothing refers to:
  `ON CONFLICT (id)` never conflicts on a serial key.
* An order nobody has sent is answered with 500, not 404: `isNotFoundError`
  (`handlers.go:101`) matches no error that `GetOrder` returns, and `ErrOrderNotFound`
  is returned nowhere.
* A client that closes its half of the connection and listens gets an empty 200, also for an
  order that is not there: `timeoutMiddleware` takes the cancelled context for a client
  that has left (`server.go:118`) and writes nothing.
* `recoveryMiddleware` is not on the stack of the goroutine that
  `timeoutMiddleware` starts, so it recovers from no handler's panic.
* `Statistics` counts `messages_by_topic` by reason (`dead_letter_queue.go:162`).
* The select at `main.go:94` has no default: the signal handling behind it is never
  reached. Main opens two connection pools (`main.go:41` and `main.go:46`).
* `loadEnv` returns before it reads the environment when `deployments/.env` is
  missing (`config.go:86`).

## 7. What is not modelled

* Logging, formatting, the web page, the containers and the file server: no property
  is about them.
* The configuration: loading and validating it has no state that lasts; its values
  are the modules' constants.
* The producer is reduced to publishing.
* The read side of the dead letter queue (Get, Retry, Clear, GetByReason,
  Statistics) has no caller, and no state but the map that Send fills. The queue has
  no bound, and a crash empties it; no property promises otherwise.
* The shutdown code of main, which cannot be reached; a signal ends the process,
  which is the `Restart` or `Crash` of the models.
* Several partitions, rebalancing between processes and the broker's retention are
  outside the repository; one process owns the partition.
* `OrderService` keeps an order's version and whether it is whole, not its rows: they
  are `OrderRepo`'s, and the two meet in the outcomes of `OrderStore`.

## 8. Plan

1. `OrderSystem`: Consumer composed with OrderService, so that a replayed message,
   a refused order and a restart meet: what the cache answers after a replay.
2. `DeadLetterQueue`: all operations, once something in the program reads the queue.
3. `OrderSystem` proved to be the consumer over an `AtomicService`, so that its
   properties follow from that specification alone.
