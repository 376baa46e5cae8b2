------------------------------ MODULE Consumer ------------------------------
(***************************************************************************)
(* internal/kafka.Consumer with its in-memory dead letter queue, over one  *)
(* partition.  Start makes a reader and a goroutine that loops: look at    *)
(* running and reader under the lock, fetch through the breaker, process,  *)
(* bury what failed, commit.  Stop closes the reader and never waits for   *)
(* the loop, which looks again only when it has finished with its message. *)
(*                                                                         *)
(* kafka-go's reader and the broker are external: a reader hands out the   *)
(* log in order from the offset where it joined, any fetch or commit may   *)
(* fail, and ProcessOrder succeeds or not (OrderService says when).        *)
(* Offsets are counted from 1.                                             *)
(***************************************************************************)
EXTENDS Naturals, Sequences, FiniteSets

CONSTANTS
  MaxLog,      \* bound: messages published
  MaxStarts,   \* bound: calls of Start that succeed in one run of the process
  MaxCrashes,  \* bound: crashes
  MaxRequests, MaxFailers, \* circuit_breaker of the configuration
  TimeoutSet,  \* whether it sets a timeout, which is the breaker's Interval too
  Faults       \* why processMessage buries a message: malformed JSON, not valid

ASSUME BoundsAreNat ==
  MaxLog \in Nat /\ MaxStarts \in Nat \ {0} /\ MaxCrashes \in Nat
ASSUME FaultsAreFaults == {"valid", "processing_error"} \cap Faults = {}
ASSUME BreakerSettings ==
  MaxRequests \in Nat \ {0} /\ MaxFailers \in Nat /\ TimeoutSet \in BOOLEAN

Starts  == 1 .. MaxStarts  \* each Start makes one reader and one loop
Offsets == 1 .. MaxLog
None    == 0

INSTANCE Breaker WITH Callers <- Starts, TripAt <- MaxFailers

VARIABLES
  log,         \* what the producers published: the kind of every message
  committed,   \* the group's committed offset: the next to read; None at first
  grouped,     \* whether GroupID is set
  running, reader, breaker,  \* the consumer
  cancelled,   \* the Starts whose context is done
  starts,      \* readers and loops made in this run of the process
  readers,     \* for every reader: open, and where it joined and reads next
  loop,        \* for every loop: pc, its reader, its message
  dlq,         \* the messages of the dead letter queue, in order of their ids
  crashes,     \* counts towards MaxCrashes
  handled,     \* history: offsets accepted by ProcessOrder or ever buried
  base,        \* history: where the reader that committed first had joined
  overlapped   \* history: two loops were alive at once

vars == <<log, committed, grouped, running, reader, breaker, cancelled, starts,
          readers, loop, dlq, crashes, handled, base, overlapped>>

\* A message is valid or has a fault, which names the reason it is buried for.
Kinds   == Faults \cup {"valid"}
Reasons == Faults \cup {"processing_error"}

Letters == [offset : Offsets, reason : Reasons]

Readers == [open : BOOLEAN, from : 0 .. MaxLog + 1, next : 0 .. MaxLog + 1]

Loops ==
  [pc : {"none", "top", "execute", "fetching", "process", "bury", "commit", "done"},
   reader : Starts \cup {None}, message : Offsets \cup {None}]

TypeOK ==
  /\ log \in Seq(Kinds) /\ Len(log) <= MaxLog
  /\ committed \in 0 .. MaxLog + 1 /\ base \in 0 .. MaxLog + 1
  /\ grouped \in BOOLEAN /\ running \in BOOLEAN
  /\ cancelled \subseteq Starts /\ overlapped \in BOOLEAN
  /\ reader \in Starts \cup {None} /\ starts \in 0 .. MaxStarts
  /\ breaker \in Breakers
  /\ readers \in [Starts -> Readers]
  /\ loop \in [Starts -> Loops]
  /\ dlq \in Seq(Letters)
  /\ crashes \in 0 .. MaxCrashes
  /\ handled \subseteq Offsets

Alive(l) == loop[l].pc \notin {"none", "done"}

Unborn == [pc |-> "none", reader |-> None, message |-> None]
Unmade == [open |-> FALSE, from |-> None, next |-> None]

\* A process that has not called Start yet.
Fresh ==
  [running |-> FALSE, reader |-> None, breaker |-> Generation("closed"),
   readers |-> [s \in Starts |-> Unmade], loop |-> [s \in Starts |-> Unborn]]

Init ==
  /\ log = <<>> /\ committed = None /\ base = None
  /\ grouped \in BOOLEAN
  /\ running = Fresh.running /\ reader = Fresh.reader /\ breaker = Fresh.breaker
  /\ readers = Fresh.readers /\ loop = Fresh.loop
  /\ cancelled = {} /\ starts = 0 /\ dlq = <<>> /\ crashes = 0
  /\ handled = {} /\ overlapped = FALSE

-----------------------------------------------------------------------------
\* The world outside the consumer.

Publish(k) ==
  /\ Len(log) < MaxLog
  /\ log' = Append(log, k)
  /\ UNCHANGED <<committed, grouped, running, reader, breaker, cancelled, starts,
                 readers, loop, dlq, crashes, handled, base, overlapped>>

\* Wrong variant, for mutation: StartOffset FirstOffset, and no committed offset.
JoinAtFirst == 1

\* A reader joins: with a group at the committed offset, or at the end of the log
\* if there is none (StartOffset is LastOffset); without one at the first offset.
JoinOffset ==
  CASE ~grouped -> 1
    [] grouped /\ committed # None -> committed
    [] OTHER -> Len(log) + 1

Join(s) ==
  /\ readers[s].open /\ readers[s].next = None
  /\ readers' = [readers EXCEPT ![s].from = JoinOffset, ![s].next = JoinOffset]
  /\ UNCHANGED <<log, committed, grouped, running, reader, breaker, cancelled,
                 starts, loop, dlq, crashes, handled, base, overlapped>>

\* A crash loses all but the log and the offsets.  History is kept.
Crash ==
  /\ crashes < MaxCrashes
  /\ crashes' = crashes + 1
  /\ running' = Fresh.running /\ reader' = Fresh.reader /\ breaker' = Fresh.breaker
  /\ readers' = Fresh.readers /\ loop' = Fresh.loop
  /\ cancelled' = {} /\ starts' = 0 /\ dlq' = <<>>
  /\ UNCHANGED <<log, committed, grouped, handled, base, overlapped>>

\* A caller cancels the context it gave Start.
Cancel(s) ==
  /\ s <= starts /\ s \notin cancelled
  /\ cancelled' = cancelled \cup {s}
  /\ UNCHANGED <<log, committed, grouped, running, reader, breaker, starts,
                 readers, loop, dlq, crashes, handled, base, overlapped>>

\* The breaker's Timeout passes (the library's default if none is set), or its Interval.
BreakerClock ==
  /\ CanExpire(breaker, TimeoutSet)
  /\ breaker' = Expired(breaker)
  /\ UNCHANGED <<log, committed, grouped, running, reader, cancelled, starts,
                 readers, loop, dlq, crashes, handled, base, overlapped>>

-----------------------------------------------------------------------------
\* Start and Stop, each under the write lock.  A refused call changes nothing.
Start ==
  /\ ~running /\ starts < MaxStarts
  /\ starts' = starts + 1
  /\ reader' = starts + 1
  /\ readers' = [readers EXCEPT ![starts + 1].open = TRUE]
  /\ loop' = [loop EXCEPT ![starts + 1].pc = "top"]
  /\ running' = TRUE
  /\ overlapped' = (overlapped \/ \E l \in Starts : Alive(l))
  /\ UNCHANGED <<log, committed, grouped, breaker, cancelled, dlq, crashes, handled, base>>

\* The error path of Close would leave the reader set; kafka-go v0.4.48 never takes it.
Stop ==
  /\ running
  /\ running' = FALSE
  /\ \E failed \in BOOLEAN : reader' = IF failed THEN reader ELSE None
  /\ readers' = [readers EXCEPT ![reader].open = FALSE]
  /\ UNCHANGED <<log, committed, grouped, breaker, cancelled, starts, loop, dlq,
                 crashes, handled, base, overlapped>>

-----------------------------------------------------------------------------
\* The loop.
Goes(l, pc) == loop' = [loop EXCEPT ![l].pc = pc]

\* The next iteration, or the end of the goroutine: its locals are gone.
Again(l) == loop' = [loop EXCEPT ![l] = [Unborn EXCEPT !.pc = "top"]]
Ends(l)  == loop' = [loop EXCEPT ![l] = [Unborn EXCEPT !.pc = "done"]]

\* Wrong variant, for mutation: a failed fetch always breaks the loop.
FetchErrorBreaks(l) == Ends(l)

\* A failed Execute ends the loop if the context is done, and is retried at once
\* otherwise: the retry.Do between the two attempts does nothing.
FetchError(l) == IF l \in cancelled THEN Ends(l) ELSE Again(l)

Top(l) ==
  /\ loop[l].pc = "top"
  /\ IF running /\ reader # None
     THEN loop' = [loop EXCEPT ![l].pc = "execute", ![l].reader = reader]
     ELSE Ends(l)
  /\ UNCHANGED <<log, committed, grouped, running, reader, breaker, cancelled,
                 starts, readers, dlq, crashes, handled, base, overlapped>>

Execute(l) ==
  /\ loop[l].pc = "execute"
  /\ IF Admits(breaker)
     THEN breaker' = Admitted(breaker, l) /\ Goes(l, "fetching")
     ELSE FetchError(l) /\ UNCHANGED breaker
  /\ UNCHANGED <<log, committed, grouped, running, reader, cancelled, starts,
                 readers, dlq, crashes, handled, base, overlapped>>

\* Wrong variant, for mutation: admission and report apart, and only failures
\* reported.
FetchedUnreported(l) ==
  LET s == loop[l].reader IN
  /\ loop[l].pc = "fetching"
  /\ readers[s].next \in 1 .. Len(log)
  /\ readers' = [readers EXCEPT ![s].next = @ + 1]
  /\ loop' = [loop EXCEPT ![l].pc = "process", ![l].message = readers[s].next]
  /\ UNCHANGED <<log, committed, grouped, running, reader, breaker, cancelled,
                 starts, dlq, crashes, handled, base, overlapped>>

\* A closed reader may still hand out what it has buffered.
Fetched(l) ==
  LET s == loop[l].reader IN
  /\ loop[l].pc = "fetching"
  /\ readers[s].next \in 1 .. Len(log)
  /\ readers' = [readers EXCEPT ![s].next = @ + 1]
  /\ loop' = [loop EXCEPT ![l].pc = "process", ![l].message = readers[s].next]
  /\ breaker' = Recorded(breaker, l, TRUE)
  /\ UNCHANGED <<log, committed, grouped, running, reader, cancelled, starts, dlq,
                 crashes, handled, base, overlapped>>

\* Thirty seconds without a message, a closed reader, a broker that fails.
FetchFails(l) ==
  /\ loop[l].pc = "fetching"
  /\ breaker' = Recorded(breaker, l, FALSE)
  /\ FetchError(l)
  /\ UNCHANGED <<log, committed, grouped, running, reader, cancelled, starts,
                 readers, dlq, crashes, handled, base, overlapped>>

\* Wrong variant, for mutation: the partition, 0 here, passed where the offset goes.
SendPartition(o, reason) ==
  /\ dlq' = Append(dlq, [offset |-> 0, reason |-> reason])
  /\ handled' = handled \cup {o}

Send(o, reason) ==
  /\ dlq' = Append(dlq, [offset |-> o, reason |-> reason])
  /\ handled' = handled \cup {o}

\* Wrong variant, for mutation: a message with a fault skipped with `continue`.
ProcessSkipsFaults(l) ==
  LET o == loop[l].message IN
  /\ loop[l].pc = "process"
  /\ \/ log[o] \in Faults /\ UNCHANGED <<handled, dlq>> /\ Again(l)
     \/ log[o] = "valid" /\ handled' = handled \cup {o} /\ UNCHANGED dlq
                         /\ Goes(l, "commit")
     \/ log[o] = "valid" /\ UNCHANGED <<handled, dlq>> /\ Goes(l, "bury")
  /\ UNCHANGED <<log, committed, grouped, running, reader, breaker, cancelled,
                 starts, readers, crashes, base, overlapped>>

\* processMessage: what cannot be parsed or is not valid is buried here, and once
\* more by the caller; ProcessOrder may refuse the rest.
Process(l) ==
  LET o == loop[l].message IN
  /\ loop[l].pc = "process"
  /\ \/ log[o] \in Faults /\ Send(o, log[o]) /\ Goes(l, "bury")
     \/ log[o] = "valid" /\ handled' = handled \cup {o} /\ UNCHANGED dlq
                         /\ Goes(l, "commit")
     \/ log[o] = "valid" /\ UNCHANGED <<handled, dlq>> /\ Goes(l, "bury")
  /\ UNCHANGED <<log, committed, grouped, running, reader, breaker, cancelled,
                 starts, readers, crashes, base, overlapped>>

\* Wrong variant, for mutation: an order ProcessOrder refused is only logged.
BuryNothing(l) ==
  /\ loop[l].pc = "bury"
  /\ Goes(l, "commit")
  /\ UNCHANGED <<log, committed, grouped, running, reader, breaker, cancelled,
                 starts, readers, dlq, crashes, handled, base, overlapped>>

Bury(l) ==
  /\ loop[l].pc = "bury"
  /\ Send(loop[l].message, "processing_error")
  /\ Goes(l, "commit")
  /\ UNCHANGED <<log, committed, grouped, running, reader, breaker, cancelled,
                 starts, readers, crashes, base, overlapped>>

\* Five failed attempts are logged and the loop goes on: the offset of a later
\* message covers this one.  A closed reader and a cancelled context only fail.
CommitSucceeds(l) ==
  LET s == loop[l].reader IN
  /\ loop[l].pc = "commit" /\ grouped
  /\ readers[s].open /\ l \notin cancelled
  /\ committed' = loop[l].message + 1
  /\ base' = IF committed = None THEN readers[s].from ELSE base
  /\ Again(l)
  /\ UNCHANGED <<log, grouped, running, reader, breaker, cancelled, starts,
                 readers, dlq, crashes, handled, overlapped>>

CommitSkipped(l) ==
  /\ loop[l].pc = "commit"
  /\ Again(l)
  /\ UNCHANGED <<log, committed, grouped, running, reader, breaker, cancelled,
                 starts, readers, dlq, crashes, handled, base, overlapped>>

LoopStep(l) ==
  \/ Top(l) \/ Execute(l) \/ Fetched(l) \/ FetchFails(l)
  \/ Process(l) \/ Bury(l) \/ CommitSucceeds(l) \/ CommitSkipped(l)

Next ==
  \/ \E k \in Kinds : Publish(k)
  \/ \E s \in Starts : Join(s) \/ Cancel(s)
  \/ \E l \in Starts : LoopStep(l)
  \/ Start \/ Stop \/ Crash \/ BreakerClock

Spec == Init /\ [][Next]_vars

\* The loops and the clock run; a reader joins; a broker that has a message
\* delivers it to a fetch sooner or later; main calls Start.  Publishing, Stop,
\* Cancel and crashes need not happen, and no commit need succeed.
Fairness ==
  /\ WF_vars(Start) /\ WF_vars(BreakerClock)
  /\ \A s \in Starts : WF_vars(Join(s))
  /\ \A l \in Starts : WF_vars(LoopStep(l)) /\ SF_vars(Fetched(l))

LiveSpec == Spec /\ Fairness

-----------------------------------------------------------------------------
\* At least once: from where the group first committed on, no offset is committed
\* whose message was neither accepted nor buried, across crashes, failed commits
\* and restarts of the reader, as long as one loop runs at a time.
CommittedIsHandled ==
  ~overlapped => \A o \in Offsets : base <= o /\ o < committed => o \in handled

\* Within one run of the process no message a reader handed out is forgotten: a
\* loop still holds it, or it was accepted or buried.
NothingDropped ==
  \A s \in Starts : \A o \in Offsets :
    readers[s].from <= o /\ o < readers[s].next =>
      o \in handled \/ \E l \in Starts : loop[l].message = o
                                         /\ loop[l].pc \in {"process", "bury"}

\* A message with a fault is buried once for the fault and once more, later, as a
\* processing_error, unless its loop is between the two: nobody who reads the queue
\* by reason misses it under processing_error, and the total counts it twice.
FaultsBuriedTwice ==
  \A i \in DOMAIN dlq : dlq[i].reason # "processing_error" =>
    \/ \E j \in DOMAIN dlq : j > i /\ dlq[j] = [dlq[i] EXCEPT !.reason = "processing_error"]
    \/ \E l \in Starts : loop[l].pc = "bury" /\ loop[l].message = dlq[i].offset

\* The committed offset never moves backwards while one loop runs at a time.
CommittedMonotonic == [][~overlapped => committed' >= committed]_vars

\* A consumer that says it runs has the loop its last Start made, unless the context
\* of that Start was cancelled: only then can it refuse Start and consume nothing.
RunningHasLoop == running /\ starts \notin cancelled => Alive(starts)

\* The loop's breaker never wedges: half-open with its quota used up, some loop is
\* inside the fetch that will settle it.
FetchBreakerNotStuck ==
  breaker.state = "half-open" /\ ~Admits(breaker) =>
    \E l \in breaker.current : loop[l].pc = "fetching"

\* A running consumer gets to every message from where it joined on, however often
\* fetches fail and the breaker opens, unless it is stopped, cancelled or crashes.
MessagesAreHandled ==
  \A o \in Offsets :
    (\E s \in Starts : reader = s /\ readers[s].next # None
                       /\ readers[s].from <= o /\ o <= Len(log))
      ~> (o \in handled \/ ~running \/ cancelled # {})

-----------------------------------------------------------------------------
\* consumer.go:59 refuses a second Start with "consumer is already running": one
\* consumer has one loop.
OneLoop == \A l, m \in Starts : Alive(l) /\ Alive(m) => l = m
=============================================================================
