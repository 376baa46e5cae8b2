--------------------------- MODULE ConsumerProofs ---------------------------
(***************************************************************************)
(* The consumer for any number of messages, Starts and crashes, any faults *)
(* and any breaker settings.                                               *)
(*                                                                         *)
(* Places says where loops and readers are whatever they do, two loops at  *)
(* once included; OneAtATime what is known of the one loop there is as     *)
(* long as no two have met; CommitsCovered what a reader may skip because  *)
(* another reader's commits cover it.  The last two carry                  *)
(* CommittedIsHandled: a commit is the offset after the loop's message,    *)
(* that is all the reader has handed out (OneAtATime), all of which was    *)
(* handled (NothingDropped), and what lies before the reader's first       *)
(* offset was handled before it joined (CommitsCovered).                   *)
(***************************************************************************)
EXTENDS Consumer, FiniteSetTheorems, TLAPS

Fetching == {l \in Starts : loop[l].pc = "fetching"}
Holding  == {"process", "bury", "commit"}
Reading  == {"execute", "fetching"} \cup Holding

LoopPlaces ==
  \A l \in Starts :
    /\ loop[l].pc \in Reading => loop[l].reader \in Starts
    /\ loop[l].pc \in Holding => loop[l].message \in 1 .. Len(log)
    /\ l > starts => loop[l] = Unborn

ReaderPlaces ==
  \A s \in Starts :
    /\ readers[s].from <= readers[s].next /\ readers[s].next <= Len(log) + 1
    /\ readers[s].next = None => readers[s].from = None
    /\ readers[s].open => running /\ s = starts
    /\ s > starts => readers[s].next = None

GroupPlaces ==
  /\ running => starts # 0 /\ reader = starts
  /\ reader \in {None, starts}
  /\ committed <= Len(log) + 1
  /\ committed # None => grouped

Places == LoopPlaces /\ ReaderPlaces /\ GroupPlaces

BreakerCounts ==
  /\ IsFiniteSet(breaker.current) /\ breaker.current \subseteq Fetching
  /\ ProbesCounted(breaker)

OneAtATime ==
  ~overlapped => \A l \in Starts : Alive(l) =>
    /\ l = starts /\ loop[l].reader \in {None, starts}
    /\ loop[l].pc \in Holding => /\ readers[l].from <= loop[l].message
                                 /\ loop[l].message + 1 = readers[l].next

CommitsCovered ==
  ~overlapped /\ committed # None =>
    \A s \in Starts : s = starts /\ readers[s].next # None =>
      /\ committed <= readers[s].next
      /\ \A o \in Offsets : base <= o /\ o < readers[s].from => o \in handled

IInv ==
  /\ TypeOK /\ Places /\ BreakerCounts
  /\ NothingDropped /\ FaultsBuriedTwice /\ RunningHasLoop
  /\ OneAtATime /\ CommitsCovered /\ CommittedIsHandled
-----------------------------------------------------------------------------
\* The breaker's operators, for any number of loops.
LEMMA NewGeneration ==
  ASSUME NEW s \in States
  PROVE  /\ Generation(s) \in Breakers /\ Generation(s).current = {}
         /\ Generation(s).state = s
         /\ IsFiniteSet(Generation(s).current) /\ ProbesCounted(Generation(s))
<1>1. MaxRequests \in Nat /\ MaxRequests # 0
  BY BreakerSettings
<1>2. Cardinality({}) = 0 /\ IsFiniteSet({})
  BY FS_EmptySet
<1>3. Generation(s) \in Breakers
  BY <1>1 DEF Generation, Breakers
<1> QED BY <1>1, <1>2, <1>3 DEF Generation, ProbesCounted

\* Admission of a call that is not under way is counted once.
LEMMA AdmittedCounts ==
  ASSUME NEW b \in Breakers, NEW c \in Starts, c \notin b.current,
         IsFiniteSet(b.current), ProbesCounted(b), Admits(b)
  PROVE  /\ Admitted(b, c) \in Breakers
         /\ Admitted(b, c).current = b.current \cup {c}
         /\ Admitted(b, c).state = b.state
         /\ IsFiniteSet(Admitted(b, c).current)
         /\ ProbesCounted(Admitted(b, c))
<1> DEFINE a == Admitted(b, c)
<1>1. /\ b.requests \in 0 .. MaxRequests /\ b.successes \in 0 .. MaxRequests
      /\ b.state \in States /\ MaxRequests \in Nat
  BY BreakerSettings DEF Breakers
<1>2. /\ a.current = b.current \cup {c} /\ a.state = b.state
      /\ a.successes = b.successes
      /\ a.requests = IF b.state = "half-open" THEN b.requests + 1 ELSE b.requests
  BY DEF Admitted, Breakers
<1>3. IsFiniteSet(a.current) /\ Cardinality(a.current) = Cardinality(b.current) + 1
  BY <1>2, FS_AddElement
<1>4. a.requests \in 0 .. MaxRequests
  BY <1>1, <1>2 DEF Admits
<1>5. a \in Breakers
  <2>1. a = [b EXCEPT !.current = a.current, !.requests = a.requests]
    BY DEF Admitted, Breakers
  <2> QED BY <2>1, <1>2, <1>4 DEF Breakers
<1>6. ProbesCounted(a)
  <2>1. Cardinality(b.current) \in Nat
    BY FS_CardinalityType
  <2> QED BY <1>1, <1>2, <1>3, <2>1 DEF ProbesCounted
<1> QED BY <1>2, <1>3, <1>5, <1>6

\* An outcome retires its call, or starts a generation without calls.
LEMMA RecordedCounts ==
  ASSUME NEW b \in Breakers, NEW c \in Starts, NEW ok \in BOOLEAN,
         IsFiniteSet(b.current), ProbesCounted(b)
  PROVE  /\ Recorded(b, c, ok) \in Breakers
         /\ Recorded(b, c, ok).current \subseteq b.current \ {c}
         /\ IsFiniteSet(Recorded(b, c, ok).current)
         /\ ProbesCounted(Recorded(b, c, ok))
         /\ ok /\ b.state = "closed" => Recorded(b, c, ok).state = "closed"
<1> DEFINE a == Recorded(b, c, ok)
<1>1. /\ b.requests \in 0 .. MaxRequests /\ b.successes \in 0 .. MaxRequests
      /\ b.state \in States /\ b.failures \in Nat /\ b.current \subseteq Starts
      /\ MaxRequests \in Nat
  BY BreakerSettings DEF Breakers
<1>2. CASE c \notin b.current
  BY <1>2 DEF Recorded
<1>3. CASE c \in b.current /\ ok
  <2>1. a = Succeeded(b, c)
    BY <1>3 DEF Recorded
  <2>2. CASE b.state = "half-open" /\ b.successes + 1 >= MaxRequests
    <3>1. a = Generation("closed") /\ "closed" \in States
      BY <2>1, <2>2 DEF Succeeded, States
    <3> QED BY <3>1, NewGeneration
  <2>3. CASE ~(b.state = "half-open" /\ b.successes + 1 >= MaxRequests)
    <3>1. a = [b EXCEPT !.current = b.current \ {c}, !.failures = 0,
                        !.successes = IF b.state = "half-open" THEN b.successes + 1
                                      ELSE b.successes]
      BY <2>1, <2>3 DEF Succeeded
    <3>2. /\ a.current = b.current \ {c} /\ a.state = b.state /\ a.requests = b.requests
          /\ a.successes = IF b.state = "half-open" THEN b.successes + 1 ELSE b.successes
      BY <3>1 DEF Breakers
    <3>3. IsFiniteSet(a.current) /\ Cardinality(a.current) = Cardinality(b.current) - 1
      BY <1>3, <3>2, FS_RemoveElement
    <3>4. Cardinality(b.current) \in Nat
      BY FS_CardinalityType
    <3>5. a.successes \in 0 .. MaxRequests
      BY <1>1, <2>3, <3>2
    <3>6. a \in Breakers
      <4>1. b.current \ {c} \in SUBSET Starts /\ 0 \in Nat
        BY <1>1
      <4>2. (IF b.state = "half-open" THEN b.successes + 1 ELSE b.successes)
              \in 0 .. MaxRequests
        BY <3>2, <3>5
      <4> QED BY <3>1, <4>1, <4>2 DEF Breakers
    <3>7. ProbesCounted(a)
      BY <1>1, <2>3, <3>2, <3>3, <3>4 DEF ProbesCounted
    <3> QED BY <3>2, <3>3, <3>6, <3>7
  <2> QED BY <2>2, <2>3
<1>4. CASE c \in b.current /\ ~ok
  <2>1. a = Failed(b, c)
    BY <1>4 DEF Recorded
  <2>2. CASE b.state = "half-open" \/ b.failures + 1 >= MaxFailers
    <3>1. a = Generation("open") /\ "open" \in States
      BY <2>1, <2>2 DEF Failed, States
    <3> QED BY <3>1, <1>4, NewGeneration
  <2>3. CASE ~(b.state = "half-open" \/ b.failures + 1 >= MaxFailers)
    <3>1. a = [b EXCEPT !.current = b.current \ {c}, !.failures = b.failures + 1]
      BY <2>1, <2>3 DEF Failed
    <3>2. a.current = b.current \ {c} /\ a.state = b.state
      BY <3>1 DEF Breakers
    <3>3. IsFiniteSet(a.current)
      BY <3>2, FS_RemoveElement
    <3>4. a \in Breakers
      <4>1. b.current \ {c} \in SUBSET Starts /\ b.failures + 1 \in Nat
        BY <1>1
      <4> QED BY <3>1, <4>1 DEF Breakers
    <3>5. ProbesCounted(a)
      BY <2>3, <3>2 DEF ProbesCounted
    <3> QED BY <1>4, <3>2, <3>3, <3>4, <3>5
  <2> QED BY <2>2, <2>3
<1> QED BY <1>2, <1>3, <1>4

\* A half-open breaker at its quota has a probe under way.
LEMMA QuotaMeansProbe ==
  ASSUME NEW b \in Breakers, IsFiniteSet(b.current), ProbesCounted(b),
         b.state = "half-open", ~Admits(b)
  PROVE  b.current # {}
<1>1. b.requests \in 0 .. MaxRequests /\ b.successes \in Nat /\ MaxRequests \in Nat
  BY BreakerSettings DEF Breakers
<1>2. b.requests = b.successes + Cardinality(b.current) /\ b.successes < MaxRequests
  BY DEF ProbesCounted
<1>3. b.requests = MaxRequests
  BY <1>1 DEF Admits
<1> QED BY <1>1, <1>2, <1>3, FS_EmptySet

-----------------------------------------------------------------------------
\* The types of what loops and readers hold, field by field.
LEMMA FieldTypes ==
  ASSUME TypeOK
  PROVE  /\ \A l \in Starts : /\ loop[l].reader \in Starts \cup {None}
                              /\ loop[l].message \in Offsets \cup {None}
         /\ \A s \in Starts : /\ readers[s].open \in BOOLEAN
                              /\ readers[s].from \in 0 .. MaxLog + 1
                              /\ readers[s].next \in 0 .. MaxLog + 1
         /\ Len(log) \in 0 .. MaxLog /\ starts \in 0 .. MaxStarts
         /\ MaxLog \in Nat /\ MaxStarts \in Nat
BY BoundsAreNat DEF TypeOK, Loops, Readers

LEMMA InitIInv == Init => IInv
<1> SUFFICES ASSUME Init PROVE IInv
  OBVIOUS
<1>1. /\ breaker \in Breakers /\ breaker.current = {} /\ IsFiniteSet(breaker.current)
      /\ ProbesCounted(breaker)
  BY NewGeneration DEF Init, Fresh, States
<1>2. log = <<>> /\ Len(log) = 0 /\ log \in Seq(Kinds) /\ dlq \in Seq(Letters)
  BY DEF Init
<1>3. \A l \in Starts : loop[l] = Unborn /\ readers[l] = Unmade
  BY DEF Init, Fresh
<1>4. TypeOK
  <2>1. Unborn \in Loops /\ Unmade \in Readers
    BY BoundsAreNat DEF Unborn, Unmade, Loops, Readers, None
  <2>2. loop \in [Starts -> Loops] /\ readers \in [Starts -> Readers]
    BY <2>1 DEF Init, Fresh
  <2>3. running = FALSE /\ reader = None
    BY DEF Init, Fresh
  <2>4. running \in BOOLEAN /\ reader \in Starts \cup {None} /\ grouped \in BOOLEAN
    BY <2>3 DEF Init
  <2>5. /\ Len(log) <= MaxLog /\ committed \in 0 .. MaxLog + 1 /\ base \in 0 .. MaxLog + 1
        /\ starts \in 0 .. MaxStarts /\ crashes \in 0 .. MaxCrashes
    BY <1>2, BoundsAreNat DEF Init, None
  <2>6. cancelled \subseteq Starts /\ overlapped \in BOOLEAN /\ handled \subseteq Offsets
    BY DEF Init
  <2> QED BY <1>1, <1>2, <2>2, <2>4, <2>5, <2>6 DEF TypeOK
<1>5. Places
  BY <1>2, <1>3
  DEF Init, Fresh, Places, LoopPlaces, ReaderPlaces, GroupPlaces, Unborn, Unmade,
      Reading, Holding, None
<1>6. BreakerCounts
  BY <1>1 DEF BreakerCounts
<1>7. NothingDropped /\ FaultsBuriedTwice /\ RunningHasLoop
  BY <1>2, <1>3, BoundsAreNat
  DEF Init, Fresh, NothingDropped, FaultsBuriedTwice, RunningHasLoop, Unmade, None, Offsets
<1>8. OneAtATime /\ CommitsCovered /\ CommittedIsHandled
  BY <1>3, BoundsAreNat
  DEF Init, OneAtATime, CommitsCovered, CommittedIsHandled, Alive, Unborn, None, Offsets
<1> QED BY <1>4, <1>5, <1>6, <1>7, <1>8 DEF IInv

LEMMA PublishKeepsIInv ==
  ASSUME IInv, NEW k \in Kinds, Publish(k) PROVE IInv'
<1>1. /\ UNCHANGED <<committed, grouped, running, reader, breaker, cancelled, starts,
                     readers, loop, dlq, crashes, handled, base, overlapped>>
      /\ log' = Append(log, k) /\ Len(log) < MaxLog
  BY DEF Publish
<1>2. log' \in Seq(Kinds) /\ Len(log') = Len(log) + 1 /\ Len(log) \in Nat
  BY <1>1 DEF IInv, TypeOK
<1>3. TypeOK'
  BY <1>1, <1>2, BoundsAreNat DEF IInv, TypeOK
<1>4. Places'
  <2>1. LoopPlaces'
    <3>1. 1 .. Len(log) \subseteq 1 .. Len(log')
      BY <1>2
    <3> QED BY <1>1, <3>1 DEF IInv, Places, LoopPlaces, Reading, Holding
  <2>2. ReaderPlaces'
    BY <1>1, <1>2, FieldTypes DEF IInv, Places, ReaderPlaces
  <2>3. GroupPlaces'
    BY <1>1, <1>2 DEF IInv, TypeOK, Places, GroupPlaces
  <2> QED BY <2>1, <2>2, <2>3 DEF Places
<1>5. BreakerCounts'
  BY <1>1 DEF IInv, BreakerCounts, Fetching
<1>6. NothingDropped' /\ FaultsBuriedTwice' /\ RunningHasLoop'
  BY <1>1 DEF IInv, NothingDropped, FaultsBuriedTwice, RunningHasLoop, Alive
<1>7. OneAtATime'
  BY <1>1 DEF IInv, OneAtATime, Alive, Holding
<1>8. CommitsCovered' /\ CommittedIsHandled'
  BY <1>1 DEF IInv, CommitsCovered, CommittedIsHandled
<1> QED BY <1>3, <1>4, <1>5, <1>6, <1>7, <1>8 DEF IInv

LEMMA JoinKeepsIInv ==
  ASSUME IInv, NEW s \in Starts, Join(s) PROVE IInv'
<1> DEFINE j == JoinOffset
<1>1. /\ UNCHANGED <<log, committed, grouped, running, reader, breaker, cancelled,
                     starts, loop, dlq, crashes, handled, base, overlapped>>
      /\ readers' = [readers EXCEPT ![s].from = j, ![s].next = j]
      /\ readers[s].open /\ readers[s].next = None
  BY DEF Join
<1>2. /\ j \in 1 .. Len(log) + 1
      /\ committed # None => j = committed
  BY FieldTypes DEF IInv, TypeOK, Places, GroupPlaces, JoinOffset, None
<1>3. /\ readers \in [Starts -> Readers]
      /\ readers'[s] = [open |-> TRUE, from |-> j, next |-> j]
      /\ \A r \in Starts : r # s => readers'[r] = readers[r]
  BY <1>1 DEF IInv, TypeOK, Readers
<1>4. s = starts /\ running
  BY <1>1 DEF IInv, Places, ReaderPlaces
<1>5. TypeOK'
  <2>1. readers'[s] \in Readers
    BY <1>2, <1>3, FieldTypes DEF IInv, Readers
  <2>2. readers' \in [Starts -> Readers]
    BY <1>1, <1>3, <2>1
  <2> QED BY <1>1, <2>2 DEF IInv, TypeOK
<1>6. Places'
  <2>1. LoopPlaces' /\ GroupPlaces'
    BY <1>1 DEF IInv, Places, LoopPlaces, GroupPlaces
  <2>2. ReaderPlaces'
    BY <1>1, <1>2, <1>3, <1>4, FieldTypes DEF IInv, Places, ReaderPlaces, None
  <2> QED BY <2>1, <2>2 DEF Places
<1>7. BreakerCounts'
  BY <1>1 DEF IInv, BreakerCounts, Fetching
<1>8. NothingDropped'
  BY <1>1, <1>2, <1>3 DEF IInv, NothingDropped, Offsets
<1>9. FaultsBuriedTwice' /\ RunningHasLoop' /\ CommittedIsHandled'
  BY <1>1 DEF IInv, FaultsBuriedTwice, RunningHasLoop, CommittedIsHandled, Alive
<1>10. OneAtATime'
  <2> SUFFICES ASSUME ~overlapped, NEW l \in Starts, Alive(l)
               PROVE  /\ l = starts /\ loop[l].reader \in {None, starts}
                      /\ loop[l].pc \in Holding =>
                           /\ readers'[l].from <= loop[l].message
                           /\ loop[l].message + 1 = readers'[l].next
    BY <1>1 DEF OneAtATime, Alive
  <2>1. l = s /\ loop[l].reader \in {None, starts}
    BY <1>4 DEF IInv, OneAtATime
  <2>2. loop[l].pc \notin Holding
    BY <1>1, <2>1, FieldTypes
    DEF IInv, OneAtATime, Places, LoopPlaces, None
  <2> QED BY <1>4, <2>1, <2>2
<1>11. CommitsCovered'
  BY <1>1, <1>2, <1>3, FieldTypes
  DEF IInv, TypeOK, CommitsCovered, CommittedIsHandled, Offsets
<1> QED BY <1>5, <1>6, <1>7, <1>8, <1>9, <1>10, <1>11 DEF IInv

LEMMA CancelKeepsIInv ==
  ASSUME IInv, NEW s \in Starts, Cancel(s) PROVE IInv'
<1>1. /\ UNCHANGED <<log, committed, grouped, running, reader, breaker, starts,
                     readers, loop, dlq, crashes, handled, base, overlapped>>
      /\ cancelled' = cancelled \cup {s}
  BY DEF Cancel
<1>2. TypeOK'
  BY <1>1 DEF IInv, TypeOK
<1>3. LoopPlaces' /\ ReaderPlaces' /\ GroupPlaces'
  BY <1>1 DEF IInv, Places, LoopPlaces, ReaderPlaces, GroupPlaces
<1>4. BreakerCounts'
  BY <1>1 DEF IInv, BreakerCounts, Fetching
<1>5. NothingDropped' /\ FaultsBuriedTwice' /\ RunningHasLoop'
  BY <1>1 DEF IInv, NothingDropped, FaultsBuriedTwice, RunningHasLoop, Alive
<1>6. OneAtATime'
  BY <1>1 DEF IInv, OneAtATime, Alive, Holding
<1>7. CommitsCovered' /\ CommittedIsHandled'
  BY <1>1 DEF IInv, CommitsCovered, CommittedIsHandled
<1> QED BY <1>2, <1>3, <1>4, <1>5, <1>6, <1>7 DEF IInv, Places

LEMMA BreakerClockKeepsIInv == ASSUME IInv, BreakerClock PROVE IInv'
<1>1. /\ UNCHANGED <<log, committed, grouped, running, reader, cancelled, starts,
                     readers, loop, dlq, crashes, handled, base, overlapped>>
      /\ breaker' = Expired(breaker)
  BY DEF BreakerClock
<1>2. /\ breaker' \in Breakers /\ breaker'.current = {} /\ IsFiniteSet(breaker'.current)
      /\ ProbesCounted(breaker')
  BY <1>1, NewGeneration DEF Expired, States
<1>3. TypeOK'
  BY <1>1, <1>2 DEF IInv, TypeOK
<1>4. LoopPlaces' /\ ReaderPlaces' /\ GroupPlaces'
  BY <1>1 DEF IInv, Places, LoopPlaces, ReaderPlaces, GroupPlaces
<1>5. BreakerCounts'
  BY <1>2 DEF BreakerCounts
<1>6. NothingDropped' /\ FaultsBuriedTwice' /\ RunningHasLoop'
  BY <1>1 DEF IInv, NothingDropped, FaultsBuriedTwice, RunningHasLoop, Alive
<1>7. OneAtATime'
  BY <1>1 DEF IInv, OneAtATime, Alive, Holding
<1>8. CommitsCovered' /\ CommittedIsHandled'
  BY <1>1 DEF IInv, CommitsCovered, CommittedIsHandled
<1> QED BY <1>3, <1>4, <1>5, <1>6, <1>7, <1>8 DEF IInv, Places

\* After a crash nothing is running and nothing is read; the offsets stay.
LEMMA CrashKeepsIInv == ASSUME IInv, Crash PROVE IInv'
<1>1. /\ UNCHANGED <<log, committed, grouped, handled, base, overlapped>>
      /\ cancelled' = {} /\ starts' = 0 /\ dlq' = <<>>
      /\ crashes < MaxCrashes /\ crashes' = crashes + 1
  BY DEF Crash
<1>2. running' = FALSE /\ reader' = None /\ breaker' = Generation("closed")
  BY DEF Crash, Fresh
<1>3. /\ loop' = [l \in Starts |-> Unborn] /\ readers' = [s \in Starts |-> Unmade]
  BY DEF Crash, Fresh
<1>4. /\ breaker' \in Breakers /\ breaker'.current = {} /\ IsFiniteSet(breaker'.current)
      /\ ProbesCounted(breaker')
  BY <1>2, NewGeneration DEF States
<1>5. TypeOK'
  <2>1. Unborn \in Loops /\ Unmade \in Readers
    BY BoundsAreNat DEF Unborn, Unmade, Loops, Readers, None
  <2>2. loop' \in [Starts -> Loops] /\ readers' \in [Starts -> Readers]
    BY <1>3, <2>1
  <2>3. running' \in BOOLEAN /\ reader' \in Starts \cup {None}
    BY <1>2
  <2>4. starts' \in 0 .. MaxStarts /\ crashes' \in 0 .. MaxCrashes
    BY <1>1, BoundsAreNat DEF IInv, TypeOK
  <2>5. dlq' \in Seq(Letters) /\ cancelled' \subseteq Starts
    BY <1>1
  <2> QED BY <1>1, <1>4, <2>2, <2>3, <2>4, <2>5 DEF IInv, TypeOK
<1>6. Places'
  <2>1. LoopPlaces' /\ ReaderPlaces'
    BY <1>1, <1>3, FieldTypes
    DEF IInv, LoopPlaces, ReaderPlaces, Unborn, Unmade, Reading, Holding, None
  <2>2. GroupPlaces'
    BY <1>1, <1>2 DEF IInv, Places, GroupPlaces
  <2> QED BY <2>1, <2>2 DEF Places
<1>7. BreakerCounts'
  BY <1>4 DEF BreakerCounts
<1>8. NothingDropped' /\ FaultsBuriedTwice' /\ RunningHasLoop'
  BY <1>1, <1>2, <1>3
  DEF NothingDropped, FaultsBuriedTwice, RunningHasLoop, Unmade, None, Offsets
<1>9. OneAtATime' /\ CommitsCovered' /\ CommittedIsHandled'
  BY <1>1, <1>3
  DEF IInv, OneAtATime, CommitsCovered, CommittedIsHandled, Alive, Unborn, Unmade, Starts
<1> QED BY <1>5, <1>6, <1>7, <1>8, <1>9 DEF IInv

-----------------------------------------------------------------------------
LEMMA StartKeepsIInv == ASSUME IInv, Start PROVE IInv'
<1> DEFINE n == starts + 1
<1>1. /\ UNCHANGED <<log, committed, grouped, breaker, cancelled, dlq, crashes, handled, base>>
      /\ starts' = n /\ reader' = n /\ running' = TRUE /\ ~running
      /\ readers' = [readers EXCEPT ![n].open = TRUE]
      /\ loop' = [loop EXCEPT ![n].pc = "top"]
      /\ overlapped' = (overlapped \/ \E l \in Starts : Alive(l))
  BY DEF Start
<1>2. n \in Starts /\ n # None /\ n > starts /\ starts \in Nat
  BY FieldTypes DEF IInv, Start, Starts, None
<1>3. /\ loop \in [Starts -> Loops] /\ loop[n] = Unborn
      /\ loop'[n] = [Unborn EXCEPT !.pc = "top"]
      /\ \A l \in Starts : l # n => loop'[l] = loop[l]
  BY <1>1, <1>2 DEF IInv, TypeOK, Places, LoopPlaces
<1>4. /\ loop'[n].pc = "top" /\ loop'[n].reader = None /\ loop'[n].message = None
  BY <1>3 DEF Unborn
<1>5. /\ readers \in [Starts -> Readers] /\ readers'[n].open = TRUE
      /\ \A s \in Starts : /\ readers'[s].from = readers[s].from
                           /\ readers'[s].next = readers[s].next
                           /\ s # n => readers'[s] = readers[s]
  BY <1>1, <1>2 DEF IInv, TypeOK, Readers
<1>6. TypeOK'
  <2>1. loop' \in [Starts -> Loops]
    <3>1. loop'[n] \in Loops
      BY <1>3 DEF Unborn, Loops
    <3> QED BY <1>1, <1>3, <3>1
  <2>2. readers' \in [Starts -> Readers]
    BY <1>1, <1>2, <1>5 DEF Readers
  <2>3. starts' \in 0 .. MaxStarts /\ overlapped' \in BOOLEAN /\ running' \in BOOLEAN
    BY <1>1, <1>2 DEF IInv, TypeOK, Starts
  <2> QED BY <1>1, <1>2, <2>1, <2>2, <2>3 DEF IInv, TypeOK
<1>7. Places'
  <2>1. LoopPlaces'
    BY <1>1, <1>2, <1>3, <1>4, FieldTypes
    DEF IInv, Places, LoopPlaces, Reading, Holding, Starts
  <2>2. ReaderPlaces'
    BY <1>1, <1>2, <1>5, FieldTypes DEF IInv, Places, ReaderPlaces, Starts
  <2>3. GroupPlaces'
    BY <1>1, <1>2 DEF IInv, Places, GroupPlaces, None
  <2> QED BY <2>1, <2>2, <2>3 DEF Places
<1>8. BreakerCounts'
  BY <1>1, <1>3 DEF IInv, BreakerCounts, Fetching, Unborn
<1>9. NothingDropped'
  BY <1>1, <1>3, <1>4, <1>5 DEF IInv, NothingDropped, Unborn
<1>10. FaultsBuriedTwice'
  BY <1>1, <1>3, <1>4 DEF IInv, FaultsBuriedTwice, Unborn
<1>11. RunningHasLoop'
  BY <1>1, <1>4 DEF RunningHasLoop, Alive
<1>12. OneAtATime'
  BY <1>1, <1>3, <1>4 DEF OneAtATime, Alive, Holding
<1>13. CommitsCovered' /\ CommittedIsHandled'
  BY <1>1, <1>2, <1>5 DEF IInv, Places, ReaderPlaces, CommitsCovered, CommittedIsHandled
<1> QED BY <1>6, <1>7, <1>8, <1>9, <1>10, <1>11, <1>12, <1>13 DEF IInv

LEMMA StopKeepsIInv == ASSUME IInv, Stop PROVE IInv'
<1>1. /\ UNCHANGED <<log, committed, grouped, breaker, cancelled, starts, loop, dlq,
                     crashes, handled, base, overlapped>>
      /\ running /\ running' = FALSE /\ reader' \in {reader, None}
      /\ readers' = [readers EXCEPT ![reader].open = FALSE]
  BY DEF Stop
<1>2. reader = starts /\ reader \in Starts
  BY <1>1, FieldTypes DEF IInv, Places, GroupPlaces, Starts
<1>3. /\ readers \in [Starts -> Readers] /\ readers'[reader].open = FALSE
      /\ \A s \in Starts : /\ readers'[s].from = readers[s].from
                           /\ readers'[s].next = readers[s].next
                           /\ s # reader => readers'[s] = readers[s]
  BY <1>1, <1>2 DEF IInv, TypeOK, Readers
<1>4. TypeOK'
  <2>1. readers' \in [Starts -> Readers]
    BY <1>1, <1>2, <1>3 DEF Readers
  <2>2. reader' \in Starts \cup {None} /\ running' \in BOOLEAN
    BY <1>1, <1>2
  <2> QED BY <1>1, <2>1, <2>2 DEF IInv, TypeOK
<1>5. Places'
  <2>1. LoopPlaces'
    BY <1>1 DEF IInv, Places, LoopPlaces
  <2>2. ReaderPlaces'
    BY <1>1, <1>2, <1>3 DEF IInv, Places, ReaderPlaces
  <2>3. GroupPlaces'
    BY <1>1, <1>2 DEF IInv, Places, GroupPlaces
  <2> QED BY <2>1, <2>2, <2>3 DEF Places
<1>6. BreakerCounts'
  BY <1>1 DEF IInv, BreakerCounts, Fetching
<1>7. NothingDropped'
  BY <1>1, <1>3 DEF IInv, NothingDropped
<1>8. FaultsBuriedTwice' /\ RunningHasLoop'
  BY <1>1 DEF IInv, FaultsBuriedTwice, RunningHasLoop
<1>9. OneAtATime'
  BY <1>1, <1>3 DEF IInv, OneAtATime, Alive, Holding
<1>10. CommitsCovered' /\ CommittedIsHandled'
  BY <1>1, <1>3 DEF IInv, CommitsCovered, CommittedIsHandled
<1> QED BY <1>4, <1>5, <1>6, <1>7, <1>8, <1>9, <1>10 DEF IInv

-----------------------------------------------------------------------------
\* What FetchError, Again and Ends leave of a loop.
LEMMA LoopLeft ==
  ASSUME IInv, NEW l \in Starts
  PROVE  /\ Again(l) => loop' = [loop EXCEPT ![l] = [Unborn EXCEPT !.pc = "top"]]
         /\ FetchError(l) => \E x \in {[Unborn EXCEPT !.pc = "top"],
                                       [Unborn EXCEPT !.pc = "done"]} :
                               /\ loop' = [loop EXCEPT ![l] = x]
                               /\ x.pc = "done" => l \in cancelled
         /\ [Unborn EXCEPT !.pc = "top"] \in Loops
         /\ [Unborn EXCEPT !.pc = "done"] \in Loops
<1>1. /\ [Unborn EXCEPT !.pc = "top"] = [pc |-> "top", reader |-> None, message |-> None]
      /\ [Unborn EXCEPT !.pc = "done"] = [pc |-> "done", reader |-> None, message |-> None]
  BY DEF Unborn
<1>2. /\ [pc |-> "top", reader |-> None, message |-> None] \in Loops
      /\ [pc |-> "done", reader |-> None, message |-> None] \in Loops
  BY DEF Loops
<1>3. FetchError(l) => \E x \in {[Unborn EXCEPT !.pc = "top"],
                                 [Unborn EXCEPT !.pc = "done"]} :
                         /\ loop' = [loop EXCEPT ![l] = x]
                         /\ x.pc = "done" => l \in cancelled
  BY <1>1 DEF FetchError, Again, Ends
<1> QED BY <1>1, <1>2, <1>3 DEF Again

\* A loop that holds no message yet, or has nothing more to do for it, moves on
\* to a place where it holds none; nothing else changes but the breaker.
LEMMA LoopMovesOn ==
  ASSUME IInv, NEW l \in Starts, NEW x \in Loops,
         UNCHANGED <<log, committed, grouped, running, reader, cancelled, starts,
                     readers, dlq, crashes, handled, base, overlapped>>,
         loop' = [loop EXCEPT ![l] = x],
         Alive(l), loop[l].pc \notin {"process", "bury"},
         x.pc \in {"top", "execute", "fetching", "done"},
         x.pc = "done" => ~running \/ l \in cancelled,
         x.pc \in Reading => x.reader \in Starts,
         x.reader \in {None, reader, loop[l].reader},
         breaker' \in Breakers, BreakerCounts'
  PROVE  IInv'
<1>1. /\ loop \in [Starts -> Loops] /\ loop'[l] = x
      /\ \A m \in Starts : m # l => loop'[m] = loop[m]
  BY DEF IInv, TypeOK
<1>2. l <= starts
  BY FieldTypes DEF IInv, Places, LoopPlaces, Alive, Unborn, Starts
<1>3. TypeOK'
  <2>1. loop' \in [Starts -> Loops]
    BY <1>1
  <2> QED BY <2>1 DEF IInv, TypeOK
<1>4. Places'
  <2>1. LoopPlaces'
    BY <1>1, <1>2, FieldTypes DEF IInv, Places, LoopPlaces, Reading, Holding, Starts
  <2>2. ReaderPlaces' /\ GroupPlaces'
    BY DEF IInv, Places, ReaderPlaces, GroupPlaces
  <2> QED BY <2>1, <2>2 DEF Places
<1>5. NothingDropped'
  BY <1>1 DEF IInv, NothingDropped
<1>6. FaultsBuriedTwice'
  BY <1>1 DEF IInv, FaultsBuriedTwice
<1>7. RunningHasLoop'
  BY <1>1 DEF IInv, RunningHasLoop, Alive
<1>8. OneAtATime'
  BY <1>1 DEF IInv, Places, GroupPlaces, OneAtATime, Alive, Holding
<1>9. CommitsCovered' /\ CommittedIsHandled'
  BY DEF IInv, CommitsCovered, CommittedIsHandled
<1> QED BY <1>3, <1>4, <1>5, <1>6, <1>7, <1>8, <1>9 DEF IInv

LEMMA TopKeepsIInv == ASSUME IInv, NEW l \in Starts, Top(l) PROVE IInv'
<1>1. /\ UNCHANGED <<log, committed, grouped, running, reader, breaker, cancelled,
                     starts, readers, dlq, crashes, handled, base, overlapped>>
      /\ loop[l].pc = "top" /\ loop \in [Starts -> Loops]
  BY DEF Top, IInv, TypeOK
<1>2. Alive(l) /\ breaker' \in Breakers
  BY <1>1 DEF Alive, IInv, TypeOK
<1>3. ASSUME NEW x \in Loops, loop' = [loop EXCEPT ![l] = x] PROVE BreakerCounts'
  <2>1. \A m \in Fetching : m \in Fetching'
    BY <1>1, <1>3 DEF Fetching
  <2> QED BY <1>1, <2>1 DEF IInv, BreakerCounts
<1>4. CASE running /\ reader # None
  <2> DEFINE x == [loop[l] EXCEPT !.pc = "execute", !.reader = reader]
  <2>1. reader \in Starts
    BY <1>4 DEF IInv, TypeOK
  <2>2. x \in Loops /\ x.pc = "execute" /\ x.reader = reader
    BY <1>1, <2>1 DEF Loops
  <2>3. loop' = [loop EXCEPT ![l] = x]
    BY <1>4 DEF Top
  <2>4. BreakerCounts'
    BY <1>3, <2>2, <2>3
  <2> HIDE DEF x
  <2> QED BY <1>1, <1>2, <2>1, <2>2, <2>3, <2>4, LoopMovesOn
<1>5. CASE ~(running /\ reader # None)
  <2> DEFINE x == [Unborn EXCEPT !.pc = "done"]
  <2>1. x \in Loops /\ x.pc = "done" /\ x.reader = None /\ x.pc \notin Reading
    BY LoopLeft DEF Unborn, Reading, Holding
  <2>2. loop' = [loop EXCEPT ![l] = x] /\ ~running
    BY <1>5 DEF Top, Ends, IInv, Places, GroupPlaces, None
  <2>3. BreakerCounts'
    BY <1>3, <2>1, <2>2
  <2> HIDE DEF x
  <2> QED BY <1>1, <1>2, <2>1, <2>2, <2>3, LoopMovesOn
<1> QED BY <1>4, <1>5

\* The two ways back from a fetch that failed, whatever the breaker became.
LEMMA FetchErrorKeepsIInv ==
  ASSUME IInv, NEW l \in Starts, FetchError(l), loop[l].pc \in {"execute", "fetching"},
         UNCHANGED <<log, committed, grouped, running, reader, cancelled, starts,
                     readers, dlq, crashes, handled, base, overlapped>>,
         breaker' \in Breakers, IsFiniteSet(breaker'.current),
         breaker'.current \subseteq breaker.current \ {l}, ProbesCounted(breaker')
  PROVE  IInv'
<1>1. PICK x \in {[Unborn EXCEPT !.pc = "top"], [Unborn EXCEPT !.pc = "done"]} :
        loop' = [loop EXCEPT ![l] = x] /\ (x.pc = "done" => l \in cancelled)
  BY LoopLeft
<1>2. /\ x \in Loops /\ x.pc \in {"top", "done"} /\ x.reader = None
      /\ x.pc \notin Reading
  BY LoopLeft DEF Unborn, Reading, Holding
<1>3. BreakerCounts'
  <2>1. \A m \in Fetching : m = l \/ m \in Fetching'
    BY <1>1 DEF Fetching, IInv, TypeOK
  <2> QED BY <2>1 DEF IInv, BreakerCounts
<1>4. Alive(l)
  BY DEF Alive
<1> QED BY <1>1, <1>2, <1>3, <1>4, LoopMovesOn

LEMMA ExecuteKeepsIInv == ASSUME IInv, NEW l \in Starts, Execute(l) PROVE IInv'
<1>1. /\ UNCHANGED <<log, committed, grouped, running, reader, cancelled, starts,
                     readers, dlq, crashes, handled, base, overlapped>>
      /\ loop[l].pc = "execute" /\ loop \in [Starts -> Loops]
  BY DEF Execute, IInv, TypeOK
<1>2. /\ breaker \in Breakers /\ IsFiniteSet(breaker.current) /\ ProbesCounted(breaker)
      /\ breaker.current \subseteq Fetching /\ l \notin breaker.current
  BY <1>1 DEF IInv, TypeOK, BreakerCounts, Fetching
<1>3. CASE Admits(breaker)
  <2> DEFINE x == [loop[l] EXCEPT !.pc = "fetching"]
  <2>1. breaker' = Admitted(breaker, l) /\ loop' = [loop EXCEPT ![l] = x]
    BY <1>3 DEF Execute, Goes
  <2>2. x \in Loops /\ x.pc = "fetching" /\ x.reader = loop[l].reader
    BY <1>1 DEF Loops
  <2>3. x.reader \in Starts /\ Alive(l)
    BY <1>1, <2>2 DEF IInv, Places, LoopPlaces, Reading, Alive
  <2>4. /\ breaker' \in Breakers /\ breaker'.current = breaker.current \cup {l}
        /\ IsFiniteSet(breaker'.current) /\ ProbesCounted(breaker')
    BY <1>2, <1>3, <2>1, AdmittedCounts
  <2>5. BreakerCounts'
    <3>1. /\ \A m \in Fetching : m \in Fetching'
          /\ l \in Fetching'
      BY <1>1, <2>1, <2>2 DEF Fetching
    <3> QED BY <1>2, <2>4, <3>1 DEF BreakerCounts
  <2> HIDE DEF x
  <2> QED BY <1>1, <2>1, <2>2, <2>3, <2>4, <2>5, LoopMovesOn
<1>4. CASE ~Admits(breaker)
  BY <1>1, <1>2, <1>4, FetchErrorKeepsIInv DEF Execute
<1> QED BY <1>3, <1>4

LEMMA FetchFailsKeepsIInv == ASSUME IInv, NEW l \in Starts, FetchFails(l) PROVE IInv'
<1>1. /\ UNCHANGED <<log, committed, grouped, running, reader, cancelled, starts,
                     readers, dlq, crashes, handled, base, overlapped>>
      /\ loop[l].pc = "fetching" /\ FetchError(l)
      /\ breaker' = Recorded(breaker, l, FALSE)
  BY DEF FetchFails
<1>2. breaker \in Breakers /\ IsFiniteSet(breaker.current) /\ ProbesCounted(breaker)
  BY DEF IInv, TypeOK, BreakerCounts
<1>3. /\ breaker' \in Breakers /\ breaker'.current \subseteq breaker.current \ {l}
      /\ IsFiniteSet(breaker'.current) /\ ProbesCounted(breaker')
  BY <1>1, <1>2, RecordedCounts
<1> QED BY <1>1, <1>3, FetchErrorKeepsIInv

LEMMA CommitSkippedKeepsIInv ==
  ASSUME IInv, NEW l \in Starts, CommitSkipped(l) PROVE IInv'
<1> DEFINE x == [Unborn EXCEPT !.pc = "top"]
<1>1. /\ UNCHANGED <<log, committed, grouped, running, reader, breaker, cancelled,
                     starts, readers, dlq, crashes, handled, base, overlapped>>
      /\ loop[l].pc = "commit" /\ loop' = [loop EXCEPT ![l] = x]
  BY LoopLeft DEF CommitSkipped
<1>2. /\ x \in Loops /\ x.pc = "top" /\ x.reader = None /\ x.pc \notin Reading
  BY LoopLeft DEF Unborn, Reading, Holding
<1>3. BreakerCounts'
  <2>1. \A m \in Fetching : m \in Fetching'
    BY <1>1 DEF Fetching, IInv, TypeOK
  <2> QED BY <1>1, <2>1 DEF IInv, BreakerCounts
<1>4. Alive(l) /\ breaker' \in Breakers
  BY <1>1 DEF Alive, IInv, TypeOK
<1> HIDE DEF x
<1> QED BY <1>1, <1>2, <1>3, <1>4, LoopMovesOn

-----------------------------------------------------------------------------
LEMMA FetchedKeepsIInv == ASSUME IInv, NEW l \in Starts, Fetched(l) PROVE IInv'
<1> DEFINE s == loop[l].reader
           o == readers[s].next
<1>1. /\ UNCHANGED <<log, committed, grouped, running, reader, cancelled, starts, dlq,
                     crashes, handled, base, overlapped>>
      /\ loop[l].pc = "fetching" /\ o \in 1 .. Len(log)
      /\ readers' = [readers EXCEPT ![s].next = @ + 1]
      /\ loop' = [loop EXCEPT ![l].pc = "process", ![l].message = o]
      /\ breaker' = Recorded(breaker, l, TRUE)
  BY DEF Fetched
<1>2. s \in Starts
  BY <1>1 DEF IInv, Places, LoopPlaces, Reading
<1>3. o \in Offsets /\ o \in Nat /\ Len(log) \in Nat /\ Len(log) <= MaxLog /\ MaxLog \in Nat
  BY <1>1, FieldTypes DEF IInv, Offsets
<1>4. /\ loop \in [Starts -> Loops]
      /\ loop'[l].pc = "process" /\ loop'[l].reader = s /\ loop'[l].message = o
      /\ loop'[l] \in Loops
      /\ \A m \in Starts : m # l => loop'[m] = loop[m]
  BY <1>1, <1>3 DEF IInv, TypeOK, Loops
<1>5. /\ readers \in [Starts -> Readers]
      /\ readers'[s].next = o + 1 /\ readers'[s] \in Readers
      /\ \A r \in Starts : /\ readers'[r].from = readers[r].from
                           /\ readers'[r].open = readers[r].open
                           /\ r # s => readers'[r] = readers[r]
  <2>1. readers \in [Starts -> Readers] /\ readers' = [readers EXCEPT ![s].next = o + 1]
    BY <1>1 DEF IInv, TypeOK
  <2>2. readers'[s] = [readers[s] EXCEPT !.next = o + 1] /\ readers[s] \in Readers
    BY <1>2, <2>1
  <2>3. o + 1 \in 0 .. MaxLog + 1
    BY <1>1, <1>3
  <2>4. readers'[s] \in Readers /\ readers'[s].next = o + 1
        /\ readers'[s].from = readers[s].from /\ readers'[s].open = readers[s].open
    BY <2>2, <2>3 DEF Readers
  <2> QED BY <1>2, <2>1, <2>4
<1>6. /\ breaker' \in Breakers /\ breaker'.current \subseteq breaker.current \ {l}
      /\ IsFiniteSet(breaker'.current) /\ ProbesCounted(breaker')
  BY <1>1, RecordedCounts DEF IInv, TypeOK, BreakerCounts
<1>7. TypeOK'
  <2>1. loop' \in [Starts -> Loops]
    BY <1>1, <1>4
  <2>2. readers' \in [Starts -> Readers]
    BY <1>1, <1>5
  <2> QED BY <1>1, <1>6, <2>1, <2>2 DEF IInv, TypeOK
<1>8. Places'
  <2>1. LoopPlaces'
    <3>1. l <= starts
      BY <1>1, FieldTypes DEF IInv, Places, LoopPlaces, Unborn, Starts
    <3> QED BY <1>1, <1>2, <1>4, <3>1, FieldTypes
            DEF IInv, Places, LoopPlaces, Reading, Holding, Starts
  <2>2. ReaderPlaces'
    <3>1. /\ readers[s].from <= o + 1 /\ o + 1 <= Len(log) + 1 /\ o + 1 # None /\ o # None
      BY <1>1, <1>2, <1>3, FieldTypes DEF IInv, Places, ReaderPlaces, None
    <3> QED BY <1>1, <1>2, <1>5, <3>1 DEF IInv, Places, ReaderPlaces
  <2>3. GroupPlaces'
    BY <1>1 DEF IInv, Places, GroupPlaces
  <2> QED BY <2>1, <2>2, <2>3 DEF Places
<1>9. BreakerCounts'
  <2>1. \A m \in Fetching : m = l \/ m \in Fetching'
    BY <1>4 DEF Fetching
  <2> QED BY <1>6, <2>1 DEF IInv, BreakerCounts
<1>10. NothingDropped'
  <2> SUFFICES ASSUME NEW r \in Starts, NEW p \in Offsets,
                      readers'[r].from <= p, p < readers'[r].next
               PROVE  p \in handled' \/ \E m \in Starts : loop'[m].message = p
                                                 /\ loop'[m].pc \in {"process", "bury"}
    BY DEF NothingDropped
  <2>1. CASE r = s /\ p = o
    BY <1>4, <2>1
  <2>2. CASE ~(r = s /\ p = o)
    <3>1. p < readers[r].next /\ readers[r].from <= p
      BY <1>3, <1>5, <2>2 DEF Offsets
    <3>2. PICK m \in Starts : \/ p \in handled
                              \/ loop[m].message = p /\ loop[m].pc \in {"process", "bury"}
      BY <1>2, <3>1 DEF IInv, NothingDropped
    <3>3. p \in handled \/ m # l
      BY <1>1, <3>2
    <3> QED BY <1>1, <1>4, <3>2, <3>3
  <2> QED BY <2>1, <2>2
<1>11. FaultsBuriedTwice'
  BY <1>1, <1>4 DEF IInv, FaultsBuriedTwice
<1>12. RunningHasLoop'
  <2>1. running => starts \in Starts
    BY FieldTypes DEF IInv, Places, GroupPlaces, Starts
  <2> QED BY <1>1, <1>4, <2>1 DEF IInv, RunningHasLoop, Alive
<1>13. OneAtATime'
  <2> SUFFICES ASSUME ~overlapped, NEW m \in Starts, Alive(m)'
               PROVE  /\ m = starts /\ loop'[m].reader \in {None, starts}
                      /\ loop'[m].pc \in Holding =>
                           /\ readers'[m].from <= loop'[m].message
                           /\ loop'[m].message + 1 = readers'[m].next
    BY <1>1 DEF OneAtATime, Holding
  <2>1. Alive(m) /\ Alive(l)
    BY <1>1, <1>4 DEF Alive
  <2>2. m = l /\ l = starts /\ s \in {None, starts}
    BY <2>1 DEF IInv, OneAtATime
  <2>3. s = l
    BY <1>2, <2>2 DEF Starts, None
  <2>4. readers[l].from <= o
    BY <2>3, <1>2 DEF IInv, Places, ReaderPlaces
  <2> QED BY <1>4, <1>5, <2>2, <2>3, <2>4
<1>14. CommitsCovered'
  <2>1. ASSUME NEW r \in Starts, ~overlapped, committed # None, r = starts,
               readers'[r].next # None
        PROVE  /\ committed <= readers'[r].next
               /\ \A p \in Offsets : base <= p /\ p < readers'[r].from => p \in handled
    <3>1. readers[r].next # None /\ readers[r].next <= readers'[r].next
      BY <1>1, <1>3, <1>5, <2>1, FieldTypes DEF IInv, None
    <3>2. committed <= readers[r].next
      BY <2>1, <3>1 DEF IInv, CommitsCovered
    <3>3. committed \in Nat /\ readers[r].next \in Nat /\ readers'[r].next \in Nat
      <4>1. readers[r] \in Readers /\ readers'[r] \in Readers
        BY <1>5
      <4> QED BY <4>1, BoundsAreNat DEF IInv, TypeOK, Readers
    <3> QED BY <1>5, <2>1, <3>1, <3>2, <3>3 DEF IInv, CommitsCovered
  <2> QED BY <1>1, <2>1 DEF CommitsCovered
<1>15. CommittedIsHandled'
  BY <1>1 DEF IInv, CommittedIsHandled
<1> QED BY <1>7, <1>8, <1>9, <1>10, <1>11, <1>12, <1>13, <1>14, <1>15 DEF IInv

\* A letter is put at the end of the queue; the ones before it stay.
LEMMA LetterAdded ==
  ASSUME IInv, NEW o \in Offsets, NEW r \in Reasons, Send(o, r)
  PROVE  /\ dlq' \in Seq(Letters) /\ Len(dlq) \in Nat /\ Len(dlq') = Len(dlq) + 1
         /\ dlq'[Len(dlq) + 1] = [offset |-> o, reason |-> r]
         /\ \A i \in DOMAIN dlq : i \in DOMAIN dlq' /\ dlq'[i] = dlq[i]
         /\ DOMAIN dlq = 1 .. Len(dlq) /\ DOMAIN dlq' = 1 .. Len(dlq) + 1
         /\ \A i \in DOMAIN dlq : dlq[i] \in Letters
         /\ handled' = handled \cup {o} /\ handled' \subseteq Offsets
<1>1. dlq \in Seq(Letters) /\ [offset |-> o, reason |-> r] \in Letters
  BY DEF IInv, TypeOK, Letters
<1>2. dlq' = Append(dlq, [offset |-> o, reason |-> r]) /\ handled' = handled \cup {o}
  BY DEF Send
<1>3. handled' \subseteq Offsets
  BY <1>2 DEF IInv, TypeOK
<1> HIDE DEF Letters
<1> QED BY <1>1, <1>2, <1>3

\* A loop that holds message o goes on with it, or gives it up once handled: the
\* conjuncts that do not depend on the queue.
LEMMA HolderMovesOn ==
  ASSUME IInv, NEW l \in Starts, NEW to \in {"bury", "commit"},
         UNCHANGED <<log, committed, grouped, running, reader, breaker, cancelled,
                     starts, readers, crashes, base, overlapped>>,
         loop[l].pc \in {"process", "bury"}, Goes(l, to),
         handled \subseteq handled', handled' \subseteq Offsets,
         to = "commit" => loop[l].message \in handled',
         dlq' \in Seq(Letters)
  PROVE  /\ TypeOK' /\ Places' /\ BreakerCounts' /\ NothingDropped' /\ RunningHasLoop'
         /\ OneAtATime' /\ CommitsCovered' /\ CommittedIsHandled'
         /\ loop'[l].pc = to /\ loop'[l].message = loop[l].message
         /\ \A m \in Starts : m # l => loop'[m] = loop[m]
<1>1. /\ loop \in [Starts -> Loops] /\ loop' = [loop EXCEPT ![l].pc = to]
  BY DEF Goes, IInv, TypeOK
<1>2. /\ loop'[l].pc = to /\ loop'[l].message = loop[l].message
      /\ loop'[l].reader = loop[l].reader /\ loop'[l] \in Loops
      /\ \A m \in Starts : m # l => loop'[m] = loop[m]
  BY <1>1 DEF Loops
<1>3. TypeOK'
  <2>1. loop' \in [Starts -> Loops]
    BY <1>1, <1>2
  <2> QED BY <2>1 DEF IInv, TypeOK
<1>4. Places'
  <2>1. l <= starts
    BY FieldTypes DEF IInv, Places, LoopPlaces, Unborn, Starts
  <2>2. LoopPlaces'
    BY <1>2, <2>1, FieldTypes DEF IInv, Places, LoopPlaces, Reading, Holding, Starts
  <2>3. ReaderPlaces' /\ GroupPlaces'
    BY DEF IInv, Places, ReaderPlaces, GroupPlaces
  <2> QED BY <2>2, <2>3 DEF Places
<1>5. BreakerCounts'
  <2>1. \A m \in Fetching : m \in Fetching'
    BY <1>2 DEF Fetching
  <2> QED BY <2>1 DEF IInv, BreakerCounts
<1>6. NothingDropped'
  <2> SUFFICES ASSUME NEW r \in Starts, NEW p \in Offsets,
                      readers[r].from <= p, p < readers[r].next
               PROVE  p \in handled' \/ \E m \in Starts : loop'[m].message = p
                                                 /\ loop'[m].pc \in {"process", "bury"}
    BY DEF NothingDropped
  <2>1. PICK m \in Starts : \/ p \in handled
                            \/ loop[m].message = p /\ loop[m].pc \in {"process", "bury"}
    BY DEF IInv, NothingDropped
  <2> QED BY <1>2, <2>1
<1>7. RunningHasLoop'
  <2>1. running => starts \in Starts
    BY FieldTypes DEF IInv, Places, GroupPlaces, Starts
  <2> QED BY <1>2, <2>1 DEF IInv, RunningHasLoop, Alive
<1>8. OneAtATime'
  BY <1>2 DEF IInv, OneAtATime, Alive, Holding
<1>9. CommitsCovered' /\ CommittedIsHandled'
  BY DEF IInv, CommitsCovered, CommittedIsHandled
<1> QED BY <1>2, <1>3, <1>4, <1>5, <1>6, <1>7, <1>8, <1>9

LEMMA ProcessKeepsIInv == ASSUME IInv, NEW l \in Starts, Process(l) PROVE IInv'
<1> DEFINE o == loop[l].message
<1>1. /\ UNCHANGED <<log, committed, grouped, running, reader, breaker, cancelled,
                     starts, readers, crashes, base, overlapped>>
      /\ loop[l].pc = "process"
  BY DEF Process
<1>2. o \in 1 .. Len(log) /\ o \in Offsets /\ log[o] \in Kinds
  BY <1>1, FieldTypes DEF IInv, TypeOK, Places, LoopPlaces, Holding, Offsets
<1>3. CASE log[o] \in Faults /\ Send(o, log[o]) /\ Goes(l, "bury")
  <2>1. log[o] \in Reasons
    BY <1>3 DEF Reasons
  <2>2. /\ dlq' \in Seq(Letters) /\ Len(dlq) \in Nat /\ Len(dlq') = Len(dlq) + 1
        /\ dlq'[Len(dlq) + 1] = [offset |-> o, reason |-> log[o]]
        /\ \A i \in DOMAIN dlq : i \in DOMAIN dlq' /\ dlq'[i] = dlq[i]
        /\ DOMAIN dlq = 1 .. Len(dlq) /\ DOMAIN dlq' = 1 .. Len(dlq) + 1
        /\ handled' = handled \cup {o} /\ handled' \subseteq Offsets
    BY <1>2, <1>3, <2>1, LetterAdded
  <2>3. /\ TypeOK' /\ Places' /\ BreakerCounts' /\ NothingDropped' /\ RunningHasLoop'
        /\ OneAtATime' /\ CommitsCovered' /\ CommittedIsHandled'
        /\ loop'[l].pc = "bury" /\ loop'[l].message = o
        /\ \A m \in Starts : m # l => loop'[m] = loop[m]
    BY <1>1, <1>3, <2>2, HolderMovesOn
  <2>4. FaultsBuriedTwice'
    <3> SUFFICES ASSUME NEW i \in DOMAIN dlq', dlq'[i].reason # "processing_error"
                 PROVE  \/ \E j \in DOMAIN dlq' : j > i
                             /\ dlq'[j] = [dlq'[i] EXCEPT !.reason = "processing_error"]
                        \/ \E m \in Starts : /\ loop'[m].pc = "bury"
                                             /\ loop'[m].message = dlq'[i].offset
      BY DEF FaultsBuriedTwice
    <3>1. CASE i = Len(dlq) + 1
      BY <2>2, <2>3, <3>1
    <3>2. CASE i \in DOMAIN dlq
      <4>1. \/ \E j \in DOMAIN dlq : j > i
                   /\ dlq[j] = [dlq[i] EXCEPT !.reason = "processing_error"]
            \/ \E m \in Starts : loop[m].pc = "bury" /\ loop[m].message = dlq[i].offset
        BY <2>2, <3>2 DEF IInv, FaultsBuriedTwice
      <4>2. ASSUME NEW m \in Starts, loop[m].pc = "bury"
            PROVE  loop'[m] = loop[m]
        BY <1>1, <2>3, <4>2
      <4> QED BY <2>2, <3>2, <4>1, <4>2
    <3> QED BY <2>2, <3>1, <3>2
  <2> QED BY <2>3, <2>4 DEF IInv
<1>4. CASE /\ handled' = handled \cup {o} \/ handled' = handled
           /\ dlq' = dlq
           /\ \/ handled' = handled \cup {o} /\ Goes(l, "commit")
              \/ Goes(l, "bury")
  <2>1. dlq' \in Seq(Letters) /\ handled \subseteq handled' /\ handled' \subseteq Offsets
    BY <1>2, <1>4 DEF IInv, TypeOK
  <2>2. PICK to \in {"bury", "commit"} :
          Goes(l, to) /\ (to = "commit" => o \in handled')
    BY <1>4
  <2>3. /\ TypeOK' /\ Places' /\ BreakerCounts' /\ NothingDropped' /\ RunningHasLoop'
        /\ OneAtATime' /\ CommitsCovered' /\ CommittedIsHandled'
        /\ \A m \in Starts : m # l => loop'[m] = loop[m]
    BY <1>1, <2>1, <2>2, HolderMovesOn
  <2>4. FaultsBuriedTwice'
    <3>1. \A m \in Starts : loop[m].pc = "bury" => loop'[m] = loop[m]
      BY <1>1, <2>3
    <3> QED BY <1>4, <3>1 DEF IInv, FaultsBuriedTwice
  <2> QED BY <2>3, <2>4 DEF IInv
<1> QED BY <1>3, <1>4 DEF Process

\* The second burial is the one every fault of this message was waiting for.
LEMMA BuryKeepsIInv == ASSUME IInv, NEW l \in Starts, Bury(l) PROVE IInv'
<1> DEFINE o == loop[l].message
<1>1. /\ UNCHANGED <<log, committed, grouped, running, reader, breaker, cancelled,
                     starts, readers, crashes, base, overlapped>>
      /\ loop[l].pc = "bury" /\ Send(o, "processing_error") /\ Goes(l, "commit")
  BY DEF Bury
<1>2. o \in Offsets /\ "processing_error" \in Reasons
  BY <1>1, FieldTypes DEF IInv, Places, LoopPlaces, Holding, Offsets, Reasons
<1>3. /\ dlq' \in Seq(Letters) /\ Len(dlq) \in Nat /\ Len(dlq') = Len(dlq) + 1
      /\ dlq'[Len(dlq) + 1] = [offset |-> o, reason |-> "processing_error"]
      /\ \A i \in DOMAIN dlq : i \in DOMAIN dlq' /\ dlq'[i] = dlq[i]
      /\ DOMAIN dlq = 1 .. Len(dlq) /\ DOMAIN dlq' = 1 .. Len(dlq) + 1
      /\ \A i \in DOMAIN dlq : dlq[i] \in Letters
      /\ handled' = handled \cup {o} /\ handled' \subseteq Offsets
  BY <1>1, <1>2, LetterAdded
<1>4. /\ TypeOK' /\ Places' /\ BreakerCounts' /\ NothingDropped' /\ RunningHasLoop'
      /\ OneAtATime' /\ CommitsCovered' /\ CommittedIsHandled'
      /\ \A m \in Starts : m # l => loop'[m] = loop[m]
  BY <1>1, <1>3, HolderMovesOn
<1>5. FaultsBuriedTwice'
  <2> SUFFICES ASSUME NEW i \in DOMAIN dlq', dlq'[i].reason # "processing_error"
               PROVE  \/ \E j \in DOMAIN dlq' : j > i
                           /\ dlq'[j] = [dlq'[i] EXCEPT !.reason = "processing_error"]
                      \/ \E m \in Starts : /\ loop'[m].pc = "bury"
                                           /\ loop'[m].message = dlq'[i].offset
    BY DEF FaultsBuriedTwice
  <2>1. i \in DOMAIN dlq /\ dlq'[i] = dlq[i] /\ i \in 1 .. Len(dlq)
    BY <1>3
  <2>2. CASE dlq[i].offset = o
    <3>1. dlq[i] = [offset |-> dlq[i].offset, reason |-> dlq[i].reason]
      BY <1>3, <2>1 DEF Letters
    <3>2. [dlq[i] EXCEPT !.reason = "processing_error"]
            = [offset |-> o, reason |-> "processing_error"]
      BY <2>2, <3>1
    <3>3. /\ Len(dlq) + 1 \in DOMAIN dlq' /\ Len(dlq) + 1 > i
          /\ dlq'[Len(dlq) + 1] = [dlq'[i] EXCEPT !.reason = "processing_error"]
      BY <1>3, <2>1, <3>2
    <3> QED BY <3>3
  <2>3. CASE dlq[i].offset # o
    <3>1. \/ \E j \in DOMAIN dlq : j > i
                 /\ dlq[j] = [dlq[i] EXCEPT !.reason = "processing_error"]
          \/ \E m \in Starts : loop[m].pc = "bury" /\ loop[m].message = dlq[i].offset
      BY <2>1 DEF IInv, FaultsBuriedTwice
    <3>2. ASSUME NEW m \in Starts, loop[m].message = dlq[i].offset
          PROVE  loop'[m] = loop[m]
      BY <1>4, <2>3, <3>2
    <3> QED BY <1>3, <2>1, <3>1, <3>2
  <2> QED BY <2>2, <2>3
<1> QED BY <1>4, <1>5 DEF IInv

\* The one loop commits what follows its message, which is all its reader has
\* handed out.
LEMMA CommitSucceedsKeepsIInv ==
  ASSUME IInv, NEW l \in Starts, CommitSucceeds(l) PROVE IInv'
<1> DEFINE s == loop[l].reader
           o == loop[l].message
           x == [Unborn EXCEPT !.pc = "top"]
<1>1. /\ UNCHANGED <<log, grouped, running, reader, breaker, cancelled, starts,
                     readers, dlq, crashes, handled, overlapped>>
      /\ loop[l].pc = "commit" /\ grouped /\ readers[s].open
      /\ committed' = o + 1
      /\ base' = IF committed = None THEN readers[s].from ELSE base
      /\ loop' = [loop EXCEPT ![l] = x]
  BY LoopLeft DEF CommitSucceeds
<1>2. x \in Loops /\ x.pc = "top" /\ x.reader = None
  BY LoopLeft DEF Unborn
<1> HIDE DEF x
<1>3. /\ s \in Starts /\ o \in 1 .. Len(log) /\ o \in Nat /\ o \in Offsets
      /\ Len(log) <= MaxLog /\ Len(log) \in Nat /\ MaxLog \in Nat /\ l <= starts
  <2>1. s \in Starts /\ o \in 1 .. Len(log)
    BY <1>1 DEF IInv, Places, LoopPlaces, Reading, Holding
  <2>2. Len(log) <= MaxLog /\ Len(log) \in Nat /\ MaxLog \in Nat
    BY FieldTypes DEF IInv
  <2>3. l <= starts
    BY <1>1, FieldTypes DEF IInv, Places, LoopPlaces, Unborn, Starts
  <2> QED BY <2>1, <2>2, <2>3 DEF Offsets
<1>4. /\ loop \in [Starts -> Loops] /\ loop'[l] = x
      /\ \A m \in Starts : m # l => loop'[m] = loop[m]
  BY <1>1 DEF IInv, TypeOK
<1>5. committed' \in 0 .. MaxLog + 1 /\ committed' <= Len(log) + 1 /\ committed' # None
  BY <1>1, <1>3 DEF None
<1>6. TypeOK'
  <2>1. loop' \in [Starts -> Loops]
    BY <1>1, <1>2, <1>4
  <2>2. base' \in 0 .. MaxLog + 1
    BY <1>1, <1>3, FieldTypes DEF IInv, TypeOK
  <2> QED BY <1>1, <1>5, <2>1, <2>2 DEF IInv, TypeOK
<1>7. Places'
  <2>1. LoopPlaces'
    BY <1>1, <1>2, <1>3, <1>4, FieldTypes
    DEF IInv, Places, LoopPlaces, Reading, Holding, Starts
  <2>2. ReaderPlaces'
    BY <1>1 DEF IInv, Places, ReaderPlaces
  <2>3. GroupPlaces'
    BY <1>1, <1>5 DEF IInv, Places, GroupPlaces
  <2> QED BY <2>1, <2>2, <2>3 DEF Places
<1>8. BreakerCounts'
  <2>1. \A m \in Fetching : m \in Fetching'
    BY <1>1, <1>4 DEF Fetching
  <2> QED BY <1>1, <2>1 DEF IInv, BreakerCounts
<1>9. NothingDropped'
  BY <1>1, <1>4 DEF IInv, NothingDropped
<1>10. FaultsBuriedTwice'
  BY <1>1, <1>4 DEF IInv, FaultsBuriedTwice
<1>11. RunningHasLoop'
  BY <1>1, <1>2, <1>4 DEF IInv, RunningHasLoop, Alive
<1>12. OneAtATime'
  BY <1>1, <1>2, <1>4 DEF IInv, OneAtATime, Alive, Holding
<1>13. CASE overlapped
  BY <1>1, <1>6, <1>7, <1>8, <1>9, <1>10, <1>11, <1>12, <1>13
  DEF IInv, CommitsCovered, CommittedIsHandled
<1>14. CASE ~overlapped
  <2>1. /\ l = starts /\ s = l /\ o + 1 = readers[l].next
        /\ \A m \in Starts : Alive(m) => m = l
    BY <1>1, <1>3, <1>14 DEF IInv, OneAtATime, Alive, Holding, Starts, None
  <2>2. \A p \in Offsets : readers[l].from <= p /\ p < o + 1 => p \in handled
    BY <1>1, <2>1 DEF IInv, NothingDropped, Alive
  <2>3. \A p \in Offsets : base' <= p /\ p < readers[l].from => p \in handled
    <3>1. CASE committed = None
      <4>1. base' = readers[l].from /\ readers[l].from \in Nat
        BY <1>1, <2>1, <3>1, FieldTypes DEF IInv
      <4> QED BY <4>1, BoundsAreNat DEF Offsets
    <3>2. CASE committed # None
      BY <1>1, <1>3, <1>5, <1>14, <2>1, <3>2 DEF IInv, CommitsCovered
    <3> QED BY <3>1, <3>2
  <2>4. \A p \in Offsets : base' <= p /\ p < o + 1 => p \in handled
    <3>1. readers[l].from \in Nat /\ MaxLog \in Nat
      BY FieldTypes DEF IInv
    <3> QED BY <1>3, <2>2, <2>3, <3>1 DEF Offsets
  <2>5. CommitsCovered'
    <3>1. committed' <= readers[l].next
      BY <1>1, <1>3, <2>1
    <3> QED BY <1>1, <2>1, <2>3, <3>1 DEF CommitsCovered
  <2>6. CommittedIsHandled'
    BY <1>1, <2>4 DEF CommittedIsHandled
  <2> QED BY <1>6, <1>7, <1>8, <1>9, <1>10, <1>11, <1>12, <2>5, <2>6 DEF IInv
<1> QED BY <1>13, <1>14

-----------------------------------------------------------------------------
LEMMA NextIInv == IInv /\ [Next]_vars => IInv'
<1> SUFFICES ASSUME IInv, [Next]_vars PROVE IInv'
  OBVIOUS
<1>1. ASSUME NEW k \in Kinds, Publish(k) PROVE IInv'
  BY <1>1, PublishKeepsIInv
<1>2. ASSUME NEW s \in Starts, Join(s) \/ Cancel(s) PROVE IInv'
  BY <1>2, JoinKeepsIInv, CancelKeepsIInv
<1>3. ASSUME NEW l \in Starts, LoopStep(l) PROVE IInv'
  BY <1>3, TopKeepsIInv, ExecuteKeepsIInv, FetchedKeepsIInv, FetchFailsKeepsIInv,
     ProcessKeepsIInv, BuryKeepsIInv, CommitSucceedsKeepsIInv, CommitSkippedKeepsIInv
  DEF LoopStep
<1>4. CASE Start \/ Stop \/ Crash \/ BreakerClock
  BY <1>4, StartKeepsIInv, StopKeepsIInv, CrashKeepsIInv, BreakerClockKeepsIInv
<1>5. CASE UNCHANGED vars
  <2>1. TypeOK' /\ Places'
    BY <1>5 DEF vars, IInv, TypeOK, Places, LoopPlaces, ReaderPlaces, GroupPlaces
  <2>2. BreakerCounts' /\ NothingDropped' /\ FaultsBuriedTwice' /\ RunningHasLoop'
    BY <1>5 DEF vars, IInv, BreakerCounts, Fetching, NothingDropped, FaultsBuriedTwice,
                RunningHasLoop, Alive
  <2>3. OneAtATime' /\ CommitsCovered' /\ CommittedIsHandled'
    BY <1>5 DEF vars, IInv, OneAtATime, Alive, Holding, CommitsCovered, CommittedIsHandled
  <2> QED BY <2>1, <2>2, <2>3 DEF IInv
<1> QED BY <1>1, <1>2, <1>3, <1>4, <1>5 DEF Next

\* The inductive invariant holds throughout.
THEOREM InvariantHolds == Spec => []IInv
BY InitIInv, NextIInv, PTL DEF Spec

-----------------------------------------------------------------------------
\* Every variable keeps its type.
THEOREM TypeCorrect == Spec => []TypeOK
<1>1. IInv => TypeOK
  BY DEF IInv
<1> QED BY <1>1, InvariantHolds, PTL

\* No reader hands out a message that is then neither held, accepted nor buried.
THEOREM MessagesAreKept == Spec => []NothingDropped
<1>1. IInv => NothingDropped
  BY DEF IInv
<1> QED BY <1>1, InvariantHolds, PTL

\* Every fault in the queue is followed by its second burial, or about to be.
THEOREM LettersComeInPairs == Spec => []FaultsBuriedTwice
<1>1. IInv => FaultsBuriedTwice
  BY DEF IInv
<1> QED BY <1>1, InvariantHolds, PTL

\* A running consumer whose context lives has its last loop.
THEOREM RunningConsumerHasLoop == Spec => []RunningHasLoop
<1>1. IInv => RunningHasLoop
  BY DEF IInv
<1> QED BY <1>1, InvariantHolds, PTL

\* A half-open fetch breaker at its quota has a fetch under way, for every quota.
THEOREM FetchBreakerNeverStuck == Spec => []FetchBreakerNotStuck
<1>1. IInv => FetchBreakerNotStuck
  <2> SUFFICES ASSUME IInv, breaker.state = "half-open", ~Admits(breaker)
               PROVE  \E l \in breaker.current : loop[l].pc = "fetching"
    BY DEF FetchBreakerNotStuck
  <2>1. breaker.current # {}
    BY QuotaMeansProbe DEF IInv, TypeOK, BreakerCounts
  <2> QED BY <2>1 DEF IInv, BreakerCounts, Fetching
<1> QED BY <1>1, InvariantHolds, PTL

\* At least once, across any number of crashes, restarts and failed commits.
THEOREM AtLeastOnce == Spec => []CommittedIsHandled
<1>1. IInv => CommittedIsHandled
  BY DEF IInv
<1> QED BY <1>1, InvariantHolds, PTL

\* The committed offset does not move backwards while one loop runs at a time.
THEOREM OffsetsOnlyGrow == Spec => CommittedMonotonic
<1> DEFINE A == ~overlapped => committed' >= committed
<1>1. ASSUME IInv, [Next]_vars PROVE [A]_vars
  <2> SUFFICES ASSUME Next, ~overlapped PROVE committed' >= committed
    BY <1>1
  <2>1. committed \in Nat
    BY <1>1, BoundsAreNat DEF IInv, TypeOK
  <2>2. ASSUME NEW l \in Starts, CommitSucceeds(l) PROVE committed' >= committed
    <3>1. /\ loop[l].pc = "commit" /\ committed' = loop[l].message + 1
      BY <2>2 DEF CommitSucceeds
    <3>2. l = starts /\ committed' = readers[l].next
      BY <1>1, <3>1 DEF IInv, OneAtATime, Alive, Holding
    <3>3. readers[l].next \in Nat /\ loop[l].message \in Nat
      BY <1>1, FieldTypes DEF IInv, Offsets, None
    <3>4. readers[l].next # None
      BY <3>1, <3>2, <3>3 DEF None
    <3>5. CASE committed = None
      BY <2>1, <3>2, <3>3, <3>5 DEF None
    <3>6. CASE committed # None
      BY <1>1, <2>1, <3>2, <3>3, <3>4, <3>6 DEF IInv, CommitsCovered
    <3> QED BY <3>5, <3>6
  <2>3. ASSUME NEW l \in Starts, LoopStep(l) PROVE committed' >= committed
    <3>1. CASE CommitSucceeds(l)
      BY <2>2, <3>1
    <3>2. CASE ~CommitSucceeds(l)
      <4>1. committed' = committed
        BY <2>3, <3>2
        DEF LoopStep, Top, Execute, Fetched, FetchFails, Process, Bury, CommitSkipped
      <4> QED BY <2>1, <4>1
    <3> QED BY <3>1, <3>2
  <2>4. CASE \E l \in Starts : LoopStep(l)
    BY <2>3, <2>4
  <2>5. CASE ~ \E l \in Starts : LoopStep(l)
    <3>1. committed' = committed
      BY <2>5 DEF Next, Publish, Join, Cancel, Start, Stop, Crash, BreakerClock
    <3> QED BY <2>1, <3>1
  <2> QED BY <2>4, <2>5
<1>2. IInv /\ [Next]_vars => [A]_vars
  BY <1>1
<1> QED BY <1>2, InvariantHolds, PTL DEF Spec, CommittedMonotonic
=============================================================================
