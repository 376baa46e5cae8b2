------------------------- MODULE OrderServiceProofs -------------------------
(***************************************************************************)
(* The service for any number of orders, versions, handlers and consumer   *)
(* loops, any capacity and any breaker quota.                              *)
(*                                                                         *)
(* The inductive invariant has three parts that support each other: where  *)
(* every goroutine is (WellPlaced, OneCallInRepo), what the breaker counts *)
(* (ProbesCounted, CurrentIsUnderWay), and what the cache and the database *)
(* agree on (CacheIsCurrent, CachedIsStoredOrReported).                    *)
(*                                                                         *)
(* That every call takes effect at one moment (AtomicService) needs one    *)
(* fact more: an order that missed the cache stays a miss for as long as   *)
(* its reader is in the repository (MissStands).                           *)
(***************************************************************************)
EXTENDS OrderService, FiniteSetTheorems, TLAPS

\* A call in the service has its arguments; a writer's outcome is never Error;
\* a breaker generation counts finitely many calls.
WellPlaced ==
  /\ \A c \in Callers : call[c].pc # "idle" => call[c].order \in Orders
  /\ \A w \in Writers : /\ call[w].pc # "idle" => call[w].version \in Versions
                        /\ call[w].result # Error
  /\ \A c \in Callers : call[c].pc \in {"waiting", "inRepo"} => call[c].result = None
  /\ IsFiniteSet(breaker.current)

IInv ==
  /\ TypeOK /\ WellPlaced /\ OneCallInRepo
  /\ ProbesCounted(breaker) /\ CurrentIsUnderWay
  /\ CacheIsCurrent /\ CachedIsStoredOrReported

-----------------------------------------------------------------------------
\* The breaker's operators, for any set of callers.
LEMMA NewGeneration ==
  ASSUME NEW s \in States
  PROVE  /\ Generation(s) \in Breakers /\ Generation(s).current = {}
         /\ Generation(s).state = s
         /\ IsFiniteSet(Generation(s).current) /\ ProbesCounted(Generation(s))
<1>1. MaxRequests \in Nat /\ MaxRequests # 0
  BY BreakerSettings
<1>2. Cardinality({}) = 0 /\ IsFiniteSet({})
  BY FS_EmptySet
<1>3. Generation(s) \in Breakers
  BY <1>1 DEF Generation, Breakers
<1> QED BY <1>1, <1>2, <1>3 DEF Generation, ProbesCounted

\* Admission of a call that is not under way is counted once.
LEMMA AdmittedCounts ==
  ASSUME NEW b \in Breakers, NEW c \in Callers, c \notin b.current,
         IsFiniteSet(b.current), ProbesCounted(b), Admits(b)
  PROVE  /\ Admitted(b, c) \in Breakers
         /\ Admitted(b, c).current = b.current \cup {c}
         /\ Admitted(b, c).state = b.state
         /\ IsFiniteSet(Admitted(b, c).current)
         /\ ProbesCounted(Admitted(b, c))
<1> DEFINE a == Admitted(b, c)
<1>1. /\ b.requests \in 0 .. MaxRequests /\ b.successes \in 0 .. MaxRequests
      /\ b.state \in States /\ MaxRequests \in Nat
  BY BreakerSettings DEF Breakers
<1>2. /\ a.current = b.current \cup {c} /\ a.state = b.state
      /\ a.successes = b.successes
      /\ a.requests = IF b.state = "half-open" THEN b.requests + 1 ELSE b.requests
  BY DEF Admitted, Breakers
<1>3. IsFiniteSet(a.current) /\ Cardinality(a.current) = Cardinality(b.current) + 1
  BY <1>2, FS_AddElement
<1>4. a.requests \in 0 .. MaxRequests
  BY <1>1, <1>2 DEF Admits
<1>5. a \in Breakers
  <2>1. a = [b EXCEPT !.current = a.current, !.requests = a.requests]
    BY DEF Admitted, Breakers
  <2> QED BY <2>1, <1>2, <1>4 DEF Breakers
<1>6. ProbesCounted(a)
  <2>1. Cardinality(b.current) \in Nat
    BY FS_CardinalityType
  <2> QED BY <1>1, <1>2, <1>3, <2>1 DEF ProbesCounted
<1> QED BY <1>2, <1>3, <1>5, <1>6

\* An outcome retires its call, or starts a generation without calls.
LEMMA RecordedCounts ==
  ASSUME NEW b \in Breakers, NEW c \in Callers, NEW ok \in BOOLEAN,
         IsFiniteSet(b.current), ProbesCounted(b)
  PROVE  /\ Recorded(b, c, ok) \in Breakers
         /\ Recorded(b, c, ok).current \subseteq b.current \ {c}
         /\ IsFiniteSet(Recorded(b, c, ok).current)
         /\ ProbesCounted(Recorded(b, c, ok))
         /\ ok /\ b.state = "closed" => Recorded(b, c, ok).state = "closed"
<1> DEFINE a == Recorded(b, c, ok)
<1>1. /\ b.requests \in 0 .. MaxRequests /\ b.successes \in 0 .. MaxRequests
      /\ b.state \in States /\ b.failures \in Nat /\ b.current \subseteq Callers
      /\ MaxRequests \in Nat
  BY BreakerSettings DEF Breakers
<1>2. CASE c \notin b.current
  BY <1>2 DEF Recorded
<1>3. CASE c \in b.current /\ ok
  <2>1. a = Succeeded(b, c)
    BY <1>3 DEF Recorded
  <2>2. CASE b.state = "half-open" /\ b.successes + 1 >= MaxRequests
    <3>1. a = Generation("closed") /\ "closed" \in States
      BY <2>1, <2>2 DEF Succeeded, States
    <3> QED BY <3>1, NewGeneration
  <2>3. CASE ~(b.state = "half-open" /\ b.successes + 1 >= MaxRequests)
    <3>1. a = [b EXCEPT !.current = b.current \ {c}, !.failures = 0,
                        !.successes = IF b.state = "half-open" THEN b.successes + 1
                                      ELSE b.successes]
      BY <2>1, <2>3 DEF Succeeded
    <3>2. /\ a.current = b.current \ {c} /\ a.state = b.state /\ a.requests = b.requests
          /\ a.successes = IF b.state = "half-open" THEN b.successes + 1 ELSE b.successes
      BY <3>1 DEF Breakers
    <3>3. IsFiniteSet(a.current) /\ Cardinality(a.current) = Cardinality(b.current) - 1
      BY <1>3, <3>2, FS_RemoveElement
    <3>4. Cardinality(b.current) \in Nat
      BY FS_CardinalityType
    <3>5. a.successes \in 0 .. MaxRequests
      BY <1>1, <2>3, <3>2
    <3>6. a \in Breakers
      <4>1. b.current \ {c} \in SUBSET Callers /\ 0 \in Nat
        BY <1>1
      <4>2. (IF b.state = "half-open" THEN b.successes + 1 ELSE b.successes)
              \in 0 .. MaxRequests
        BY <3>2, <3>5
      <4> QED BY <3>1, <4>1, <4>2 DEF Breakers
    <3>7. ProbesCounted(a)
      BY <1>1, <2>3, <3>2, <3>3, <3>4 DEF ProbesCounted
    <3> QED BY <3>2, <3>3, <3>6, <3>7
  <2> QED BY <2>2, <2>3
<1>4. CASE c \in b.current /\ ~ok
  <2>1. a = Failed(b, c)
    BY <1>4 DEF Recorded
  <2>2. CASE b.state = "half-open" \/ b.failures + 1 >= TripAt
    <3>1. a = Generation("open") /\ "open" \in States
      BY <2>1, <2>2 DEF Failed, States
    <3> QED BY <3>1, <1>4, NewGeneration
  <2>3. CASE ~(b.state = "half-open" \/ b.failures + 1 >= TripAt)
    <3>1. a = [b EXCEPT !.current = b.current \ {c}, !.failures = b.failures + 1]
      BY <2>1, <2>3 DEF Failed
    <3>2. a.current = b.current \ {c} /\ a.state = b.state
      BY <3>1 DEF Breakers
    <3>3. IsFiniteSet(a.current)
      BY <3>2, FS_RemoveElement
    <3>4. a \in Breakers
      <4>1. b.current \ {c} \in SUBSET Callers /\ b.failures + 1 \in Nat
        BY <1>1
      <4> QED BY <3>1, <4>1 DEF Breakers
    <3>5. ProbesCounted(a)
      BY <2>3, <3>2 DEF ProbesCounted
    <3> QED BY <1>4, <3>2, <3>3, <3>4, <3>5
  <2> QED BY <2>2, <2>3
<1> QED BY <1>2, <1>3, <1>4

\* A half-open breaker at its quota has a probe under way.
LEMMA QuotaMeansProbe ==
  ASSUME NEW b \in Breakers, IsFiniteSet(b.current), ProbesCounted(b),
         b.state = "half-open", ~Admits(b)
  PROVE  b.current # {}
<1>1. b.requests \in 0 .. MaxRequests /\ b.successes \in Nat /\ MaxRequests \in Nat
  BY BreakerSettings DEF Breakers
<1>2. b.requests = b.successes + Cardinality(b.current) /\ b.successes < MaxRequests
  BY DEF ProbesCounted
<1>3. b.requests = MaxRequests
  BY <1>1 DEF Admits
<1> QED BY <1>1, <1>2, <1>3, FS_EmptySet

\* What a Set leaves in the cache, whatever it evicts.
LEMMA AfterSetEntries ==
  ASSUME NEW m \in [Orders -> Entries \cup {None}], NEW o \in Orders,
         NEW e \in Entries, NEW n \in Promise!AfterSet(m, o, e)
  PROVE  /\ n \in [Orders -> Entries \cup {None}] /\ n[o] = e
         /\ \A p \in Orders \ {o} : n[p] # None => n[p] = m[p]
BY DEF Promise!AfterSet, Promise!Present

-----------------------------------------------------------------------------
LEMMA InitIInv == Init => IInv
<1> SUFFICES ASSUME Init PROVE IInv
  OBVIOUS
<1>1. /\ breaker \in Breakers /\ breaker.current = {} /\ IsFiniteSet(breaker.current)
      /\ ProbesCounted(breaker)
  BY NewGeneration DEF Init, States
<1>2. TypeOK
  BY <1>1 DEF Init, TypeOK, Idle, Calls
<1>3. WellPlaced
  BY <1>1, OutcomesDistinct DEF Init, WellPlaced, Idle, Callers
<1>4. OneCallInRepo
  BY ActorsDistinct DEF Init, OneCallInRepo, Idle, Callers
<1>5. CurrentIsUnderWay /\ CacheIsCurrent /\ CachedIsStoredOrReported
  BY <1>1 DEF Init, CurrentIsUnderWay, CacheIsCurrent, CachedIsStoredOrReported
<1> QED BY <1>1, <1>2, <1>3, <1>4, <1>5 DEF IInv

LEMMA RestartKeepsIInv == ASSUME IInv, Restart PROVE IInv'
<1>1. /\ breaker' \in Breakers /\ breaker'.current = {} /\ IsFiniteSet(breaker'.current)
      /\ ProbesCounted(breaker')
  BY NewGeneration DEF Restart, States
<1>2. PICK s \in Selections \cup {{}} : cache' = Warmed(s)
  BY DEF Restart
<1>3. s \subseteq Stored
  BY DEF Selections
<1>4. repo \in [Orders -> Versions \cup {None}] /\ UNCHANGED <<repo, unsaved>>
  BY DEF IInv, TypeOK, Restart
<1>5. \A o \in Orders : repo[o] # None => Header(repo[o]) \in Entries
  BY <1>4 DEF Header, Entries
<1>6. cache' \in [Orders -> Entries \cup {None}]
  BY <1>2, <1>3, <1>5 DEF Warmed, Stored
<1>7. TypeOK'
  BY <1>1, <1>4, <1>6 DEF IInv, TypeOK, Restart, Idle, Calls
<1>8. WellPlaced'
  BY <1>1, OutcomesDistinct DEF Restart, WellPlaced, Idle, Callers
<1>9. OneCallInRepo'
  BY ActorsDistinct DEF Restart, OneCallInRepo, Idle, Callers
<1>10. CurrentIsUnderWay'
  BY <1>1 DEF CurrentIsUnderWay
<1>11. CacheIsCurrent' /\ CachedIsStoredOrReported'
  BY <1>2, <1>3, <1>4
  DEF Restart, Warmed, Stored, CacheIsCurrent, CachedIsStoredOrReported
<1> QED BY <1>1, <1>7, <1>8, <1>9, <1>10, <1>11 DEF IInv

LEMMA EnterKeepsIInv ==
  ASSUME IInv, NEW c \in Callers, NEW o \in Orders, NEW v \in Versions \cup {None},
         c \in Writers => v \in Versions, Enter(c, o, v)
  PROVE  IInv'
<1>1. /\ call[c].pc = "idle" /\ c \notin breaker.current
      /\ UNCHANGED <<repo, cache, mu, lastSet, unsaved>>
  BY DEF Enter, IInv, CurrentIsUnderWay
<1>2. /\ breaker \in Breakers /\ IsFiniteSet(breaker.current) /\ ProbesCounted(breaker)
      /\ call \in [Callers -> Calls]
  BY DEF IInv, TypeOK, WellPlaced
<1>3. CacheIsCurrent' /\ CachedIsStoredOrReported'
  BY <1>1 DEF IInv, CacheIsCurrent, CachedIsStoredOrReported
<1>4. CASE Admits(breaker)
  <2> DEFINE now == [pc |-> "waiting", order |-> o, version |-> v, result |-> None]
  <2>1. breaker' = Admitted(breaker, c) /\ call' = [call EXCEPT ![c] = now]
    BY <1>4 DEF Enter
  <2>2. /\ breaker' \in Breakers /\ breaker'.current = breaker.current \cup {c}
        /\ IsFiniteSet(breaker'.current) /\ ProbesCounted(breaker')
    BY <1>1, <1>2, <1>4, <2>1, AdmittedCounts
  <2>3. now \in Calls /\ now.pc = "waiting" /\ now.result = None
    BY DEF Calls
  <2>4. \A d \in Callers : call'[d] = IF d = c THEN now ELSE call[d]
    BY <1>2, <2>1
  <2>5. TypeOK'
    BY <1>1, <1>2, <2>1, <2>2, <2>3 DEF IInv, TypeOK
  <2>6. WellPlaced'
    BY <2>2, <2>4, OutcomesDistinct DEF IInv, WellPlaced, Callers
  <2>7. OneCallInRepo'
    BY <1>1, <2>3, <2>4 DEF IInv, OneCallInRepo
  <2>8. CurrentIsUnderWay'
    BY <1>2, <2>2, <2>3, <2>4, OutcomesDistinct DEF IInv, CurrentIsUnderWay, Breakers
  <2> QED BY <1>3, <2>2, <2>5, <2>6, <2>7, <2>8 DEF IInv
<1>5. CASE ~Admits(breaker)
  <2> DEFINE now == [pc |-> "returning", order |-> o, version |-> v, result |-> Rejected]
  <2>1. breaker' = breaker /\ call' = [call EXCEPT ![c] = now]
    BY <1>5 DEF Enter
  <2>2. now \in Calls /\ now.pc = "returning" /\ now.result = Rejected
    BY DEF Calls
  <2>3. \A d \in Callers : call'[d] = IF d = c THEN now ELSE call[d]
    BY <1>2, <2>1
  <2>4. TypeOK'
    BY <1>1, <1>2, <2>1, <2>2 DEF IInv, TypeOK
  <2>5. WellPlaced'
    BY <1>2, <2>1, <2>3, OutcomesDistinct DEF IInv, WellPlaced, Callers
  <2>6. OneCallInRepo'
    BY <1>1, <2>2, <2>3 DEF IInv, OneCallInRepo
  <2>7. CurrentIsUnderWay'
    BY <1>1, <1>2, <2>1, <2>3 DEF IInv, CurrentIsUnderWay, Breakers
  <2> QED BY <1>2, <1>3, <2>1, <2>4, <2>5, <2>6, <2>7 DEF IInv
<1> QED BY <1>4, <1>5

LEMMA LockSetKeepsIInv ==
  ASSUME IInv, NEW w \in Writers, LockSet(w)
  PROVE  IInv'
<1>1. /\ w \in Callers /\ call[w].pc = "waiting" /\ mu = None /\ mu' = w
      /\ call' = [call EXCEPT ![w].pc = "inRepo"]
      /\ UNCHANGED <<repo, cache, breaker, lastSet, unsaved>>
  BY DEF LockSet, Callers
<1>2. call \in [Callers -> Calls]
  BY DEF IInv, TypeOK
<1>3. \A d \in Callers : call'[d] = IF d = w THEN [call[w] EXCEPT !.pc = "inRepo"]
                                   ELSE call[d]
  BY <1>1, <1>2
<1>4. /\ call'[w] \in Calls /\ call'[w].pc = "inRepo" /\ call'[w].order = call[w].order
      /\ call'[w].version = call[w].version /\ call'[w].result = call[w].result
  BY <1>1, <1>2, <1>3 DEF Calls
<1>5. TypeOK'
  BY <1>1, <1>2, <1>3, <1>4 DEF IInv, TypeOK
<1>6. WellPlaced'
  BY <1>1, <1>3, <1>4 DEF IInv, WellPlaced, Callers
<1>7. OneCallInRepo'
  BY <1>1, <1>3, <1>4, ActorsDistinct DEF IInv, OneCallInRepo, Callers
<1>8. CurrentIsUnderWay'
  BY <1>1, <1>3, <1>4 DEF IInv, CurrentIsUnderWay, TypeOK, Breakers
<1> QED BY <1>1, <1>5, <1>6, <1>7, <1>8
        DEF IInv, CacheIsCurrent, CachedIsStoredOrReported

LEMMA LockGetKeepsIInv ==
  ASSUME IInv, NEW r \in Readers, LockGet(r)
  PROVE  IInv'
<1> DEFINE o == call[r].order
<1>1. /\ r \in Callers /\ r \notin Writers /\ call[r].pc = "waiting" /\ mu = None
      /\ UNCHANGED <<repo, cache, breaker, lastSet, unsaved>>
  BY ActorsDistinct DEF LockGet, Callers
<1>2. call \in [Callers -> Calls] /\ o \in Orders /\ call[r].result = None
  BY <1>1 DEF IInv, TypeOK, WellPlaced
<1>3. CASE cache[o] # None
  <2>1. /\ call' = [call EXCEPT ![r].pc = "returning", ![r].result = cache[o]]
        /\ mu' = mu
    BY <1>3 DEF LockGet
  <2>2. cache[o] \in Entries
    BY <1>2, <1>3 DEF IInv, TypeOK
  <2>3. \A d \in Callers :
          call'[d] = IF d = r
                     THEN [call[r] EXCEPT !.pc = "returning", !.result = cache[o]]
                     ELSE call[d]
    BY <1>2, <2>1
  <2>4. /\ call'[r] \in Calls /\ call'[r].pc = "returning" /\ call'[r].order = o
        /\ call'[r].result = cache[o]
    BY <1>1, <1>2, <2>2, <2>3 DEF Calls
  <2>5. TypeOK'
    BY <1>1, <1>2, <2>1, <2>3, <2>4 DEF IInv, TypeOK
  <2>6. WellPlaced'
    BY <1>1, <1>2, <2>3, <2>4 DEF IInv, WellPlaced, Callers
  <2>7. OneCallInRepo'
    BY <1>1, <2>1, <2>3, <2>4 DEF IInv, OneCallInRepo
  <2>8. CurrentIsUnderWay'
    BY <1>1, <2>2, <2>3, <2>4, OutcomesDistinct
    DEF IInv, CurrentIsUnderWay, TypeOK, Breakers
  <2> QED BY <1>1, <2>5, <2>6, <2>7, <2>8
          DEF IInv, CacheIsCurrent, CachedIsStoredOrReported
<1>4. CASE cache[o] = None
  <2>1. call' = [call EXCEPT ![r].pc = "inRepo"] /\ mu' = r
    BY <1>4 DEF LockGet
  <2>2. \A d \in Callers : call'[d] = IF d = r THEN [call[r] EXCEPT !.pc = "inRepo"]
                                     ELSE call[d]
    BY <1>2, <2>1
  <2>3. /\ call'[r] \in Calls /\ call'[r].pc = "inRepo" /\ call'[r].order = o
        /\ call'[r].result = call[r].result
    BY <1>1, <1>2, <2>2 DEF Calls
  <2>4. TypeOK'
    BY <1>1, <1>2, <2>1, <2>2, <2>3 DEF IInv, TypeOK
  <2>5. WellPlaced'
    BY <1>1, <1>2, <2>2, <2>3 DEF IInv, WellPlaced, Callers
  <2>6. OneCallInRepo'
    BY <1>1, <2>1, <2>2, <2>3, ActorsDistinct DEF IInv, OneCallInRepo, Callers
  <2>7. CurrentIsUnderWay'
    BY <1>1, <2>2, <2>3 DEF IInv, CurrentIsUnderWay, TypeOK, Breakers
  <2> QED BY <1>1, <2>4, <2>5, <2>6, <2>7
          DEF IInv, CacheIsCurrent, CachedIsStoredOrReported
<1> QED BY <1>3, <1>4

LEMMA SetReturnsKeepsIInv ==
  ASSUME IInv, NEW w \in Writers, SetReturns(w)
  PROVE  IInv'
<1> DEFINE o == call[w].order
           v == call[w].version
<1>1. /\ w \in Callers /\ call[w].pc = "inRepo" /\ mu' = None
      /\ call' = [call EXCEPT ![w].pc = "returning", ![w].result = Ok]
      /\ cache' \in Promise!AfterSet(cache, o, Whole(v))
      /\ lastSet' = [lastSet EXCEPT ![o] = v]
      /\ UNCHANGED breaker
  BY DEF SetReturns, AfterCaching, Callers
<1>2. /\ call \in [Callers -> Calls] /\ o \in Orders /\ v \in Versions /\ mu = w
      /\ repo \in [Orders -> Versions \cup {None}]
      /\ cache \in [Orders -> Entries \cup {None}]
      /\ lastSet \in [Orders -> Versions \cup {None}]
      /\ unsaved \subseteq Orders
  BY <1>1 DEF IInv, TypeOK, WellPlaced, OneCallInRepo
<1>3. PICK committed \in BOOLEAN, failed \in BOOLEAN : SaveOrder(o, v, committed, failed)
  BY DEF SetReturns
<1>4. /\ repo' = IF committed /\ repo[o] = None THEN [repo EXCEPT ![o] = v] ELSE repo
      /\ unsaved' = IF failed THEN unsaved \cup {o} ELSE unsaved
      /\ failed \/ committed
  BY <1>3 DEF SaveOrder
<1>5. /\ repo' \in [Orders -> Versions \cup {None}] /\ unsaved' \subseteq Orders
      /\ \A p \in Orders \ {o} : repo'[p] = repo[p]
      /\ repo'[o] # None \/ o \in unsaved'
      /\ unsaved \subseteq unsaved'
      /\ \A p \in Orders : repo'[p] = None => repo[p] = None
  BY <1>2, <1>4, ActorsDistinct
<1>6. Whole(v) \in Entries
  BY <1>2 DEF Whole, Entries
<1>7. /\ cache' \in [Orders -> Entries \cup {None}] /\ cache'[o] = Whole(v)
      /\ \A p \in Orders \ {o} : cache'[p] # None => cache'[p] = cache[p]
  BY <1>1, <1>2, <1>6, AfterSetEntries
<1>8. /\ lastSet' \in [Orders -> Versions \cup {None}] /\ lastSet'[o] = v /\ v # None
      /\ \A p \in Orders \ {o} : lastSet'[p] = lastSet[p]
  BY <1>1, <1>2, ActorsDistinct
<1>9. \A d \in Callers :
        call'[d] = IF d = w THEN [call[w] EXCEPT !.pc = "returning", !.result = Ok]
                   ELSE call[d]
  BY <1>1, <1>2
<1>10. /\ call'[w] \in Calls /\ call'[w].pc = "returning" /\ call'[w].order = o
       /\ call'[w].version = v /\ call'[w].result = Ok
  BY <1>1, <1>2, <1>9 DEF Calls
<1>11. TypeOK'
  BY <1>1, <1>2, <1>5, <1>7, <1>8, <1>9, <1>10 DEF IInv, TypeOK
<1>12. WellPlaced'
  BY <1>1, <1>2, <1>9, <1>10, OutcomesDistinct DEF IInv, WellPlaced, Callers
<1>13. OneCallInRepo'
  BY <1>1, <1>2, <1>9, <1>10, ActorsDistinct DEF IInv, OneCallInRepo, Callers
<1>14. CurrentIsUnderWay'
  BY <1>1, <1>9, <1>10, OutcomesDistinct DEF IInv, CurrentIsUnderWay, TypeOK, Breakers
<1>15. CacheIsCurrent'
  <2> SUFFICES ASSUME NEW p \in Orders, cache'[p] # None
               PROVE  cache'[p] = IF lastSet'[p] # None THEN Whole(lastSet'[p])
                                  ELSE Header(repo'[p])
    BY DEF CacheIsCurrent
  <2>1. CASE p = o
    BY <2>1, <1>7, <1>8
  <2>2. CASE p # o
    <3>1. cache[p] = IF lastSet[p] # None THEN Whole(lastSet[p]) ELSE Header(repo[p])
      BY <2>2, <1>7 DEF IInv, CacheIsCurrent
    <3> QED BY <2>2, <3>1, <1>5, <1>7, <1>8
  <2> QED BY <2>1, <2>2
<1>16. CachedIsStoredOrReported'
  BY <1>5, <1>7 DEF IInv, CachedIsStoredOrReported
<1> QED BY <1>1, <1>11, <1>12, <1>13, <1>14, <1>15, <1>16 DEF IInv

\* No read of the repository succeeds: nothing but the goroutine and the mutex moves.
LEMMA GetReturnsKeepsIInv ==
  ASSUME IInv, NEW r \in Readers, GetReturns(r)
  PROVE  IInv'
<1>1. RepoGetOrder(call[r].order) = Error /\ Error \notin Entries
  BY OutcomesDistinct DEF RepoGetOrder, Arguments, Placeholders
<1>2. /\ r \in Callers /\ r \notin Writers /\ call[r].pc = "inRepo" /\ mu' = None
      /\ call' = [call EXCEPT ![r].pc = "returning", ![r].result = Error]
      /\ UNCHANGED <<repo, cache, breaker, lastSet, unsaved>>
  BY <1>1, ActorsDistinct DEF GetReturns, Callers
<1>3. call \in [Callers -> Calls] /\ call[r].order \in Orders /\ mu = r
  BY <1>2 DEF IInv, TypeOK, WellPlaced, OneCallInRepo
<1>4. \A d \in Callers :
        call'[d] = IF d = r THEN [call[r] EXCEPT !.pc = "returning", !.result = Error]
                   ELSE call[d]
  BY <1>2, <1>3
<1>5. /\ call'[r] \in Calls /\ call'[r].pc = "returning"
      /\ call'[r].order = call[r].order /\ call'[r].result = Error
  BY <1>2, <1>3, <1>4 DEF Calls
<1>6. TypeOK'
  BY <1>2, <1>3, <1>4, <1>5 DEF IInv, TypeOK
<1>7. WellPlaced'
  BY <1>2, <1>3, <1>4, <1>5 DEF IInv, WellPlaced, Callers
<1>8. OneCallInRepo'
  BY <1>2, <1>3, <1>4, <1>5, ActorsDistinct DEF IInv, OneCallInRepo, Callers
<1>9. CurrentIsUnderWay'
  BY <1>2, <1>4, <1>5, OutcomesDistinct DEF IInv, CurrentIsUnderWay, TypeOK, Breakers
<1> QED BY <1>2, <1>6, <1>7, <1>8, <1>9
        DEF IInv, CacheIsCurrent, CachedIsStoredOrReported

LEMMA ReturnKeepsIInv ==
  ASSUME IInv, NEW c \in Callers, Return(c)
  PROVE  IInv'
<1>1. /\ call[c].pc = "returning" /\ call' = [call EXCEPT ![c] = Idle]
      /\ breaker' = Recorded(breaker, c, call[c].result # Error)
      /\ UNCHANGED <<repo, cache, mu, lastSet, unsaved>>
  BY DEF Return
<1>2. /\ breaker \in Breakers /\ IsFiniteSet(breaker.current) /\ ProbesCounted(breaker)
      /\ call \in [Callers -> Calls]
  BY DEF IInv, TypeOK, WellPlaced
<1>3. /\ breaker' \in Breakers /\ breaker'.current \subseteq breaker.current \ {c}
      /\ IsFiniteSet(breaker'.current) /\ ProbesCounted(breaker')
  BY <1>1, <1>2, RecordedCounts
<1>4. \A d \in Callers : call'[d] = IF d = c THEN Idle ELSE call[d]
  BY <1>1, <1>2
<1>5. Idle \in Calls /\ Idle.pc = "idle" /\ Idle.result = None
  BY DEF Idle, Calls
<1>6. TypeOK'
  BY <1>1, <1>2, <1>3, <1>5 DEF IInv, TypeOK
<1>7. WellPlaced'
  BY <1>3, <1>4, <1>5, OutcomesDistinct DEF IInv, WellPlaced, Callers
<1>8. OneCallInRepo'
  BY <1>1, <1>4, <1>5 DEF IInv, OneCallInRepo
<1>9. CurrentIsUnderWay'
  BY <1>2, <1>3, <1>4 DEF IInv, CurrentIsUnderWay, Breakers
<1> QED BY <1>1, <1>3, <1>6, <1>7, <1>8, <1>9
        DEF IInv, CacheIsCurrent, CachedIsStoredOrReported

\* An entry dropped from the cache leaves nothing that could be out of date.
LEMMA DropKeepsIInv ==
  ASSUME IInv, FlushCache \/ \E o \in Orders : DeleteCache(o)
  PROVE  IInv'
<1>1. /\ UNCHANGED <<repo, mu, breaker, call, lastSet, unsaved>>
      /\ cache \in [Orders -> Entries \cup {None}]
  BY DEF FlushCache, DeleteCache, IInv, TypeOK
<1>2. /\ cache' \in [Orders -> Entries \cup {None}]
      /\ \A o \in Orders : cache'[o] # None => cache'[o] = cache[o]
  BY <1>1 DEF FlushCache, DeleteCache
<1>3. TypeOK' /\ WellPlaced' /\ OneCallInRepo'
  BY <1>1, <1>2 DEF IInv, TypeOK, WellPlaced, OneCallInRepo
<1>4. ProbesCounted(breaker)' /\ CurrentIsUnderWay'
  BY <1>1 DEF IInv, ProbesCounted, CurrentIsUnderWay
<1>5. CacheIsCurrent' /\ CachedIsStoredOrReported'
  BY <1>1, <1>2 DEF IInv, CacheIsCurrent, CachedIsStoredOrReported
<1> QED BY <1>3, <1>4, <1>5 DEF IInv

LEMMA BreakerClockKeepsIInv == ASSUME IInv, BreakerClock PROVE IInv'
<1>1. UNCHANGED <<repo, cache, mu, call, lastSet, unsaved>> /\ breaker' = Expired(breaker)
  BY DEF BreakerClock
<1>2. /\ breaker' \in Breakers /\ breaker'.current = {} /\ IsFiniteSet(breaker'.current)
      /\ ProbesCounted(breaker')
  BY <1>1, NewGeneration DEF Expired, States
<1>3. TypeOK' /\ WellPlaced' /\ CurrentIsUnderWay'
  BY <1>1, <1>2 DEF IInv, TypeOK, WellPlaced, CurrentIsUnderWay
<1> QED BY <1>1, <1>2, <1>3
        DEF IInv, OneCallInRepo, CacheIsCurrent, CachedIsStoredOrReported

LEMMA NextIInv == IInv /\ [Next]_vars => IInv'
<1> SUFFICES ASSUME IInv, [Next]_vars PROVE IInv'
  OBVIOUS
<1>1. ASSUME NEW w \in Writers, NEW o \in Orders, NEW v \in Versions,
             ProcessOrder(w, o, v)
      PROVE  IInv'
  BY <1>1, EnterKeepsIInv DEF ProcessOrder, Callers
<1>2. ASSUME NEW r \in Readers, NEW o \in Orders, GetOrder(r, o) PROVE IInv'
  <2>1. r \in Callers /\ r \notin Writers
    BY ActorsDistinct DEF Callers
  <2> QED BY <1>2, <2>1, EnterKeepsIInv DEF GetOrder
<1>3. ASSUME NEW w \in Writers, LockSet(w) \/ SetReturns(w) PROVE IInv'
  BY <1>3, LockSetKeepsIInv, SetReturnsKeepsIInv
<1>4. ASSUME NEW r \in Readers, LockGet(r) \/ GetReturns(r) PROVE IInv'
  BY <1>4, LockGetKeepsIInv, GetReturnsKeepsIInv
<1>5. ASSUME NEW c \in Callers, Return(c) PROVE IInv'
  BY <1>5, ReturnKeepsIInv
<1>6. CASE BreakerClock
  BY <1>6, BreakerClockKeepsIInv
<1>7. CASE Restart
  BY <1>7, RestartKeepsIInv
<1>8. CASE UNCHANGED vars
  BY <1>8 DEF vars, IInv, TypeOK, WellPlaced, OneCallInRepo, CurrentIsUnderWay,
              CacheIsCurrent, CachedIsStoredOrReported
<1>9. CASE FlushCache \/ \E o \in Orders : DeleteCache(o)
  BY <1>9, DropKeepsIInv
<1> QED BY <1>1, <1>2, <1>3, <1>4, <1>5, <1>6, <1>7, <1>8, <1>9 DEF Next

\* The inductive invariant holds throughout.
THEOREM Inductive == Spec => []IInv
BY InitIInv, NextIInv, PTL DEF Spec

-----------------------------------------------------------------------------
\* Every variable keeps its type.
THEOREM TypeCorrect == Spec => []TypeOK
<1>1. IInv => TypeOK
  BY DEF IInv
<1> QED BY <1>1, Inductive, PTL

\* The cache holds what was consumed last, or the header read at startup.
THEOREM CacheStaysCurrent == Spec => []CacheIsCurrent
<1>1. IInv => CacheIsCurrent
  BY DEF IInv
<1> QED BY <1>1, Inductive, PTL

\* The cache runs ahead of the database only where a failed save was reported.
THEOREM CacheNeverSilentlyAhead == Spec => []CachedIsStoredOrReported
<1>1. IInv => CachedIsStoredOrReported
  BY DEF IInv
<1> QED BY <1>1, Inductive, PTL

\* The manager's mutex serialises all database work of the process.
THEOREM RepoIsSerial == Spec => []OneCallInRepo
<1>1. IInv => OneCallInRepo
  BY DEF IInv
<1> QED BY <1>1, Inductive, PTL

\* The breaker's counts never include a call that has returned.
THEOREM CountsAreCurrent == Spec => []CurrentIsUnderWay
<1>1. IInv => CurrentIsUnderWay
  BY DEF IInv
<1> QED BY <1>1, Inductive, PTL

\* A half-open breaker at its quota always has a probe under way.
THEOREM HalfOpenNeverStuck == Spec => []HalfOpenNotStuck
<1>1. IInv => HalfOpenNotStuck
  <2> SUFFICES ASSUME IInv, breaker.state = "half-open", ~Admits(breaker)
               PROVE  \E c \in breaker.current : call[c].pc # "idle"
    BY DEF HalfOpenNotStuck
  <2>1. breaker.current # {}
    BY QuotaMeansProbe DEF IInv, TypeOK, WellPlaced
  <2> QED BY <2>1 DEF IInv, CurrentIsUnderWay
<1> QED BY <1>1, Inductive, PTL

\* Only a failed read opens the closed breaker.
THEOREM ReadsAloneTrip == Spec => OnlyReadsTrip
<1> DEFINE A == breaker.state = "closed" /\ breaker'.state = "open"
                  => \E r \in Readers : call[r].result = Error /\ call'[r] = Idle
<1>1. IInv /\ [Next]_vars => [A]_vars
  <2> SUFFICES ASSUME IInv, Next, breaker.state = "closed", breaker'.state = "open"
               PROVE  \E r \in Readers : call[r].result = Error /\ call'[r] = Idle
    OBVIOUS
  <2>1. /\ breaker \in Breakers /\ IsFiniteSet(breaker.current)
        /\ ProbesCounted(breaker) /\ call \in [Callers -> Calls]
    BY DEF IInv, TypeOK, WellPlaced
  <2>2. ASSUME NEW c \in Callers, NEW o \in Orders, NEW v \in Versions \cup {None},
               Enter(c, o, v)
        PROVE  FALSE
    <3>1. CASE Admits(breaker)
      <4>1. breaker' = Admitted(breaker, c) /\ c \notin breaker.current
        BY <2>2, <3>1 DEF Enter, IInv, CurrentIsUnderWay
      <4> QED BY <4>1, <3>1, <2>1, AdmittedCounts
    <3>2. CASE ~Admits(breaker)
      BY <2>2, <3>2 DEF Enter
    <3> QED BY <3>1, <3>2
  <2>3. ASSUME NEW c \in Callers, Return(c)
        PROVE  \E r \in Readers : call[r].result = Error /\ call'[r] = Idle
    <3>1. breaker' = Recorded(breaker, c, call[c].result # Error) /\ call'[c] = Idle
      BY <2>3, <2>1 DEF Return
    <3>2. call[c].result = Error
      BY <3>1, <2>1, RecordedCounts
    <3>3. c \in Readers
      BY <3>2 DEF IInv, WellPlaced, Callers
    <3> QED BY <3>1, <3>2, <3>3
  <2>4. CASE BreakerClock
    BY <2>4 DEF BreakerClock, Expired, Generation
  <2>5. CASE Restart
    BY <2>5 DEF Restart, Generation
  <2>6. ASSUME NEW w \in Writers, LockSet(w) \/ SetReturns(w) PROVE FALSE
    BY <2>6 DEF LockSet, SetReturns
  <2>7. ASSUME NEW r \in Readers, LockGet(r) \/ GetReturns(r) PROVE FALSE
    BY <2>7 DEF LockGet, GetReturns
  <2>8. ASSUME FlushCache \/ \E o \in Orders : DeleteCache(o) PROVE FALSE
    BY <2>8 DEF FlushCache, DeleteCache
  <2> QED BY <2>2, <2>3, <2>4, <2>5, <2>6, <2>7, <2>8
          DEF Next, ProcessOrder, GetOrder, Callers
<1> QED BY <1>1, Inductive, PTL DEF Spec, OnlyReadsTrip
-----------------------------------------------------------------------------
\* A read that waits for the database found its order absent, and nobody has put
\* it into the cache since: the mutex is its own.
MissStands ==
  \A r \in Readers : call[r].pc = "inRepo" => cache[call[r].order] = None

\* A step that moves one goroutine elsewhere than into the repository.
LEMMA MissStandsElsewhere ==
  ASSUME MissStands, NEW c \in Callers, UNCHANGED cache,
         \A d \in Callers \ {c} : call'[d] = call[d],
         call'[c].pc # "inRepo" \/ c \notin Readers
  PROVE  MissStands'
BY DEF MissStands, Callers

LEMMA MissStandsStep == IInv /\ MissStands /\ [Next]_vars => MissStands'
<1> SUFFICES ASSUME IInv, MissStands, [Next]_vars PROVE MissStands'
  OBVIOUS
<1>1. /\ call \in [Callers -> Calls] /\ \A r \in Readers : r \in Callers /\ r \notin Writers
      /\ \A w \in Writers : w \in Callers
  BY ActorsDistinct DEF IInv, TypeOK, Callers
<1>2. ASSUME NEW c \in Callers, NEW o, NEW v, Enter(c, o, v) PROVE MissStands'
  <2>1. /\ UNCHANGED cache /\ \A d \in Callers \ {c} : call'[d] = call[d]
        /\ call'[c].pc # "inRepo"
    <3>1. CASE Admits(breaker)
      BY <1>1, <1>2, <3>1 DEF Enter
    <3>2. CASE ~Admits(breaker)
      BY <1>1, <1>2, <3>2 DEF Enter
    <3> QED BY <3>1, <3>2
  <2> QED BY <2>1, MissStandsElsewhere
<1>3. ASSUME NEW w \in Writers, LockSet(w) PROVE MissStands'
  <2>1. UNCHANGED cache /\ \A d \in Callers \ {w} : call'[d] = call[d]
    BY <1>1, <1>3 DEF LockSet
  <2> QED BY <1>1, <2>1, MissStandsElsewhere
<1>4. ASSUME NEW w \in Writers, SetReturns(w) PROVE MissStands'
  <2>1. /\ call[w].pc = "inRepo" /\ call'[w].pc = "returning"
        /\ \A d \in Callers \ {w} : call'[d] = call[d]
    BY <1>1, <1>4 DEF SetReturns, Calls
  <2>2. \A d \in Callers \ {w} : call[d].pc # "inRepo"
    BY <1>1, <2>1 DEF IInv, OneCallInRepo
  <2> QED BY <1>1, <2>1, <2>2 DEF MissStands
<1>5. ASSUME NEW r \in Readers, LockGet(r) PROVE MissStands'
  <2>1. r \in Callers /\ UNCHANGED cache /\ \A d \in Callers \ {r} : call'[d] = call[d]
    BY <1>1, <1>5 DEF LockGet
  <2>2. CASE cache[call[r].order] # None
    <3>1. call'[r].pc = "returning"
      BY <1>1, <1>5, <2>2 DEF LockGet, Calls
    <3> QED BY <2>1, <3>1, MissStandsElsewhere
  <2>3. CASE cache[call[r].order] = None
    <3>1. call'[r].order = call[r].order
      BY <1>1, <1>5, <2>3 DEF LockGet, Calls
    <3> QED BY <1>1, <2>1, <2>3, <3>1 DEF MissStands
  <2> QED BY <2>2, <2>3
<1>6. ASSUME NEW r \in Readers, GetReturns(r) PROVE MissStands'
  <2>1. /\ UNCHANGED cache /\ call'[r].pc = "returning"
        /\ \A d \in Callers \ {r} : call'[d] = call[d]
    <3>1. RepoGetOrder(call[r].order) = Error /\ Error \notin Entries
      BY OutcomesDistinct DEF RepoGetOrder, Arguments, Placeholders
    <3> QED BY <1>1, <1>6, <3>1 DEF GetReturns, Calls
  <2> QED BY <1>1, <2>1, MissStandsElsewhere
<1>7. ASSUME NEW c \in Callers, Return(c) PROVE MissStands'
  <2>1. /\ UNCHANGED cache /\ call'[c].pc # "inRepo"
        /\ \A d \in Callers \ {c} : call'[d] = call[d]
    BY <1>1, <1>7 DEF Return, Idle
  <2> QED BY <2>1, MissStandsElsewhere
<1>8. CASE FlushCache \/ \E o \in Orders : DeleteCache(o)
  <2>1. mu = None /\ UNCHANGED call
    BY <1>8 DEF FlushCache, DeleteCache
  <2>2. \A c \in Callers : call[c].pc # "inRepo"
    BY <2>1, ActorsDistinct DEF IInv, OneCallInRepo, Callers
  <2> QED BY <1>1, <2>1, <2>2 DEF MissStands
<1>9. CASE Restart
  BY <1>1, <1>9 DEF Restart, MissStands, Idle
<1>10. CASE BreakerClock \/ UNCHANGED vars
  BY <1>10 DEF BreakerClock, vars, MissStands
<1> QED BY <1>1, <1>2, <1>3, <1>4, <1>5, <1>6, <1>7, <1>8, <1>9, <1>10
        DEF Next, ProcessOrder, GetOrder
\* AtomicService's call of a goroutine that is where `now` says.
CallOf(now) == [pc |-> Phase(now.pc), order |-> now.order, version |-> now.version,
                result |-> now.result]

pended == [c \in Callers |-> CallOf(call[c])]

\* A step that moves one goroutine moves one call of AtomicService, or none.
LEMMA OneCallMoves ==
  ASSUME NEW c \in Callers, NEW now, call \in [Callers -> Calls],
         call' = [call EXCEPT ![c] = now]
  PROVE  pended' = [pended EXCEPT ![c] = CallOf(now)]
<1>1. \A d \in Callers : call'[d] = IF d = c THEN now ELSE call[d]
  OBVIOUS
<1>2. pended' = [d \in Callers |-> CallOf(call'[d])]
  BY DEF pended, CallOf
<1>3. pended' = [d \in Callers |-> IF d = c THEN CallOf(now) ELSE CallOf(call[d])]
  <2> HIDE DEF CallOf
  <2> QED BY <1>1, <1>2
<1> QED BY <1>3 DEF pended

\* A call is answered with a result: the moment of its effect.
LEMMA CallIsAnswered ==
  ASSUME NEW c \in Callers, NEW result, call \in [Callers -> Calls],
         call[c].pc \in {"waiting", "inRepo"},
         call' = [call EXCEPT ![c].pc = "returning", ![c].result = result]
  PROVE  /\ pended[c].pc = "called" /\ pended[c].order = call[c].order
         /\ pended[c].version = call[c].version
         /\ pended' = [pended EXCEPT ![c] =
                         [@ EXCEPT !.pc = "answered", !.result = result]]
<1> DEFINE now == [pc |-> "returning", order |-> call[c].order,
                   version |-> call[c].version, result |-> result]
           after == [pc |-> "answered", order |-> call[c].order,
                     version |-> call[c].version, result |-> result]
<1>1. call' = [call EXCEPT ![c] = now]
  <2>1. ASSUME NEW d, d = [call[c] EXCEPT !.pc = "returning", !.result = result]
        PROVE  d = now
    <3>1. call[c] \in Calls
      OBVIOUS
    <3> QED BY <2>1, <3>1 DEF Calls
  <2>2. call' = [call EXCEPT ![c] = [call[c] EXCEPT !.pc = "returning", !.result = result]]
    BY DEF Calls
  <2> HIDE DEF now
  <2> QED BY <2>1, <2>2
<1>2. pended' = [pended EXCEPT ![c] = CallOf(now)]
  <2> HIDE DEF now
  <2> QED BY <1>1, OneCallMoves
<1>3. CallOf(now) = after
  BY DEF CallOf, Phase
<1>4. pended[c] = [pc |-> "called", order |-> call[c].order,
                   version |-> call[c].version, result |-> call[c].result]
  <2>1. Phase(call[c].pc) = "called"
    BY DEF Phase
  <2> QED BY <2>1 DEF pended, CallOf
<1>5. [pended[c] EXCEPT !.pc = "answered", !.result = result] = after
  <2> DEFINE called == [pc |-> "called", order |-> call[c].order,
                        version |-> call[c].version, result |-> call[c].result]
  <2>1. ASSUME NEW d, d = [called EXCEPT !.pc = "answered", !.result = result]
        PROVE  d = after
    BY <2>1
  <2>2. pended[c] = called
    BY <1>4
  <2> HIDE DEF pended, called, after
  <2> QED BY <2>1, <2>2
<1>6. /\ pended[c].pc = "called" /\ pended[c].order = call[c].order
      /\ pended[c].version = call[c].version
  <2> HIDE DEF pended
  <2> QED BY <1>4
<1> QED
  <2> HIDE DEF pended, now, after
  <2> QED BY <1>2, <1>3, <1>5, <1>6

\* A call that takes the mutex, or misses the cache, has had no effect yet.
LEMMA LockingStutters ==
  ASSUME NEW c \in Callers, call \in [Callers -> Calls], call[c].pc = "waiting",
         call' = [call EXCEPT ![c].pc = "inRepo"]
  PROVE  UNCHANGED pended
<1>1. CallOf(call'[c]) = CallOf(call[c])
  BY DEF CallOf, Phase, Calls
<1>2. \A d \in Callers \ {c} : call'[d] = call[d]
  OBVIOUS
<1>3. \A d \in Callers : CallOf(call'[d]) = CallOf(call[d])
  <2> HIDE DEF CallOf
  <2> QED BY <1>1, <1>2
<1> QED BY <1>3 DEF pended, CallOf

\* The steps of AtomicService, said of pended.
LEMMA AtomicSteps ==
  /\ UNCHANGED <<repo, cache, pended>> => UNCHANGED Atomic!serviceVars
  /\ \A c \in Callers : \A o, v :
       /\ pended[c].pc = "idle" /\ UNCHANGED <<repo, cache>>
       /\ \/ pended' = [pended EXCEPT ![c] = [pc |-> "called", order |-> o,
                                              version |-> v, result |-> None]]
          \/ pended' = [pended EXCEPT ![c] = [pc |-> "answered", order |-> o,
                                              version |-> v, result |-> Rejected]]
       => Atomic!Begin(c, o, v)
  /\ \A c \in Callers : \A result :
       /\ pended[c].pc = "called"
       /\ pended' = [pended EXCEPT ![c] = [@ EXCEPT !.pc = "answered", !.result = result]]
       => Atomic!Answers(c, result)
  /\ \A c \in Callers :
       /\ pended[c].pc = "answered" /\ pended' = [pended EXCEPT ![c] = Idle]
       /\ UNCHANGED <<repo, cache>>
       => Atomic!End(c)
<1>1. UNCHANGED <<repo, cache, pended>> => UNCHANGED Atomic!serviceVars
  BY DEF Atomic!serviceVars, pended, CallOf
<1>2. ASSUME NEW c \in Callers, NEW o, NEW v,
             pended[c].pc = "idle", UNCHANGED <<repo, cache>>,
             \/ pended' = [pended EXCEPT ![c] = [pc |-> "called", order |-> o,
                                                 version |-> v, result |-> None]]
             \/ pended' = [pended EXCEPT ![c] = [pc |-> "answered", order |-> o,
                                                 version |-> v, result |-> Rejected]]
      PROVE  Atomic!Begin(c, o, v)
  BY <1>2, Zenon DEF Atomic!Begin, Atomic!Begins, pended, CallOf
<1>3. ASSUME NEW c \in Callers, NEW result, pended[c].pc = "called",
             pended' = [pended EXCEPT ![c] =
                          [@ EXCEPT !.pc = "answered", !.result = result]]
      PROVE  Atomic!Answers(c, result)
  BY <1>3, Zenon DEF Atomic!Answers, pended, CallOf
<1>4. ASSUME NEW c \in Callers, pended[c].pc = "answered",
             pended' = [pended EXCEPT ![c] = Idle], UNCHANGED <<repo, cache>>
      PROVE  Atomic!End(c)
  BY <1>4, Zenon DEF Atomic!End, Atomic!NoCall, Idle, pended, CallOf
<1> QED BY <1>1, <1>2, <1>3, <1>4
\* A read is answered with what is cached at that moment.
LEMMA ReadStep ==
  ASSUME NEW r \in Readers, NEW result, call \in [Callers -> Calls],
         call[r].pc \in {"waiting", "inRepo"}, UNCHANGED <<repo, cache>>,
         call' = [call EXCEPT ![r].pc = "returning", ![r].result = result],
         result = IF cache[call[r].order] # None THEN cache[call[r].order] ELSE Error
  PROVE  Atomic!Read(r)
<1> DEFINE e == cache[pended[r].order]
<1>1. /\ pended[r].pc = "called" /\ pended[r].order = call[r].order
      /\ pended' = [pended EXCEPT ![r] = [@ EXCEPT !.pc = "answered", !.result = result]]
  BY CallIsAnswered DEF Callers
<1>2. result = IF e # None THEN e ELSE Error
  <2> HIDE DEF pended
  <2> QED BY <1>1
<1>3. pended' = [pended EXCEPT ![r] = [@ EXCEPT !.pc = "answered",
                                           !.result = IF e # None THEN e ELSE Error]]
  <2> HIDE DEF pended, e
  <2> QED BY <1>1, <1>2
<1> QED BY <1>1, <1>3, Zenon DEF Atomic!Read, Atomic!Answers, pended, CallOf

\* What every step is to AtomicService.
LEMMA ServiceSteps ==
  ASSUME IInv, MissStands, [Next]_vars
  PROVE  [Atomic!ServiceNext]_(Atomic!serviceVars)
<1>1. /\ call \in [Callers -> Calls] /\ \A r \in Readers : r \in Callers
      /\ \A w \in Writers : w \in Callers
      /\ repo \in [Orders -> Versions \cup {None}]
      /\ cache \in [Orders -> Entries \cup {None}]
  BY DEF IInv, TypeOK, Callers
<1>2. ASSUME NEW c \in Callers, NEW o, NEW v, Enter(c, o, v) PROVE Atomic!Begin(c, o, v)
  <2> DEFINE Now(pc, result) == [pc |-> pc, order |-> o, version |-> v, result |-> result]
  <2>1. call[c].pc = "idle" /\ pended[c].pc = "idle" /\ UNCHANGED <<repo, cache>>
    BY <1>2 DEF Enter, pended, CallOf, Phase
  <2>2. CASE Admits(breaker)
    <3>1. call' = [call EXCEPT ![c] = Now("waiting", None)]
      BY <1>2, <2>2 DEF Enter
    <3>2. CallOf(Now("waiting", None)) = Now("called", None)
      BY DEF CallOf, Phase
    <3>3. pended' = [pended EXCEPT ![c] = CallOf(Now("waiting", None))]
      BY <1>1, <3>1, OneCallMoves
    <3>4. pended' = [pended EXCEPT ![c] = Now("called", None)]
      BY <3>2, <3>3
    <3> HIDE DEF pended
    <3> QED BY <2>1, <3>4, AtomicSteps
  <2>3. CASE ~Admits(breaker)
    <3>1. call' = [call EXCEPT ![c] = Now("returning", Rejected)]
      BY <1>2, <2>3 DEF Enter
    <3>2. CallOf(Now("returning", Rejected)) = Now("answered", Rejected)
      BY DEF CallOf, Phase
    <3>3. pended' = [pended EXCEPT ![c] = CallOf(Now("returning", Rejected))]
      BY <1>1, <3>1, OneCallMoves
    <3>4. pended' = [pended EXCEPT ![c] = Now("answered", Rejected)]
      BY <3>2, <3>3
    <3> HIDE DEF pended
    <3> QED BY <2>1, <3>4, AtomicSteps
  <2> QED BY <2>2, <2>3
<1>3. ASSUME NEW w \in Writers, LockSet(w) PROVE UNCHANGED Atomic!serviceVars
  <2>1. UNCHANGED pended /\ UNCHANGED <<repo, cache>>
    BY <1>1, <1>3, LockingStutters DEF LockSet
  <2> QED BY <2>1, AtomicSteps
<1>4. ASSUME NEW w \in Writers, SetReturns(w) PROVE Atomic!Write(w)
  <2> DEFINE o == call[w].order
             v == call[w].version
  <2>1. /\ call[w].pc = "inRepo"
        /\ call' = [call EXCEPT ![w].pc = "returning", ![w].result = Ok]
        /\ cache' \in Promise!AfterSet(cache, o, Whole(v))
    BY <1>4 DEF SetReturns, AfterCaching
  <2>2. UNCHANGED repo \/ (repo[o] = None /\ repo' = [repo EXCEPT ![o] = v])
    BY <1>4 DEF SetReturns, SaveOrder
  <2>3. Atomic!Answers(w, Ok) /\ pended[w].order = o /\ pended[w].version = v
    BY <1>1, <2>1, CallIsAnswered, AtomicSteps
  <2>4. cache' \in Atomic!Cache!AfterSet(cache, o, Whole(v))
    BY <2>1 DEF Promise!AfterSet, Promise!Present, Atomic!Cache!AfterSet,
                Atomic!Cache!Present, Promise!Cardinality, Atomic!Cache!Cardinality
  <2> HIDE DEF o, v
  <2> QED BY <2>2, <2>3, <2>4 DEF Atomic!Write, pended, CallOf
<1>5. ASSUME NEW r \in Readers, LockGet(r)
      PROVE  Atomic!Read(r) \/ UNCHANGED Atomic!serviceVars
  <2> DEFINE o == call[r].order
  <2>1. call[r].pc = "waiting" /\ UNCHANGED <<repo, cache>>
    BY <1>5 DEF LockGet
  <2>2. CASE cache[o] # None
    <3>1. call' = [call EXCEPT ![r].pc = "returning", ![r].result = cache[o]]
      BY <1>5, <2>2 DEF LockGet
    <3> QED BY <1>1, <2>1, <2>2, <3>1, ReadStep
  <2>3. CASE cache[o] = None
    <3>1. UNCHANGED pended
      BY <1>1, <1>5, <2>1, <2>3, LockingStutters DEF LockGet
    <3> QED BY <2>1, <3>1, AtomicSteps
  <2> QED BY <2>2, <2>3
<1>6. ASSUME NEW r \in Readers, GetReturns(r) PROVE Atomic!Read(r)
  <2> DEFINE o == call[r].order
  <2>1. RepoGetOrder(o) = Error /\ Error \notin Entries
    BY OutcomesDistinct DEF RepoGetOrder, Arguments, Placeholders
  <2>2. /\ call[r].pc = "inRepo" /\ UNCHANGED <<repo, cache>>
        /\ call' = [call EXCEPT ![r].pc = "returning", ![r].result = Error]
    BY <1>6, <2>1 DEF GetReturns
  <2>3. cache[o] = None
    BY <2>2 DEF MissStands
  <2> QED BY <1>1, <2>2, <2>3, ReadStep
<1>7. ASSUME NEW c \in Callers, Return(c) PROVE Atomic!End(c)
  <2>1. /\ call[c].pc = "returning" /\ call' = [call EXCEPT ![c] = Idle]
        /\ UNCHANGED <<repo, cache>>
    BY <1>7 DEF Return
  <2>2. pended[c].pc = "answered" /\ CallOf(Idle) = Idle
    BY <2>1 DEF pended, CallOf, Phase, Idle
  <2>3. pended' = [pended EXCEPT ![c] = CallOf(Idle)]
    BY <1>1, <2>1, OneCallMoves
  <2> QED BY <2>1, <2>2, <2>3, AtomicSteps
<1>8. CASE FlushCache \/ \E o \in Orders : DeleteCache(o)
  <2>1. ASSUME NEW s \in SUBSET Orders, UNCHANGED <<repo, call>>,
               cache' = [o \in Orders |-> IF o \in s THEN None ELSE cache[o]]
        PROVE  Atomic!Forget(s)
    BY <2>1 DEF Atomic!Forget
  <2>2. CASE FlushCache
    <3>1. cache' = [o \in Orders |-> IF o \in Orders THEN None ELSE cache[o]]
      BY <2>2 DEF FlushCache
    <3>2. Atomic!Forget(Orders)
      BY <2>1, <2>2, <3>1 DEF FlushCache
    <3> QED BY <3>2 DEF Atomic!ServiceNext
  <2>3. ASSUME NEW p \in Orders, DeleteCache(p) PROVE Atomic!ServiceNext
    <3>1. cache' = [o \in Orders |-> IF o \in {p} THEN None ELSE cache[o]]
      BY <1>1, <2>3 DEF DeleteCache
    <3>2. Atomic!Forget({p})
      BY <2>1, <2>3, <3>1 DEF DeleteCache
    <3> QED BY <3>2 DEF Atomic!ServiceNext
  <2> QED BY <1>8, <2>2, <2>3
<1>9. CASE Restart
  <2>1. PICK s \in Selections \cup {{}} : cache' = Warmed(s)
    BY <1>9 DEF Restart
  <2>2. s \subseteq Stored /\ s \in SUBSET Orders /\ \A o \in s : repo[o] # None
    BY DEF Selections, Stored
  <2>3. pended' = Atomic!NoCalls /\ UNCHANGED repo
    <3>1. call' = [c \in Callers |-> Idle] /\ UNCHANGED repo
      BY <1>9 DEF Restart
    <3>2. pended' = [c \in Callers |-> Idle]
      <4>1. \A c \in Callers : call'[c] = Idle
        BY <3>1
      <4>2. CallOf(Idle) = Idle
        BY DEF CallOf, Idle, Phase
      <4>3. pended' = [c \in Callers |-> CallOf(call'[c])]
        BY DEF pended, CallOf
      <4> HIDE DEF CallOf, Idle
      <4> QED BY <4>1, <4>2, <4>3
    <3> QED BY <3>1, <3>2 DEF Atomic!NoCalls, Atomic!NoCall, Atomic!Callers, Callers, Idle
  <2>4. Atomic!Crash(s)
    BY <2>1, <2>2, <2>3 DEF Atomic!Crash, Warmed, pended, CallOf
  <2> QED BY <2>2, <2>4 DEF Atomic!ServiceNext
<1>10. CASE BreakerClock \/ UNCHANGED vars
  BY <1>10 DEF BreakerClock, vars, Atomic!serviceVars
<1> QED BY <1>2, <1>3, <1>4, <1>5, <1>6, <1>7, <1>8, <1>9, <1>10
        DEF Next, ProcessOrder, GetOrder, Atomic!ServiceNext, Atomic!Callers, Callers

\* Every call takes effect at one moment: the service implements AtomicService, for
\* any number of goroutines, orders and versions, any capacity and any quota.
THEOREM ImplementsAtomicService == Spec => CallsAreAtomic
<1>1. Init => MissStands /\ Atomic!ServiceInit
  BY DEF Init, MissStands, Idle, Callers, Phase, Atomic!ServiceInit, Atomic!NoCalls,
         Atomic!NoCall, Atomic!Callers, Atomic!Cache!EmptyMap
<1>2. IInv /\ MissStands /\ [Next]_vars => MissStands'
  BY MissStandsStep
<1>3. IInv /\ MissStands /\ [Next]_vars => [Atomic!ServiceNext]_(Atomic!serviceVars)
  BY ServiceSteps
<1> QED BY <1>1, <1>2, <1>3, Inductive, PTL DEF Spec, CallsAreAtomic, Atomic!ServiceSpec
=============================================================================
