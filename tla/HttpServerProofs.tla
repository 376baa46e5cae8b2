-------------------------- MODULE HttpServerProofs --------------------------
(***************************************************************************)
(* What is delivered is the handler's answer, for any connections and any  *)
(* timeouts of which write_timeout is not the longer.  The argument: a     *)
(* request that has expired can no longer be delivered, so that unless its *)
(* client has closed its half, only the branch of the select that has seen *)
(* the handler end delivers anything; and only a handler that outlived its *)
(* request writes to another's body.                                       *)
(***************************************************************************)
EXTENDS HttpServer, TLAPS

\* A request q of connection c, in a process whose history is o.
Sound(c, q, o) ==
  /\ q.server = "none" => q = NoRequest
  /\ q.context = "expired" => ~q.writable
  /\ q.server = "timingOut" => q.context = "expired"
  /\ q.handler \in {"started", "inService"} => q.answer = None
  /\ q.handler \in {"answering", "writing", "done"} => q.answer # None
  /\ q.server \in {"timingOut", "returned"} => q.status # None
  /\ q.server = "waiting" =>
       /\ q.handler \in {"writing", "done"} => q.status = q.answer
       /\ q.handler \in {"started", "inService", "answering"} => q.status = None
       /\ q.handler = "done" => c \in q.body
       /\ o \/ q.body \subseteq {c}
  /\ q.server = "returned" => o \/ q.handler = "done"
  /\ q.server # "none" => q.handler # "none"
  /\ q.handler # "none" => q.route \in Routes
  /\ q.delivered =>
       /\ q.server = "returned" /\ (o \/ q.body = {c})
       /\ q.context # "cancelled" =>
            q.handler = "done" /\ q.status = q.answer /\ c \in q.body
       /\ q.context = "cancelled" => q.status \in {q.answer, 200}

IInv == TypeOK /\ \A c \in Conns : Sound(c, request[c], overran)

-----------------------------------------------------------------------------
LEMMA AnswersAreNumbers == None \notin Answers
BY NamesDistinct DEF Answers

LEMMA NothingIsSound ==
  ASSUME NEW c, NEW o
  PROVE  NoRequest \in Requests /\ Sound(c, NoRequest, o)
BY DEF Sound, NoRequest, Requests

LEMMA InitHolds == Init => IInv
BY NothingIsSound DEF Init, IInv, TypeOK

\* A step that replaces one connection's request and forgets no overrun.
LEMMA OneRequest ==
  ASSUME IInv, NEW c \in Conns, NEW q \in Requests,
         request' = [request EXCEPT ![c] = q],
         overran' \in BOOLEAN, overran => overran', Sound(c, q, overran')
  PROVE  IInv'
<1>1. TypeOK'
  BY DEF IInv, TypeOK
<1>2. ASSUME NEW d \in Conns PROVE Sound(d, request'[d], overran')
  <2>1. CASE d = c
    BY <2>1 DEF IInv, TypeOK
  <2>2. CASE d # c
    <3>1. request'[d] = request[d] /\ Sound(d, request[d], overran)
      BY <2>2 DEF IInv, TypeOK
    <3>2. overran => overran'
      OBVIOUS
    <3> QED BY <3>1, <3>2 DEF Sound
  <2> QED BY <2>1, <2>2
<1> QED BY <1>1, <1>2 DEF IInv

\* What TypeOK and Sound say of one connection.
LEMMA OfOne ==
  ASSUME IInv, NEW c \in Conns
  PROVE  request[c] \in Requests /\ Sound(c, request[c], overran) /\ overran \in BOOLEAN
BY DEF IInv, TypeOK

\* Writing an answer into a request.
LEMMA AnswerFits ==
  ASSUME NEW q \in Requests, NEW v \in Answers
  PROVE  /\ [q EXCEPT !.server = "timingOut", !.status = v] \in Requests
         /\ [q EXCEPT !.handler = "answering", !.answer = v] \in Requests
BY DEF Requests

\* A request whose handler has started is not the empty one.
LEMMA HasServer ==
  ASSUME NEW c, NEW q \in Requests, NEW o, Sound(c, q, o), q.handler # "none"
  PROVE  q.server \in {"waiting", "timingOut", "returned"}
BY DEF Sound, NoRequest, Requests

\* The handler's side.
LEMMA HandlerHolds ==
  ASSUME IInv, NEW c \in Conns,
         \/ \E route \in Routes : Arrive(c, route)
         \/ Handle(c) \/ \E outcome \in Outcomes : ServiceReturns(c, outcome)
         \/ WriteHeader(c)
  PROVE  IInv'
<1> DEFINE q == request[c]
<1>1. q \in Requests /\ Sound(c, q, overran) /\ overran \in BOOLEAN
  BY OfOne
<1>2. ASSUME NEW route \in Routes, Arrive(c, route) PROVE IInv'
  <2> DEFINE n == [q EXCEPT !.route = route, !.server = "waiting", !.handler = "started"]
  <2>1. request' = [request EXCEPT ![c] = n] /\ overran' = overran
    BY <1>2 DEF Arrive
  <2>2. q = NoRequest
    BY <1>1, <1>2 DEF Arrive, Sound
  <2>3. n \in Requests
    BY <1>1, <1>2 DEF Requests
  <2>4. Sound(c, n, overran)
    BY <1>2, <2>2 DEF Sound, NoRequest
  <2> HIDE DEF n
  <2> QED BY <1>1, <2>1, <2>3, <2>4, OneRequest
<1>3. CASE Handle(c)
  <2> DEFINE called == [q EXCEPT !.handler = "inService"]
             chose(answer) == [q EXCEPT !.handler = "answering", !.answer = answer]
  <2>1. q.handler = "started" /\ overran' = overran
    BY <1>3 DEF Handle
  <2>2. q.server \in {"waiting", "timingOut", "returned"} /\ q.route \in Routes \cup {None}
    BY <1>1, <2>1, HasServer DEF Requests
  <2>3. \/ request' = [request EXCEPT ![c] = called]
        \/ request' = [request EXCEPT ![c] = chose(200)]
        \/ request' = [request EXCEPT ![c] = chose(400)]
    <3>1. q.route \in Routes
      BY <1>1, <2>1 DEF Sound
    <3>2. CASE q.route = "order"
      BY <1>3, <3>2 DEF Handle
    <3>3. CASE q.route = "blank"
      BY <1>3, <3>3 DEF Handle
    <3>4. CASE q.route = "health"
      <4>1. request' = [request EXCEPT ![c] = chose(200)]
        BY <1>3, <3>4 DEF Handle
      <4> HIDE DEF chose, called
      <4> QED BY <4>1
    <3> QED BY <3>1, <3>2, <3>3, <3>4 DEF Routes
  <2>4. CASE request' = [request EXCEPT ![c] = called]
    <3>1. called \in Requests
      BY <1>1 DEF Requests
    <3>2. Sound(c, called, overran)
      BY <1>1, <2>1, <2>2 DEF Sound, Requests
    <3> HIDE DEF called
    <3> QED BY <1>1, <2>1, <2>4, <3>1, <3>2, OneRequest
  <2>5. ASSUME NEW answer \in Answers, request' = [request EXCEPT ![c] = chose(answer)]
        PROVE  IInv'
    <3>1. chose(answer) \in Requests /\ answer # None
      BY <1>1, AnswerFits, AnswersAreNumbers
    <3>2. Sound(c, chose(answer), overran)
      BY <1>1, <2>1, <2>2, <3>1 DEF Sound, Requests
    <3> HIDE DEF chose
    <3> QED BY <1>1, <2>1, <2>5, <3>1, <3>2, OneRequest
  <2>6. 200 \in Answers /\ 400 \in Answers
    BY DEF Answers
  <2> HIDE DEF chose, called
  <2> QED BY <2>3, <2>4, <2>5, <2>6
<1>4. ASSUME NEW outcome \in Outcomes, ServiceReturns(c, outcome) PROVE IInv'
  <2> DEFINE n == [q EXCEPT !.handler = "answering", !.answer = AnswerTo(outcome)]
  <2>1. q.handler = "inService" /\ request' = [request EXCEPT ![c] = n] /\ overran' = overran
    BY <1>4 DEF ServiceReturns
  <2>2. AnswerTo(outcome) \in Answers /\ AnswerTo(outcome) # None
    BY AnswersAreNumbers DEF AnswerTo, Outcomes, Answers
  <2>3. n \in Requests /\ Sound(c, n, overran)
    <3>1. n \in Requests
      BY <1>1, <2>1, <2>2 DEF Requests
    <3>2. q.server # "none"
      BY <1>1, <2>1, <2>2 DEF Sound, Requests, NoRequest
    <3>3. Sound(c, n, overran)
      BY <1>1, <2>1, <2>2, <3>2 DEF Sound, Requests
    <3> QED BY <3>1, <3>3
  <2> HIDE DEF n
  <2> QED BY <1>1, <2>1, <2>3, OneRequest
<1>5. CASE WriteHeader(c)
  <2> DEFINE n == [q EXCEPT !.handler = "writing", !.status = First(@, q.answer)]
  <2>1. q.handler = "answering" /\ request' = [request EXCEPT ![c] = n] /\ overran' = overran
    BY <1>5 DEF WriteHeader
  <2>2. n \in Requests /\ Sound(c, n, overran)
    <3>1. n \in Requests
      BY <1>1, <2>1 DEF Requests, First
    <3>2. q.server # "none"
      BY <1>1, <2>1 DEF Sound, Requests, NoRequest, First
    <3>3. Sound(c, n, overran)
      BY <1>1, <2>1, <3>2 DEF Sound, Requests, First
    <3> QED BY <3>1, <3>3
  <2> HIDE DEF n
  <2> QED BY <1>1, <2>1, <2>2, OneRequest
<1> QED BY <1>2, <1>3, <1>4, <1>5

\* The body, which may go into another connection's response.
LEMMA WriteBodyHolds ==
  ASSUME IInv, NEW c \in Conns, WriteBody(c)
  PROVE  IInv'
<1> DEFINE q == request[c]
           done == [q EXCEPT !.handler = "done"]
           wrote == [q EXCEPT !.handler = "done", !.body = @ \cup {c}]
<1>1. /\ q \in Requests /\ Sound(c, q, overran) /\ overran \in BOOLEAN
      /\ q.handler = "writing" /\ overran' = overran
  BY OfOne DEF WriteBody
<1>2. CASE Open(c) /\ request' = [request EXCEPT ![c] = wrote]
  <2>1. wrote \in Requests /\ Sound(c, wrote, overran)
    BY <1>1, <1>2 DEF Sound, Requests, NoRequest, Open
  <2> HIDE DEF wrote
  <2> QED BY <1>1, <1>2, <2>1, OneRequest
<1>3. CASE ~Open(c) /\ request' = [request EXCEPT ![c] = done]
  <2>1. done \in Requests /\ Sound(c, done, overran)
    BY <1>1, <1>3 DEF Sound, Requests, NoRequest, Open
  <2> HIDE DEF done
  <2> QED BY <1>1, <1>3, <2>1, OneRequest
<1>4. ASSUME NEW d \in Conns, Open(d), ~Open(c),
             request' = [request EXCEPT ![c].handler = "done", ![d].body = @ \cup {c}]
      PROVE  IInv'
  <2> DEFINE p == request[d]
             strayed == [p EXCEPT !.body = @ \cup {c}]
  <2>1. overran /\ d # c
    BY <1>1, <1>4 DEF Sound, Requests, NoRequest, Open
  <2>2. p \in Requests /\ Sound(d, p, overran)
    BY OfOne
  <2>3. /\ done \in Requests /\ Sound(c, done, overran)
        /\ strayed \in Requests /\ Sound(d, strayed, overran)
    BY <1>1, <1>4, <2>1, <2>2 DEF Sound, Requests, NoRequest, Open
  <2>4. /\ request' \in [Conns -> Requests]
        /\ request'[c] = done /\ request'[d] = strayed
        /\ \A e \in Conns \ {c, d} : request'[e] = request[e]
    BY <1>4, <2>1, <2>3 DEF IInv, TypeOK
  <2>5. ASSUME NEW e \in Conns PROVE Sound(e, request'[e], overran')
    <3> HIDE DEF done, strayed
    <3>1. CASE e \in {c, d}
      BY <1>1, <2>3, <2>4, <3>1
    <3>2. CASE e \notin {c, d}
      BY <1>1, <2>4, <3>2, OfOne
    <3> QED BY <3>1, <3>2
  <2> QED BY <1>1, <2>4, <2>5 DEF IInv, TypeOK
<1> QED BY <1>2, <1>3, <1>4 DEF WriteBody

\* The clocks, the client, and the end of a request.
LEMMA ClocksHold ==
  ASSUME IInv, NEW c \in Conns,
         WriteDeadline(c) \/ Expire(c) \/ ClientLeaves(c) \/ Forget(c)
  PROVE  IInv'
<1> DEFINE q == request[c]
<1>1. q \in Requests /\ Sound(c, q, overran) /\ overran \in BOOLEAN
  BY OfOne
<1>2. CASE WriteDeadline(c)
  <2> DEFINE n == [q EXCEPT !.writable = FALSE]
  <2>1. Open(c) /\ request' = [request EXCEPT ![c] = n] /\ overran' = overran
    BY <1>2 DEF WriteDeadline
  <2>2. n \in Requests /\ Sound(c, n, overran)
    <3>1. n \in Requests
      BY <1>1, <2>1 DEF Requests
    <3>2. q.server # "none"
      BY <1>1, <2>1 DEF Sound, Requests, NoRequest, Open
    <3>3. Sound(c, n, overran)
      BY <1>1, <2>1, <3>2 DEF Sound, Requests, Open
    <3> QED BY <3>1, <3>3
  <2> HIDE DEF n
  <2> QED BY <1>1, <2>1, <2>2, OneRequest
<1>3. CASE Expire(c)
  <2> DEFINE n == [q EXCEPT !.context = "expired"]
  <2>1. /\ Waits(c) /\ ~q.writable
        /\ request' = [request EXCEPT ![c] = n] /\ overran' = overran
    BY <1>3, TimeoutsAsShipped DEF Expire
  <2>2. n \in Requests /\ Sound(c, n, overran)
    <3>1. n \in Requests
      BY <1>1, <2>1 DEF Requests
    <3>2. q.server # "none"
      BY <1>1, <2>1 DEF Sound, Requests, NoRequest, Waits
    <3>3. Sound(c, n, overran)
      BY <1>1, <2>1, <3>2 DEF Sound, Requests, Waits
    <3> QED BY <3>1, <3>3
  <2> HIDE DEF n
  <2> QED BY <1>1, <2>1, <2>2, OneRequest
<1>4. CASE ClientLeaves(c)
  <2>0. PICK listens \in BOOLEAN :
          request' = [request EXCEPT ![c].context = "cancelled", ![c].writable = @ /\ listens]
    BY <1>4 DEF ClientLeaves
  <2> DEFINE n == [q EXCEPT !.context = "cancelled", !.writable = q.writable /\ listens]
  <2>1. /\ Waits(c) /\ q.context = "live"
        /\ request' = [request EXCEPT ![c] = n] /\ overran' = overran
    BY <1>4, <2>0 DEF ClientLeaves
  <2>2. n \in Requests /\ Sound(c, n, overran)
    <3>1. n \in Requests
      BY <1>1, <2>1 DEF Requests
    <3>2. q.server # "none"
      BY <1>1, <2>1 DEF Sound, Requests, NoRequest, Waits
    <3>3. Sound(c, n, overran)
      BY <1>1, <2>1, <3>2 DEF Sound, Requests, Waits
    <3> QED BY <3>1, <3>3
  <2> HIDE DEF n
  <2> QED BY <1>1, <2>1, <2>2, OneRequest
<1>5. CASE Forget(c)
  BY <1>1, <1>5, NothingIsSound, OneRequest DEF Forget
<1> QED BY <1>2, <1>3, <1>4, <1>5

\* The goroutine of net/http.
LEMMA ServerHolds ==
  ASSUME IInv, NEW c \in Conns, ServerStep(c)
  PROVE  IInv'
<1> DEFINE q == request[c]
           sent(body) == [q EXCEPT !.server = "returned", !.body = body,
                                   !.status = First(@, 200), !.delivered = q.writable]
<1>1. q \in Requests /\ Sound(c, q, overran) /\ overran \in BOOLEAN
  BY OfOne
<1>2. 200 \in Answers /\ 200 # None /\ 408 \in Answers /\ 408 # None
  BY AnswersAreNumbers DEF Answers
<1>0. First(q.status, 200) \in Answers /\ First(q.status, 408) \in Answers
  BY <1>1, <1>2 DEF First, Requests
<1>3. ASSUME NEW body, Returned(c, body)
      PROVE  /\ request' = [request EXCEPT ![c] = sent(body)]
             /\ overran' = (overran \/ q.handler # "done")
  BY <1>3 DEF Returned
<1>4. CASE HandlerDone(c)
  <2> DEFINE n == sent(q.body)
  <2>1. /\ Waits(c) /\ q.handler = "done" /\ request' = [request EXCEPT ![c] = n]
        /\ overran' = overran
    BY <1>1, <1>3, <1>4 DEF HandlerDone
  <2>2. n \in Requests /\ Sound(c, n, overran)
    <3>1. n \in Requests
      BY <1>0, <1>1 DEF Requests
    <3>2. q.server # "none"
      BY <1>1, <1>2, <2>1 DEF Sound, Requests, NoRequest, Waits, First
    <3>3. Sound(c, n, overran)
      BY <1>1, <1>2, <2>1, <3>2 DEF Sound, Requests, Waits, First
    <3> QED BY <3>1, <3>3
  <2> HIDE DEF n
  <2> QED BY <1>1, <2>1, <2>2, OneRequest
<1>5. CASE ContextDone(c) /\ q.context = "expired" /\ UNCHANGED overran
  <2> DEFINE n == [q EXCEPT !.server = "timingOut", !.status = First(@, 408)]
  <2>1. Waits(c) /\ request' = [request EXCEPT ![c] = n] /\ overran' = overran
    BY <1>5 DEF ContextDone
  <2>2. n \in Requests /\ Sound(c, n, overran)
    <3>1. n \in Requests
      BY <1>0, <1>1, AnswerFits
    <3>2. q.server # "none"
      BY <1>1, <1>2, <1>5, <2>1 DEF Sound, Requests, NoRequest, Waits, First
    <3>3. Sound(c, n, overran)
      BY <1>1, <1>2, <1>5, <2>1, <3>2 DEF Sound, Requests, Waits, First
    <3> QED BY <3>1, <3>3
  <2> HIDE DEF n
  <2> QED BY <1>1, <2>1, <2>2, OneRequest
<1>6. CASE q.context = "expired" /\ q.server \in {"waiting", "timingOut"}
           /\ \E body \in SUBSET (Conns \cup {Timeout}) : Returned(c, body)
  <2>1. PICK body \in SUBSET (Conns \cup {Timeout}) : Returned(c, body)
    BY <1>6
  <2> DEFINE n == sent(body)
  <2>2. /\ request' = [request EXCEPT ![c] = n]
        /\ overran' = (overran \/ q.handler # "done")
    BY <1>3, <2>1
  <2>3. n \in Requests /\ Sound(c, n, overran')
    <3>1. n \in Requests
      BY <1>0, <1>1, <2>1 DEF Requests
    <3>2. q.server # "none"
      BY <1>1, <1>2, <1>6, <2>2 DEF Sound, Requests, NoRequest, First
    <3>3. Sound(c, n, overran')
      BY <1>1, <1>2, <1>6, <2>2, <3>2 DEF Sound, Requests, First
    <3> QED BY <3>1, <3>3
  <2>4. overran' \in BOOLEAN /\ (overran => overran')
    BY <2>2
  <2> HIDE DEF n
  <2> QED BY <2>2, <2>3, <2>4, OneRequest
<1>7. CASE ContextDone(c)
  <2>1. CASE q.context = "expired"
    BY <1>5, <1>7, <2>1 DEF ContextDone
  <2>2. CASE q.context = "cancelled"
    <3> DEFINE n == sent(q.body)
    <3>1. /\ Waits(c) /\ request' = [request EXCEPT ![c] = n]
          /\ overran' = (overran \/ q.handler # "done")
      BY <1>3, <1>7, <2>2 DEF ContextDone
    <3>2. n \in Requests
      BY <1>0, <1>1 DEF Requests
    <3>3. Sound(c, n, overran')
      <4>1. q.server # "none" /\ q.handler # "none"
        BY <1>1, <3>1 DEF Sound, Waits
      <4>2. n.status \in {n.answer, 200} /\ n.status # None
        BY <1>1, <1>2, <3>1, <4>1 DEF Sound, Requests, Waits, First
      <4>3. overran' \/ (n.handler = "done" /\ n.body = {c} /\ n.status = n.answer)
        BY <1>1, <1>2, <3>1, <4>1 DEF Sound, Requests, Waits, First
      <4> QED BY <1>1, <2>2, <3>1, <4>1, <4>2, <4>3 DEF Sound, Requests
    <3> HIDE DEF n
    <3> QED BY <1>1, <3>1, <3>2, <3>3, OneRequest
  <2> QED BY <1>7, <2>1, <2>2 DEF ContextDone
<1>8. CASE TimedOut(c)
  <2>1. q.context = "expired" /\ q.server = "timingOut"
    BY <1>1, <1>8 DEF TimedOut, Sound
  <2>2. q.body \cup {Timeout} \in SUBSET (Conns \cup {Timeout})
    BY <1>1 DEF Requests
  <2> QED BY <1>6, <1>8, <2>1, <2>2 DEF TimedOut
<1> QED BY <1>4, <1>7, <1>8 DEF ServerStep

\* The inductive invariant, in every state.
THEOREM InvariantHolds == Spec => []IInv
<1>1. IInv /\ [Next]_vars => IInv'
  <2> SUFFICES ASSUME IInv, [Next]_vars PROVE IInv'
    OBVIOUS
  <2>1. CASE UNCHANGED vars
    BY <2>1 DEF vars, IInv, TypeOK
  <2>2. ASSUME NEW c \in Conns,
               \/ \E route \in Routes : Arrive(c, route)
               \/ Handle(c) \/ \E outcome \in Outcomes : ServiceReturns(c, outcome)
               \/ WriteHeader(c)
        PROVE  IInv'
    BY <2>2, HandlerHolds
  <2>3. ASSUME NEW c \in Conns,
               \/ WriteBody(c) \/ ServerStep(c)
               \/ WriteDeadline(c) \/ Expire(c) \/ ClientLeaves(c) \/ Forget(c)
        PROVE  IInv'
    BY <2>3, WriteBodyHolds, ServerHolds, ClocksHold
  <2>4. CASE Crash
    BY <2>4, NothingIsSound DEF Crash, IInv, TypeOK
  <2> QED BY <2>1, <2>2, <2>3, <2>4 DEF Next
<1> QED BY <1>1, InitHolds, PTL DEF Spec

\* The types of a request.
THEOREM TypeCorrect == Spec => []TypeOK
<1>1. IInv => TypeOK
  BY DEF IInv
<1> QED BY <1>1, InvariantHolds, PTL

\* Only the handler's answer reaches a client, and whole.
THEOREM DeliveredIsWhole == Spec => []DeliveredIsTheHandlers
<1>1. IInv => DeliveredIsTheHandlers
  BY DEF IInv, Sound, DeliveredIsTheHandlers
<1> QED BY <1>1, InvariantHolds, PTL
=============================================================================
