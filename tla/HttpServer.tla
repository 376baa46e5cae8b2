----------------------------- MODULE HttpServer -----------------------------
(***************************************************************************)
(* internal/server.  A request is served by two goroutines: net/http's     *)
(* runs the middlewares, and timeoutMiddleware starts another one for the  *)
(* handler and waits for it or for the request's context.  Both hold the   *)
(* same ResponseWriter, and nothing stops the handler when the middleware  *)
(* returns first.  OrderService.GetOrder returns at any time or never here; *)
(* that it does return is CallsReturn of OrderService.                     *)
(*                                                                         *)
(* net/http is external.  The first WriteHeader counts.  The response is   *)
(* sent when ServeHTTP returns, if its client is there and the connection's *)
(* write deadline is not over.  Its buffer is then pooled: a handler that  *)
(* writes after that writes into a buffer without owner, and the bytes are *)
(* lost, or part of the response that has the buffer next, or the write    *)
(* panics.  recoveryMiddleware is not on the stack of the goroutine that   *)
(* panics, so the process ends, as it does when both goroutines write the  *)
(* header map at once.                                                     *)
(***************************************************************************)
EXTENDS Naturals

CONSTANTS
  Conns,           \* the connections of clients, one request at a time each
  WriteTimeout,    \* the server's write_timeout: 30 s in the configuration
  RequestTimeout,  \* timeoutMiddleware's 30 s
  None, Timeout    \* no value; the middleware, as the author of a body

\* A write_timeout of 0 would be none at all.
ASSUME TimeoutsAsShipped ==
  WriteTimeout \in Nat \ {0} /\ RequestTimeout \in Nat /\ WriteTimeout <= RequestTimeout
ASSUME NamesDistinct == Timeout \notin Conns /\ None \notin Nat

VARIABLES
  request,  \* what each connection is being served
  overran   \* history: in this run of the process a handler outlived its ServeHTTP

vars == <<request, overran>>

Answers  == {200, 400, 404, 408, 500}
Routes   == {"order", "blank", "health"}      \* blank: an order_uid of spaces
Outcomes == {"order", "nil", "error"}         \* what GetOrder returns

\* server: the goroutine of net/http; handler: the one it waits for; context: the
\* request's; writable: what is sent now reaches the client; answer: what the
\* handler decided on; status, body: the response, its body as the set of those
\* who wrote to it; delivered: it was sent and arrived.
Requests ==
  [route : Routes \cup {None},
   server : {"none", "waiting", "timingOut", "returned"},
   handler : {"none", "started", "inService", "answering", "writing", "done"},
   context : {"live", "expired", "cancelled"}, writable : BOOLEAN,
   answer : Answers \cup {None}, status : Answers \cup {None},
   body : SUBSET (Conns \cup {Timeout}), delivered : BOOLEAN]

NoRequest ==
  [route |-> None, server |-> "none", handler |-> "none", context |-> "live",
   writable |-> TRUE, answer |-> None, status |-> None, body |-> {}, delivered |-> FALSE]

TypeOK == request \in [Conns -> Requests] /\ overran \in BOOLEAN

Init == request = [c \in Conns |-> NoRequest] /\ overran = FALSE

Waits(c) == request[c].server = "waiting"
Open(c)  == request[c].server \in {"waiting", "timingOut"}

-----------------------------------------------------------------------------
\* A request arrives; the middlewares run up to the select, the handler starts.
Arrive(c, route) ==
  /\ request[c].server = "none"
  /\ request' = [request EXCEPT ![c].route = route, ![c].server = "waiting",
                                ![c].handler = "started"]
  /\ UNCHANGED overran

\* handleHealth, and handleGetOrder as far as its call.
Handle(c) ==
  /\ request[c].handler = "started"
  /\ request' =
       CASE request[c].route = "order"  -> [request EXCEPT ![c].handler = "inService"]
         [] request[c].route = "blank"  -> [request EXCEPT ![c].handler = "answering",
                                                           ![c].answer = 400]
         [] request[c].route = "health" -> [request EXCEPT ![c].handler = "answering",
                                                           ![c].answer = 200]
  /\ UNCHANGED overran

\* Wrong variant, for mutation: the answer to a missing order without its status.
AnswerToUnset(outcome) ==
  CASE outcome = "order" -> 200
    [] outcome = "nil"   -> 0
    [] outcome = "error" -> 500

\* No error of GetOrder reads like isNotFoundError expects: a missing argument,
\* an open breaker, a context that is done.
AnswerTo(outcome) ==
  CASE outcome = "order" -> 200
    [] outcome = "nil"   -> 404
    [] outcome = "error" -> 500

ServiceReturns(c, outcome) ==
  /\ request[c].handler = "inService"
  /\ request' = [request EXCEPT ![c].handler = "answering",
                                ![c].answer = AnswerTo(outcome)]
  /\ UNCHANGED overran

First(status, code) == IF status = None THEN code ELSE status

\* writeJSONResponse: the header, then the body.
WriteHeader(c) ==
  /\ request[c].handler = "answering"
  /\ request' = [request EXCEPT ![c].handler = "writing",
                                ![c].status = First(@, request[c].answer)]
  /\ UNCHANGED overran

\* In time; or too late, and lost or in another's response (or fatal: Crash).
WriteBody(c) ==
  /\ request[c].handler = "writing"
  /\ \/ /\ Open(c)
        /\ request' = [request EXCEPT ![c].handler = "done", ![c].body = @ \cup {c}]
     \/ /\ ~Open(c)
        /\ \/ request' = [request EXCEPT ![c].handler = "done"]
           \/ \E d \in Conns :
                /\ Open(d)
                /\ request' = [request EXCEPT ![c].handler = "done",
                                              ![d].body = @ \cup {c}]
  /\ UNCHANGED overran

-----------------------------------------------------------------------------
\* The clocks of a request, and its client.  The connection's write deadline is
\* set when the request has been read, the middleware's when it gets it.
WriteDeadline(c) ==
  /\ Open(c) /\ request[c].writable
  /\ WriteTimeout > RequestTimeout => request[c].context # "live"
  /\ request' = [request EXCEPT ![c].writable = FALSE]
  /\ UNCHANGED overran

\* Wrong variant, for mutation: a request timeout below the server's write_timeout.
ExpireEarly(c) ==
  /\ Waits(c) /\ request[c].context = "live"
  /\ request' = [request EXCEPT ![c].context = "expired"]
  /\ UNCHANGED overran

Expire(c) ==
  /\ Waits(c) /\ request[c].context = "live"
  /\ WriteTimeout <= RequestTimeout => ~request[c].writable
  /\ request' = [request EXCEPT ![c].context = "expired"]
  /\ UNCHANGED overran

\* The client has nothing more to send, which net/http takes for its departure: it
\* is gone, or has closed one half of its connection and still listens.
ClientLeaves(c) ==
  /\ Waits(c) /\ request[c].context = "live"
  /\ \E listens \in BOOLEAN :
       request' = [request EXCEPT ![c].context = "cancelled",
                                  ![c].writable = @ /\ listens]
  /\ UNCHANGED overran

-----------------------------------------------------------------------------
\* ServeHTTP returns: net/http sends what was written, with 200 if nobody chose.
Returned(c, body) ==
  /\ request' = [request EXCEPT ![c].server = "returned", ![c].body = body,
                                ![c].status = First(@, 200),
                                ![c].delivered = request[c].writable]
  /\ overran' = (overran \/ request[c].handler # "done")

\* The select: whichever of its two channels is ready.
HandlerDone(c) ==
  Waits(c) /\ request[c].handler = "done" /\ Returned(c, request[c].body)

\* Wrong variant, for mutation: the select waits for the handler after a cancel.
ContextIgnored(c) ==
  /\ Waits(c) /\ request[c].context # "live" /\ request[c].handler = "done"
  /\ Returned(c, request[c].body)

\* http.Error of the middleware, its header here and its body next; a cancelled
\* request is left without an answer.
ContextDone(c) ==
  /\ Waits(c)
  /\ \/ /\ request[c].context = "expired"
        /\ request' = [request EXCEPT ![c].server = "timingOut",
                                      ![c].status = First(@, 408)]
        /\ UNCHANGED overran
     \/ request[c].context = "cancelled" /\ Returned(c, request[c].body)

TimedOut(c) ==
  request[c].server = "timingOut" /\ Returned(c, request[c].body \cup {Timeout})

\* Both goroutines have ended.
Forget(c) ==
  /\ request[c].server = "returned" /\ request[c].handler = "done"
  /\ request' = [request EXCEPT ![c] = NoRequest]
  /\ UNCHANGED overran

\* A handler that writes too late, or one that writes its header as http.Error
\* does, ends the process, and another one starts.
Crash ==
  /\ \E c \in Conns :
       \/ request[c].handler \in {"answering", "writing"} /\ ~Open(c)
       \/ request[c].handler = "answering" /\ Waits(c) /\ request[c].context = "expired"
  /\ request' = [c \in Conns |-> NoRequest]
  /\ overran' = FALSE

ServerStep(c) == HandlerDone(c) \/ ContextDone(c) \/ TimedOut(c)

Next ==
  \/ \E c \in Conns :
       \/ \E route \in Routes : Arrive(c, route)
       \/ Handle(c)
       \/ \E outcome \in Outcomes : ServiceReturns(c, outcome)
       \/ WriteHeader(c) \/ WriteBody(c)
       \/ WriteDeadline(c) \/ Expire(c) \/ ClientLeaves(c)
       \/ ServerStep(c) \/ Forget(c)
  \/ Crash

Spec == Init /\ [][Next]_vars

\* The clocks of a request go on, and so does the goroutine that waits for them.
\* Nothing is assumed of the handler, the service and the database.
Fairness ==
  \A c \in Conns :
    WF_vars(WriteDeadline(c)) /\ WF_vars(Expire(c)) /\ WF_vars(ServerStep(c))

LiveSpec == Spec /\ Fairness

-----------------------------------------------------------------------------
\* A response that arrives has the status the handler decided on and its body; and
\* nothing else, unless some handler has outlived its request.  Only a client that
\* has closed its half may get less: a 200 that nobody chose, or no body.  The 408
\* of the timeout never reaches a client: the connection's write deadline has always
\* passed before it, with the write_timeout shipped.
DeliveredIsTheHandlers ==
  \A c \in Conns : request[c].delivered =>
    /\ overran \/ request[c].body = {c}
    /\ IF request[c].context = "cancelled"
       THEN request[c].status \in {request[c].answer, 200}
       ELSE request[c].status = request[c].answer /\ c \in request[c].body

\* No request waits for ever, though the database or the mutex never answers.
RequestsReturn == \A c \in Conns : Waits(c) ~> ~Waits(c)
=============================================================================
