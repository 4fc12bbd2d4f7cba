------------------------------- MODULE Gateway -------------------------------
(***************************************************************************)
(* A request on its way through the gateway: the middleware that counts    *)
(* it, the authentication of module HmacAuth, the handler and the response *)
(* that is counted again.  The counters are those of MonitoringService.    *)
(*                                                                         *)
(* The middleware and the authentication run on the event loop, handlers   *)
(* on worker threads; every update and every snapshot of the counters is a *)
(* critical section of one lock.  An attempt of HmacAuth is one request.   *)
(***************************************************************************)
EXTENDS HmacAuth, FiniteSets

CONSTANTS
  Endpoints,   \* f"{method} {path}", the keys of the endpoint counters
  EndpointOf,  \* the endpoint each message is sent to
  RouteOf,     \* the route that serves an endpoint
  Malformed,   \* messages whose body is not JSON, where the route wants JSON
  Invalid      \* messages whose parameters do not fit the route's schema

Routes == {"unknown", "health", "metrics", "quote", "batch", "search", "order"}

ASSUME GatewayAssumption ==
  /\ EndpointOf \in [Messages -> Endpoints]
  /\ RouteOf \in [Endpoints -> Routes]
  /\ Malformed \subseteq Messages /\ Invalid \subseteq Messages

VARIABLES
  stage,        \* how far each request has come
  request,      \* the message each request delivers
  status,       \* the status code of its response
  global,       \* MonitoringService._global
  by_endpoint,  \* MonitoringService._by_endpoint, zero where there is no entry
  reported      \* the snapshot a call of GET /internal/v1/metrics returns

serving == <<stage, request, status>>
counters == <<global, by_endpoint>>
gatewayVars == <<vars, serving, counters, reported>>

Stages == {"outside", "routing", "handler", "responding", "raising", "answered", "cut"}

Statuses == {200, 401, 403, 404, 422, 500, 501, 503, 504}

Classes == {2, 4, 5}

EndpointMetrics ==
  [requests : Nat, in_flight : Nat, errors : Nat, status_counts : [Classes -> Nat]]

NoRequests ==
  [requests |-> 0, in_flight |-> 0, errors |-> 0, status_counts |-> [c \in Classes |-> 0]]

Snapshots == [global : EndpointMetrics, endpoints : [Endpoints -> EndpointMetrics]]

-----------------------------------------------------------------------------
(* MonitoringService: what one critical section does to one record.        *)

request_started(m) == [m EXCEPT !.requests = @ + 1, !.in_flight = @ + 1]

ServerErrorsOnlyMutant(m, code) ==
  [m EXCEPT !.in_flight = IF @ > 0 THEN @ - 1 ELSE 0,
            !.status_counts[code \div 100] = @ + 1,
            !.errors = IF code >= 500 THEN @ + 1 ELSE @]

request_finished(m, code) ==
  [m EXCEPT !.in_flight = IF @ > 0 THEN @ - 1 ELSE 0,
            !.status_counts[code \div 100] = @ + 1,
            !.errors = IF code >= 400 THEN @ + 1 ELSE @]

ErrorsInTotalOnlyMutant(e, code) ==
  /\ global' = request_finished(global, code)
  /\ by_endpoint' = [by_endpoint EXCEPT ![e] =
       [request_finished(@, code) EXCEPT !.errors = by_endpoint[e].errors]]

CountFinished(e, code) ==
  /\ global' = request_finished(global, code)
  /\ by_endpoint' = [by_endpoint EXCEPT ![e] = request_finished(@, code)]

EndpointFor(a) == EndpointOf[request[a]]
Route(a) == RouteOf[EndpointFor(a)]

(* Routes without require_hmac_scopes, among them no route at all.         *)
Public == {"unknown", "health"}

(* FastAPI parses a JSON body before it runs any dependency.               *)
Unparsed(a) == request[a] \in Malformed /\ Route(a) \in {"batch", "order"}

Reach(a, from, to) ==
  /\ stage[a] = from
  /\ stage' = [stage EXCEPT ![a] = to]

Respond(a, from, code) ==
  /\ Reach(a, from, "responding")
  /\ status' = [status EXCEPT ![a] = code]

-----------------------------------------------------------------------------

(* The middleware up to call_next.                                         *)
Arrive(a, m) ==
  /\ Reach(a, "outside", "routing")
  /\ request' = [request EXCEPT ![a] = m]
  /\ global' = request_started(global)
  /\ by_endpoint' = [by_endpoint EXCEPT ![EndpointOf[m]] = request_started(@)]
  /\ UNCHANGED <<vars, status, reported>>

(* The router knows no such path, or the body cannot be parsed.            *)
RefuseUnread(a) ==
  /\ stage[a] = "routing"
  /\ \/ Route(a) = "unknown" /\ Respond(a, "routing", 404)
     \/ Unparsed(a) /\ Respond(a, "routing", 422)
  /\ UNCHANGED <<vars, request, counters, reported>>

ServePublic(a) ==
  /\ Reach(a, "routing", "handler")
  /\ Route(a) \in Public \ {"unknown"}
  /\ UNCHANGED <<vars, request, status, counters, reported>>

DefaultStatusMutant(how) == IF how = "forbidden" THEN 400 ELSE 401

(* AuthenticationError and AuthorizationError, by _handle_app_error.       *)
StatusOfRefusal(how) == IF how = "forbidden" THEN 403 ELSE 401

(* The dependency: a step of HmacAuth, and where it ends the request goes  *)
(* on to its handler, unless its parameters are invalid, or is refused.    *)
Authenticate(a) ==
  /\ stage[a] = "routing"
  /\ Route(a) \notin Public /\ ~Unparsed(a)
  /\ Check(a, request[a]) \/ RejectForged(a) \/ RejectReplay(a) \/ Admit(a)
  /\ CASE pc'[a] = "body" -> UNCHANGED <<stage, status>>
       [] pc'[a] = "admitted" /\ request[a] \notin Invalid ->
            Reach(a, "routing", "handler") /\ UNCHANGED status
       [] pc'[a] = "admitted" /\ request[a] \in Invalid -> Respond(a, "routing", 422)
       [] OTHER -> Respond(a, "routing", StatusOfRefusal(pc'[a]))
  /\ UNCHANGED <<request, counters, reported>>

(* Its other exceptions pass through the middleware.  The body of a route  *)
(* that wants JSON was read before, so there it can only be the signature. *)
DependencyRaises(a) ==
  /\ Reach(a, "routing", "raising")
  /\ Route(a) \notin Public /\ ~Unparsed(a)
  /\ Route(a) \in {"batch", "order"} => request[a] \notin Signed
  /\ Abort(a)
  /\ UNCHANGED <<request, status, counters, reported>>

(* What a handler's return value or AppError becomes.  A batch reports     *)
(* such errors inside its answer, a search and /ready meet none.           *)
AnswersOf(route) == IF route = "quote" THEN {200, 404, 503, 504} ELSE {200}

Handle(a) ==
  /\ stage[a] = "handler" /\ Route(a) \notin {"metrics", "order"}
  /\ \E code \in AnswersOf(Route(a)) : Respond(a, "handler", code)
  /\ UNCHANGED <<vars, request, counters, reported>>

(* OrderService supports neither of its operations.                        *)
RefuseOrder(a) ==
  /\ Respond(a, "handler", 501)
  /\ Route(a) = "order"
  /\ UNCHANGED <<vars, request, counters, reported>>

(* MonitoringService.snapshot, whose own request is still in flight.       *)
TakeSnapshot(a) ==
  /\ Respond(a, "handler", 200)
  /\ Route(a) = "metrics"
  /\ reported' = [reported EXCEPT ![a] = [global |-> global, endpoints |-> by_endpoint]]
  /\ UNCHANGED <<vars, request, counters>>

(* So does any other exception of a handler.                               *)
HandlerRaises(a) ==
  /\ Reach(a, "handler", "raising")
  /\ Route(a) \in {"quote", "batch", "search"}
  /\ UNCHANGED <<vars, request, status, counters, reported>>

(* The middleware after call_next returned.                                *)
Finish(a) ==
  /\ Reach(a, "responding", "answered")
  /\ CountFinished(EndpointFor(a), status[a])
  /\ UNCHANGED <<vars, request, status, reported>>

UncountedMutant(a) ==
  /\ Reach(a, "raising", "answered")
  /\ status' = [status EXCEPT ![a] = 500]
  /\ UNCHANGED <<vars, request, counters, reported>>

(* The middleware after call_next raised; _handle_unexpected_error then    *)
(* makes the response, outside of the middleware.                          *)
FinishRaised(a) ==
  /\ Reach(a, "raising", "answered")
  /\ status' = [status EXCEPT ![a] = 500]
  /\ CountFinished(EndpointFor(a), 500)
  /\ UNCHANGED <<vars, request, reported>>

(* Inside the middleware, hence in flight.                                 *)
InFlight(a) == stage[a] \in {"routing", "handler", "responding", "raising"}

(* A new process: create_app makes the counters, the nonce store is empty. *)
RestartGateway ==
  /\ Restart
  /\ stage' = [a \in Attempts |-> IF InFlight(a) THEN "cut" ELSE stage[a]]
  /\ global' = NoRequests
  /\ by_endpoint' = [e \in Endpoints |-> NoRequests]
  /\ UNCHANGED <<request, status, reported>>

PassTime == Tick /\ UNCHANGED <<serving, counters, reported>>

(* The modelled time is over and every request has been answered.          *)
AllAnswered ==
  /\ TimeIsOver
  /\ \A a \in Attempts : ~InFlight(a)
  /\ UNCHANGED gatewayVars

GatewayInit ==
  /\ Init
  /\ stage = [a \in Attempts |-> "outside"]
  /\ request = [a \in Attempts |-> None]
  /\ status = [a \in Attempts |-> None]
  /\ global = NoRequests
  /\ by_endpoint = [e \in Endpoints |-> NoRequests]
  /\ reported = [a \in Attempts |-> None]

GatewayNext ==
  \/ PassTime
  \/ RestartGateway
  \/ \E a \in Attempts :
       \/ \E m \in Messages : Arrive(a, m)
       \/ RefuseUnread(a) \/ ServePublic(a) \/ Authenticate(a) \/ DependencyRaises(a)
       \/ Handle(a) \/ RefuseOrder(a) \/ TakeSnapshot(a) \/ HandlerRaises(a)
       \/ Finish(a) \/ FinishRaised(a)
  \/ AllAnswered

GatewaySpec == GatewayInit /\ [][GatewayNext]_gatewayVars

-----------------------------------------------------------------------------
(* Properties.                                                             *)

GatewayTypeOK ==
  /\ stage \in [Attempts -> Stages]
  /\ request \in [Attempts -> Messages \cup {None}]
  /\ status \in [Attempts -> Statuses \cup {None}]
  /\ global \in EndpointMetrics
  /\ by_endpoint \in [Endpoints -> EndpointMetrics]
  /\ reported \in [Attempts -> Snapshots \cup {None}]

(* What in_flight says is what is in flight (request_started,              *)
(* request_finished): the requests between the two calls of the middleware *)
(* are counted, in total and per endpoint, whichever way a handler ends;   *)
(* so no request is ever finished twice or lost, and the floor of 0 in     *)
(* request_finished is never needed.                                       *)
InFlightIsReal ==
  /\ global.in_flight = Cardinality({a \in Attempts : InFlight(a)})
  /\ \A e \in Endpoints :
       by_endpoint[e].in_flight = Cardinality({a \in Attempts : InFlight(a) /\ EndpointFor(a) = e})

Balanced(m) ==
  LET count == m.status_counts IN
  /\ m.requests = m.in_flight + count[2] + count[4] + count[5]
  /\ m.errors = count[4] + count[5]

(* The numbers of one answer of GET /internal/v1/metrics agree with each   *)
(* other (MonitoringService.snapshot), whatever started or finished while  *)
(* it was made: in total and per endpoint each request is either in flight *)
(* or in one class of statuses, errors are the two failing classes, and    *)
(* the asking request is itself in flight.                                 *)
SnapshotsBalance ==
  \A a \in Attempts : reported[a] # None =>
    /\ Balanced(reported[a].global)
    /\ \A e \in Endpoints : Balanced(reported[a].endpoints[e])
    /\ reported[a].endpoints[EndpointFor(a)].in_flight > 0

(* One pair for each unit of a number kept per endpoint: as many pairs as  *)
(* the numbers of the endpoints add up to.                                 *)
Units(number) == UNION {{e} \X (1 .. number[e]) : e \in Endpoints}

Total(number) == Cardinality(Units(number))

AddUp(total, parts) ==
  /\ total.requests = Total([e \in Endpoints |-> parts[e].requests])
  /\ total.in_flight = Total([e \in Endpoints |-> parts[e].in_flight])
  /\ total.errors = Total([e \in Endpoints |-> parts[e].errors])
  /\ \A c \in Classes :
       total.status_counts[c] = Total([e \in Endpoints |-> parts[e].status_counts[c]])

(* In each such answer the endpoints add up to the total, in every number  *)
(* it reports (MonitoringService.snapshot): what is counted twice, in one  *)
(* critical section, is never seen counted once.                           *)
EndpointsAddUp ==
  \A a \in Attempts : reported[a] # None =>
    AddUp(reported[a].global, reported[a].endpoints)

(* Authentication and counting together: in one life of the gateway a      *)
(* guarded endpoint reports no more successes than there are messages to   *)
(* it that deserve one.  So however often messages are delivered, replays  *)
(* and refused requests never reach a handler, nor pass for served.        *)
ServedOnce ==
  \A e \in Endpoints : RouteOf[e] \notin Public =>
    by_endpoint[e].status_counts[2] <=
      Cardinality({m \in Readable \cap Signed \cap Scoped : EndpointOf[m] = e})

=============================================================================
