---------------------------- MODULE GatewayProofs ----------------------------
(* Theorems about Gateway for any requests, messages and endpoints: what   *)
(* holds of the authentication still holds behind the middleware, and the  *)
(* counters tell the truth about the requests.                             *)
EXTENDS Gateway, HmacAuthProofs, FiniteSetTheorems

-----------------------------------------------------------------------------
(* The inductive invariant, on top of that of the authentication.          *)

(* A request that has arrived has its message, and once it has a response  *)
(* that response has a status; before, nothing has happened to it.         *)
Delivered ==
  \A a \in Attempts :
    /\ stage[a] # "outside" => request[a] \in Messages
    /\ stage[a] = "outside" => pc[a] = "idle" /\ reported[a] = None
    /\ stage[a] \in {"responding", "answered"} => status[a] \in Statuses

(* Whom the authentication has seen, in this life if it is still served,   *)
(* and what it has found out about the message.                            *)
Traced ==
  \A a \in Attempts :
    /\ pc[a] # "idle" => message[a] = request[a]
    /\ pc[a] # "idle" /\ InFlight(a) => life[a] = restarts
    /\ pc[a] = "body" => message[a] \in Readable
    /\ pc[a] = "admitted" => message[a] \in Readable \cap Signed \cap Scoped

(* Nobody gets to a guarded handler, or a 200 from there, unadmitted.      *)
LetIn(a) ==
  \/ stage[a] = "handler"
  \/ stage[a] \in {"responding", "answered"} /\ status[a] = 200

Guarded ==
  \A a \in Attempts : LetIn(a) /\ Route(a) \notin Public => pc[a] = "admitted"

Flying == {a \in Attempts : InFlight(a)}
FlyingTo(e) == {a \in Attempts : InFlight(a) /\ EndpointFor(a) = e}

(* Only finitely many requests are inside, however many may ever come.     *)
Flights == IsFiniteSet(Flying) /\ InFlightIsReal

Balances == Balanced(global) /\ \A e \in Endpoints : Balanced(by_endpoint[e])

(* The requests of this life that a guarded endpoint answered with 200.    *)
Served(e) ==
  {a \in Attempts : /\ stage[a] = "answered" /\ status[a] = 200
                    /\ EndpointFor(a) = e /\ life[a] = restarts}

ServedCounted ==
  \A e \in Endpoints : RouteOf[e] \notin Public =>
    IsFiniteSet(Served(e)) /\ by_endpoint[e].status_counts[2] = Cardinality(Served(e))

(* The endpoints add up to the total at every moment, not only in what is  *)
(* reported, and the numbers are of finitely many units each.              *)
Makes(total, number) == IsFiniteSet(Units(number)) /\ total = Total(number)

MadeUp(total, parts) ==
  /\ Makes(total.requests, [e \in Endpoints |-> parts[e].requests])
  /\ Makes(total.in_flight, [e \in Endpoints |-> parts[e].in_flight])
  /\ Makes(total.errors, [e \in Endpoints |-> parts[e].errors])
  /\ \A c \in Classes :
       Makes(total.status_counts[c], [e \in Endpoints |-> parts[e].status_counts[c]])

CountersAddUp == MadeUp(global, by_endpoint)

GatewayIInv ==
  /\ IInv
  /\ GatewayTypeOK
  /\ Delivered
  /\ Traced
  /\ Guarded
  /\ Flights
  /\ Balances /\ SnapshotsBalance
  /\ CountersAddUp /\ EndpointsAddUp
  /\ ServedCounted

-----------------------------------------------------------------------------
(* Arithmetic of one record of counters.                                   *)

LEMMA Class ==
  ASSUME NEW code \in Statuses
  PROVE  /\ code \div 100 \in Classes
         /\ code \div 100 = 2 <=> code = 200
         /\ code >= 400 <=> code # 200
<1>1. 200 \div 100 = 2 /\ 401 \div 100 = 4 /\ 403 \div 100 = 4 /\ 404 \div 100 = 4
      /\ 422 \div 100 = 4 /\ 500 \div 100 = 5 /\ 501 \div 100 = 5 /\ 503 \div 100 = 5
      /\ 504 \div 100 = 5
  OBVIOUS
<1> QED
  BY <1>1 DEF Statuses, Classes

LEMMA MetricsFields ==
  ASSUME NEW m \in EndpointMetrics
  PROVE  /\ m.requests \in Nat /\ m.in_flight \in Nat /\ m.errors \in Nat
         /\ m.status_counts \in [Classes -> Nat]
  BY DEF EndpointMetrics

LEMMA Started ==
  ASSUME NEW m \in EndpointMetrics
  PROVE  LET n == request_started(m) IN
         /\ n \in EndpointMetrics
         /\ n.requests = m.requests + 1 /\ n.in_flight = m.in_flight + 1
         /\ n.errors = m.errors /\ n.status_counts = m.status_counts
<1> DEFINE requests == m.requests + 1
           in_flight == m.in_flight + 1
<1>1. requests \in Nat /\ in_flight \in Nat
  BY MetricsFields
<1>2. request_started(m) = [m EXCEPT !.requests = requests, !.in_flight = in_flight]
  BY DEF request_started, EndpointMetrics
<1> HIDE DEF requests, in_flight
<1>3. LET n == request_started(m) IN
      /\ n \in EndpointMetrics
      /\ n.requests = requests /\ n.in_flight = in_flight
      /\ n.errors = m.errors /\ n.status_counts = m.status_counts
  BY <1>1, <1>2 DEF EndpointMetrics
<1> QED
  BY <1>3 DEF requests, in_flight

LEMMA Finished ==
  ASSUME NEW m \in EndpointMetrics, NEW code \in Statuses
  PROVE  /\ request_finished(m, code) \in EndpointMetrics
         /\ request_finished(m, code).requests = m.requests
         /\ request_finished(m, code).in_flight =
              IF m.in_flight > 0 THEN m.in_flight - 1 ELSE 0
         /\ request_finished(m, code).errors =
              IF code >= 400 THEN m.errors + 1 ELSE m.errors
         /\ request_finished(m, code).status_counts =
              [m.status_counts EXCEPT ![code \div 100] = m.status_counts[code \div 100] + 1]
<1> DEFINE c == code \div 100
           n == request_finished(m, code)
           in_flight == IF m.in_flight > 0 THEN m.in_flight - 1 ELSE 0
           errors == IF code >= 400 THEN m.errors + 1 ELSE m.errors
           counts == [m.status_counts EXCEPT ![c] = m.status_counts[c] + 1]
<1>1. in_flight \in Nat /\ errors \in Nat
  BY MetricsFields
<1>2. counts \in [Classes -> Nat]
  <2>1. m.status_counts \in [Classes -> Nat] /\ c \in Classes
    BY MetricsFields, Class
  <2> HIDE DEF c
  <2>2. m.status_counts[c] + 1 \in Nat
    BY <2>1
  <2> QED
    BY <2>1, <2>2
<1>3. n = [m EXCEPT !.in_flight = in_flight, !.status_counts = counts, !.errors = errors]
  BY DEF request_finished, EndpointMetrics
<1> HIDE DEF c, n, in_flight, errors, counts
<1>4. /\ n \in EndpointMetrics /\ n.requests = m.requests
      /\ n.in_flight = in_flight /\ n.errors = errors /\ n.status_counts = counts
  BY <1>1, <1>2, <1>3 DEF EndpointMetrics
<1> QED
  BY <1>4 DEF c, n, in_flight, errors, counts

LEMMA FinishedInside ==
  ASSUME NEW m \in EndpointMetrics, m.in_flight > 0, NEW code \in Statuses
  PROVE  request_finished(m, code).in_flight = m.in_flight - 1
<1> DEFINE n == request_finished(m, code)
<1>1. n.in_flight = IF m.in_flight > 0 THEN m.in_flight - 1 ELSE 0
  BY Finished
<1> QED
  BY <1>1

LEMMA FinishedSuccess ==
  ASSUME NEW m \in EndpointMetrics, NEW code \in Statuses
  PROVE  request_finished(m, code).status_counts[2] =
           IF code = 200 THEN m.status_counts[2] + 1 ELSE m.status_counts[2]
<1> DEFINE n == request_finished(m, code)
           c == code \div 100
<1>1. n.status_counts = [m.status_counts EXCEPT ![c] = m.status_counts[c] + 1]
  BY Finished
<1>2. m.status_counts \in [Classes -> Nat] /\ 2 \in Classes /\ (c = 2 <=> code = 200)
  BY MetricsFields, Class DEF Classes
<1> HIDE DEF c, n
<1>3. n.status_counts[2] = IF c = 2 THEN m.status_counts[2] + 1 ELSE m.status_counts[2]
  BY <1>1, <1>2
<1> QED
  BY <1>2, <1>3 DEF n

LEMMA NoRequestsType ==
  /\ NoRequests \in EndpointMetrics
  /\ NoRequests.requests = 0 /\ NoRequests.in_flight = 0 /\ NoRequests.errors = 0
  /\ \A c \in Classes : NoRequests.status_counts[c] = 0
  BY DEF NoRequests, EndpointMetrics

-----------------------------------------------------------------------------
(* The total of a number kept per endpoint.                                *)

LEMMA UnitsMembers ==
  ASSUME NEW n, NEW u
  PROVE  u \in Units(n) <=> \E e \in Endpoints : \E i \in 1 .. n[e] : u = <<e, i>>
  BY DEF Units

LEMMA UnitsNone ==
  ASSUME NEW n, \A e \in Endpoints : n[e] = 0
  PROVE  Makes(0, n)
<1>1. Units(n) = {}
  BY UnitsMembers
<1> QED
  BY <1>1, FS_EmptySet DEF Makes, Total

(* The number of one endpoint grows by one unit.                           *)
LEMMA UnitsGrow ==
  ASSUME NEW n, NEW k, NEW e0 \in Endpoints, n[e0] \in Nat, k[e0] = n[e0] + 1,
         \A e \in Endpoints \ {e0} : k[e] = n[e]
  PROVE  Units(k) = Units(n) \cup {<<e0, k[e0]>>} /\ <<e0, k[e0]>> \notin Units(n)
<1>1. \A i : i \in 1 .. k[e0] <=> i \in 1 .. n[e0] \/ i = k[e0]
  OBVIOUS
<1>2. ASSUME NEW u
      PROVE  u \in Units(k) <=> u \in Units(n) \/ u = <<e0, k[e0]>>
  <2>1. u \in Units(k) => u \in Units(n) \/ u = <<e0, k[e0]>>
    BY <1>1, UnitsMembers
  <2>2. u \in Units(n) => u \in Units(k)
    BY <1>1, UnitsMembers
  <2>3. <<e0, k[e0]>> \in Units(k)
    BY <1>1, UnitsMembers
  <2> QED
    BY <2>1, <2>2, <2>3
<1>3. <<e0, k[e0]>> \notin Units(n)
  BY UnitsMembers
<1> QED
  BY <1>2, <1>3

LEMMA MakesOneMore ==
  ASSUME NEW n, NEW k, NEW total, NEW e0 \in Endpoints, Makes(total, n),
         n[e0] \in Nat, k[e0] = n[e0] + 1, \A e \in Endpoints \ {e0} : k[e] = n[e]
  PROVE  Makes(total + 1, k)
<1>1. Units(k) = Units(n) \cup {<<e0, k[e0]>>} /\ <<e0, k[e0]>> \notin Units(n)
  BY UnitsGrow
<1>2. IsFiniteSet(Units(n)) /\ total = Cardinality(Units(n))
  BY DEF Makes, Total
<1>3. IsFiniteSet(Units(k)) /\ Cardinality(Units(k)) = Cardinality(Units(n)) + 1
  BY <1>1, <1>2, FS_AddElement
<1> QED
  BY <1>2, <1>3 DEF Makes, Total

LEMMA MakesOneLess ==
  ASSUME NEW n, NEW k, NEW total, NEW e0 \in Endpoints, Makes(total, n),
         n[e0] \in Nat \ {0}, k[e0] = n[e0] - 1, \A e \in Endpoints \ {e0} : k[e] = n[e]
  PROVE  Makes(total - 1, k)
<1>1. Units(n) = Units(k) \cup {<<e0, n[e0]>>} /\ <<e0, n[e0]>> \notin Units(k)
  <2>1. k[e0] \in Nat /\ n[e0] = k[e0] + 1
    OBVIOUS
  <2> QED
    BY <2>1, UnitsGrow
<1>2. Units(k) = Units(n) \ {<<e0, n[e0]>>} /\ <<e0, n[e0]>> \in Units(n)
  BY <1>1
<1>3. IsFiniteSet(Units(n)) /\ total = Cardinality(Units(n))
  BY DEF Makes, Total
<1> DEFINE u == <<e0, n[e0]>>
<1> HIDE DEF u
<1>4. IsFiniteSet(Units(n) \ {u}) /\ Cardinality(Units(n) \ {u}) = Cardinality(Units(n)) - 1
  <2>1. u \in Units(n)
    BY <1>2 DEF u
  <2> QED
    BY <2>1, <1>3, FS_RemoveElement
<1>5. Units(k) = Units(n) \ {u}
  BY <1>2 DEF u
<1> QED
  BY <1>3, <1>4, <1>5 DEF Makes, Total

LEMMA MakesSame ==
  ASSUME NEW n, NEW k, NEW total, Makes(total, n), \A e \in Endpoints : k[e] = n[e]
  PROVE  Makes(total, k)
<1>1. \A u : u \in Units(k) <=> u \in Units(n)
  BY UnitsMembers
<1>2. Units(k) = Units(n)
  BY <1>1
<1> QED
  BY <1>2 DEF Makes, Total

LEMMA MadeUpAddsUp ==
  ASSUME NEW total, NEW parts, MadeUp(total, parts)
  PROVE  AddUp(total, parts)
  BY DEF MadeUp, AddUp, Makes

-----------------------------------------------------------------------------
(* What the steps do to a request.                                         *)

Inside == {"routing", "handler", "responding", "raising"}

Serve(a) ==
  \/ RefuseUnread(a) \/ ServePublic(a) \/ Authenticate(a) \/ DependencyRaises(a)
  \/ Handle(a) \/ RefuseOrder(a) \/ TakeSnapshot(a) \/ HandlerRaises(a)

Leaves(a) == Finish(a) \/ FinishRaised(a)

(* Between the two calls of the middleware the counters are left alone,    *)
(* and a response comes with its status.                                   *)
LEMMA ServeStep ==
  ASSUME GatewayTypeOK, NEW a \in Attempts, Serve(a)
  PROVE  /\ UNCHANGED <<request, counters>>
         /\ stage[a] \in {"routing", "handler"} /\ stage'[a] \in Inside
         /\ \A b \in Attempts \ {a} : stage'[b] = stage[b] /\ status'[b] = status[b]
         /\ stage'[a] = "responding" => status'[a] \in Statuses
         /\ stage' \in [Attempts -> Stages] /\ status' \in [Attempts -> Statuses \cup {None}]
<1> USE DEF GatewayTypeOK, Inside, Reach, Respond, Statuses, Stages
<1>1. CASE RefuseUnread(a)
  BY <1>1 DEF RefuseUnread
<1>2. CASE ServePublic(a) \/ DependencyRaises(a) \/ HandlerRaises(a)
  BY <1>2 DEF ServePublic, DependencyRaises, HandlerRaises
<1>3. CASE Authenticate(a)
  <2>1. \/ UNCHANGED <<stage, status>>
        \/ Reach(a, "routing", "handler") /\ UNCHANGED status
        \/ \E code \in {401, 403, 422} : Respond(a, "routing", code)
    BY <1>3 DEF Authenticate, StatusOfRefusal
  <2>2. UNCHANGED <<request, counters>> /\ stage[a] = "routing"
    BY <1>3 DEF Authenticate
  <2> QED
    BY <2>1, <2>2
<1>4. CASE Handle(a)
  <2>0. AnswersOf(Route(a)) \subseteq Statuses
    BY DEF AnswersOf
  <2>1. PICK code \in Statuses : Respond(a, "handler", code)
    <3> HIDE DEF Statuses, Respond
    <3> QED
      BY <1>4, <2>0 DEF Handle
  <2> QED
    BY <1>4, <2>1 DEF Handle
<1>5. CASE RefuseOrder(a) \/ TakeSnapshot(a)
  BY <1>5 DEF RefuseOrder, TakeSnapshot, counters
<1> QED
  BY <1>1, <1>2, <1>3, <1>4, <1>5 DEF Serve

LEMMA LeaveStep ==
  ASSUME GatewayTypeOK, Delivered, NEW a \in Attempts, Leaves(a)
  PROVE  /\ UNCHANGED <<vars, request, reported>>
         /\ stage[a] \in {"responding", "raising"} /\ stage'[a] = "answered"
         /\ \A b \in Attempts \ {a} : stage'[b] = stage[b] /\ status'[b] = status[b]
         /\ status'[a] \in Statuses
         /\ status'[a] = 200 => stage[a] = "responding" /\ status[a] = 200
         /\ CountFinished(EndpointFor(a), status'[a])
         /\ stage' \in [Attempts -> Stages] /\ status' \in [Attempts -> Statuses \cup {None}]
<1> USE DEF GatewayTypeOK, Reach, Statuses, Stages
<1>1. CASE Finish(a)
  BY <1>1 DEF Finish, Delivered
<1>2. CASE FinishRaised(a)
  BY <1>2 DEF FinishRaised
<1> QED
  BY <1>1, <1>2 DEF Leaves

(* What the gateway does is, to the authentication, one of its own steps   *)
(* or nothing.                                                             *)
LEMMA AuthStep ==
  ASSUME Delivered, GatewayTypeOK, [GatewayNext]_gatewayVars
  PROVE  [Next]_vars
<1>1. ASSUME NEW a \in Attempts, Serve(a)
      PROVE  [Next]_vars
  <2>1. CASE Authenticate(a)
    <3>1. request[a] \in Messages
      BY <2>1 DEF Authenticate, Delivered
    <3> QED
      BY <2>1, <3>1 DEF Authenticate, Next
  <2>2. CASE DependencyRaises(a)
    BY <2>2 DEF DependencyRaises, Next
  <2> QED
    BY <1>1, <2>1, <2>2 DEF Serve, RefuseUnread, ServePublic, Handle, RefuseOrder, TakeSnapshot,
       HandlerRaises
<1>2. CASE PassTime \/ RestartGateway \/ AllAnswered
  BY <1>2 DEF PassTime, RestartGateway, AllAnswered, Next
<1>3. ASSUME NEW a \in Attempts, Leaves(a) \/ \E m \in Messages : Arrive(a, m)
      PROVE  [Next]_vars
  BY <1>3 DEF Leaves, Finish, FinishRaised, Arrive
<1> QED
  BY <1>1, <1>2, <1>3 DEF GatewayNext, Serve, Leaves, gatewayVars

-----------------------------------------------------------------------------
(* What the steps do to each part of the invariant.                        *)

LEMMA ArriveStep ==
  ASSUME GatewayTypeOK, NEW a \in Attempts, NEW m \in Messages, Arrive(a, m)
  PROVE  /\ UNCHANGED <<vars, status, reported>>
         /\ stage[a] = "outside" /\ stage'[a] = "routing" /\ request'[a] = m
         /\ \A b \in Attempts \ {a} : stage'[b] = stage[b] /\ request'[b] = request[b]
         /\ stage' \in [Attempts -> Stages] /\ request' \in [Attempts -> Messages \cup {None}]
         /\ EndpointOf[m] \in Endpoints
         /\ global' = request_started(global)
         /\ by_endpoint' = [by_endpoint EXCEPT ![EndpointOf[m]] = request_started(by_endpoint[EndpointOf[m]])]
  BY GatewayAssumption DEF GatewayTypeOK, Arrive, Reach, Stages

LEMMA RestartStep ==
  ASSUME GatewayTypeOK, RestartGateway
  PROVE  /\ Restart /\ UNCHANGED <<request, status, reported>>
         /\ \A a \in Attempts : stage'[a] = IF InFlight(a) THEN "cut" ELSE stage[a]
         /\ stage' \in [Attempts -> Stages]
         /\ global' = NoRequests /\ by_endpoint' = [e \in Endpoints |-> NoRequests]
  BY DEF GatewayTypeOK, RestartGateway, Stages

LEMMA SnapshotStep ==
  ASSUME GatewayTypeOK, NEW a \in Attempts, Serve(a)
  PROVE  /\ \A b \in Attempts : reported'[b] = reported[b] \/
              (b = a /\ reported'[b] = [global |-> global, endpoints |-> by_endpoint])
         /\ reported' \in [Attempts -> Snapshots \cup {None}]
<1>1. [global |-> global, endpoints |-> by_endpoint] \in Snapshots
  BY DEF GatewayTypeOK, Snapshots
<1>2. CASE TakeSnapshot(a)
  BY <1>1, <1>2 DEF GatewayTypeOK, TakeSnapshot
<1>3. CASE UNCHANGED reported
  BY <1>3 DEF GatewayTypeOK
<1> QED
  BY <1>2, <1>3 DEF Serve, RefuseUnread, ServePublic, Authenticate, DependencyRaises, Handle, RefuseOrder,
     HandlerRaises

LEMMA GatewayTypeStep ==
  ASSUME GatewayTypeOK, Delivered, [GatewayNext]_gatewayVars
  PROVE  GatewayTypeOK'
<1>1. ASSUME NEW a \in Attempts, Serve(a)
      PROVE  GatewayTypeOK'
  BY <1>1, ServeStep, SnapshotStep DEF GatewayTypeOK, counters
<1>2. ASSUME NEW a \in Attempts, NEW m \in Messages, Arrive(a, m)
      PROVE  GatewayTypeOK'
  <2> DEFINE e == EndpointOf[m]
  <2>1. e \in Endpoints /\ global \in EndpointMetrics /\ by_endpoint[e] \in EndpointMetrics
    BY GatewayAssumption DEF GatewayTypeOK
  <2>2. request_started(global) \in EndpointMetrics /\ request_started(by_endpoint[e]) \in EndpointMetrics
    BY <2>1, Started
  <2> QED
    BY <1>2, <2>1, <2>2, ArriveStep DEF GatewayTypeOK
<1>3. ASSUME NEW a \in Attempts, Leaves(a)
      PROVE  GatewayTypeOK'
  <2> DEFINE e == EndpointFor(a)
             code == status'[a]
  <2>1. code \in Statuses /\ CountFinished(e, code) /\ request[a] \in Messages
    BY <1>3, LeaveStep DEF Delivered
  <2>2. e \in Endpoints /\ global \in EndpointMetrics /\ by_endpoint[e] \in EndpointMetrics
    BY <2>1, GatewayAssumption DEF GatewayTypeOK, EndpointFor
  <2>3. /\ request_finished(global, code) \in EndpointMetrics
        /\ request_finished(by_endpoint[e], code) \in EndpointMetrics
    BY <2>1, <2>2, Finished
  <2> HIDE DEF e, code
  <2>4. /\ global' \in EndpointMetrics
        /\ by_endpoint' \in [Endpoints -> EndpointMetrics]
    BY <2>1, <2>2, <2>3 DEF GatewayTypeOK, CountFinished
  <2>5. /\ UNCHANGED <<request, reported>>
        /\ stage' \in [Attempts -> Stages] /\ status' \in [Attempts -> Statuses \cup {None}]
    BY <1>3, LeaveStep
  <2> QED
    BY <2>4, <2>5 DEF GatewayTypeOK
<1>4. CASE RestartGateway
  BY <1>4, RestartStep, NoRequestsType DEF GatewayTypeOK
<1>5. CASE PassTime \/ AllAnswered \/ UNCHANGED gatewayVars
  BY <1>5 DEF PassTime, AllAnswered, gatewayVars, serving, counters, GatewayTypeOK
<1> QED
  BY <1>1, <1>2, <1>3, <1>4, <1>5 DEF GatewayNext, Serve, Leaves

LEMMA DeliveredStep ==
  ASSUME TypeOK, GatewayTypeOK, Delivered, [GatewayNext]_gatewayVars
  PROVE  Delivered'
<1>1. ASSUME NEW a \in Attempts, Serve(a)
      PROVE  Delivered'
  <2>1. \A b \in Attempts \ {a} : pc'[b] = pc[b] /\ reported'[b] = reported[b]
    <3>1. Authenticate(a) \/ DependencyRaises(a) \/ UNCHANGED pc
      BY <1>1 DEF Serve, RefuseUnread, ServePublic, Handle, RefuseOrder, TakeSnapshot,
         HandlerRaises, vars
    <3>2. Authenticate(a) \/ DependencyRaises(a) => \A b \in Attempts \ {a} : pc'[b] = pc[b]
      BY DEF Authenticate, DependencyRaises, TypeOK, Check, RejectForged, Abort, RejectReplay,
         Admit, Leave
    <3> QED
      BY <1>1, <3>1, <3>2, SnapshotStep
  <2> QED
    BY <1>1, <2>1, ServeStep DEF Delivered, Inside
<1>2. ASSUME NEW a \in Attempts, NEW m \in Messages, Arrive(a, m)
      PROVE  Delivered'
  BY <1>2, ArriveStep DEF Delivered, vars
<1>3. ASSUME NEW a \in Attempts, Leaves(a)
      PROVE  Delivered'
  BY <1>3, LeaveStep DEF Delivered, vars
<1>4. CASE RestartGateway
  BY <1>4, RestartStep DEF Delivered, Restart, TypeOK, InFlight
<1>5. CASE PassTime \/ AllAnswered \/ UNCHANGED gatewayVars
  BY <1>5 DEF PassTime, AllAnswered, Tick, gatewayVars, vars, serving, counters, Delivered
<1> QED
  BY <1>1, <1>2, <1>3, <1>4, <1>5 DEF GatewayNext, Serve, Leaves

LEMMA TracedStep ==
  ASSUME TypeOK, GatewayTypeOK, Delivered, Traced, [GatewayNext]_gatewayVars
  PROVE  Traced'
<1>1. ASSUME NEW a \in Attempts, Authenticate(a) \/ DependencyRaises(a)
      PROVE  Traced'
  <2>1. stage[a] = "routing" /\ request' = request /\ restarts' = restarts
        /\ \A b \in Attempts \ {a} : stage'[b] = stage[b] /\ pc'[b] = pc[b]
             /\ message'[b] = message[b] /\ life'[b] = life[b]
    <3>1. Serve(a)
      BY <1>1 DEF Serve
    <3>2. /\ restarts' = restarts
          /\ \A b \in Attempts \ {a} :
               pc'[b] = pc[b] /\ message'[b] = message[b] /\ life'[b] = life[b]
      BY <1>1 DEF Authenticate, DependencyRaises, TypeOK, Check, RejectForged, Abort,
         RejectReplay, Admit, Leave
    <3> QED
      BY <1>1, <3>1, <3>2, ServeStep DEF Authenticate, DependencyRaises, Reach
  <2>2. InFlight(a)
    BY <2>1 DEF InFlight
  <2>3. /\ message'[a] = request[a] /\ life'[a] = restarts
        /\ pc'[a] = "body" => message'[a] \in Readable
        /\ pc'[a] = "admitted" => message'[a] \in Readable \cap Signed \cap Scoped
    <3>1. CASE Check(a, request[a])
      BY <3>1 DEF Check, TypeOK
    <3>2. CASE RejectForged(a) \/ Abort(a) \/ RejectReplay(a) \/ Admit(a)
      BY <2>2, <3>2 DEF Traced, TypeOK, RejectForged, Abort, RejectReplay, Admit, Leave
    <3> QED
      BY <1>1, <3>1, <3>2 DEF Authenticate, DependencyRaises
  <2> QED
    BY <2>1, <2>3 DEF Traced, InFlight
<1>2. ASSUME NEW a \in Attempts, Serve(a), ~Authenticate(a), ~DependencyRaises(a)
      PROVE  Traced'
  <2>1. UNCHANGED vars
    BY <1>2 DEF Serve, RefuseUnread, ServePublic, Handle, RefuseOrder, TakeSnapshot, HandlerRaises
  <2> QED
    BY <1>2, <2>1, ServeStep DEF Traced, InFlight, Inside, vars
<1>3. ASSUME NEW a \in Attempts, NEW m \in Messages, Arrive(a, m)
      PROVE  Traced'
  BY <1>3, ArriveStep DEF Traced, Delivered, InFlight, vars
<1>4. ASSUME NEW a \in Attempts, Leaves(a)
      PROVE  Traced'
  BY <1>4, LeaveStep DEF Traced, InFlight, vars
<1>5. CASE RestartGateway
  BY <1>5, RestartStep DEF Traced, Restart, TypeOK, InFlight
<1>6. CASE PassTime \/ AllAnswered \/ UNCHANGED gatewayVars
  BY <1>6 DEF PassTime, AllAnswered, Tick, gatewayVars, vars, serving, counters, Traced, InFlight
<1> QED
  BY <1>1, <1>2, <1>3, <1>4, <1>5, <1>6 DEF GatewayNext, Serve, Leaves

LEMMA GuardedStep ==
  ASSUME TypeOK, GatewayTypeOK, Delivered, Guarded, [GatewayNext]_gatewayVars
  PROVE  Guarded'
<1>1. ASSUME NEW a \in Attempts, Serve(a)
      PROVE  Guarded'
  <2>1. /\ \A b \in Attempts \ {a} : pc'[b] = pc[b] /\ stage'[b] = stage[b] /\ status'[b] = status[b]
        /\ \A b \in Attempts : Route(b)' = Route(b)
    <3>1. \A b \in Attempts \ {a} : pc'[b] = pc[b]
      BY <1>1 DEF Serve, RefuseUnread, ServePublic, Handle, RefuseOrder, TakeSnapshot,
         HandlerRaises, vars, Authenticate, DependencyRaises, TypeOK, Check, RejectForged, Abort,
         RejectReplay, Admit, Leave
    <3> QED
      BY <1>1, <3>1, ServeStep DEF Route, EndpointFor
  <2>2. LetIn(a)' /\ Route(a) \notin Public => pc'[a] = "admitted"
    <3> USE DEF LetIn, Reach, Respond, GatewayTypeOK
    <3>1. CASE RefuseUnread(a)
      BY <3>1 DEF RefuseUnread
    <3>2. CASE ServePublic(a) \/ DependencyRaises(a) \/ HandlerRaises(a) \/ RefuseOrder(a)
      BY <3>2 DEF ServePublic, DependencyRaises, HandlerRaises, RefuseOrder
    <3>3. CASE Authenticate(a)
      BY <3>3 DEF Authenticate, StatusOfRefusal
    <3>4. CASE Handle(a) \/ TakeSnapshot(a)
      BY <3>4 DEF Handle, TakeSnapshot, vars, Guarded
    <3> QED
      BY <1>1, <3>1, <3>2, <3>3, <3>4 DEF Serve
  <2> QED
    BY <2>1, <2>2 DEF Guarded, LetIn
<1>2. ASSUME NEW a \in Attempts, NEW m \in Messages, Arrive(a, m)
      PROVE  Guarded'
  BY <1>2, ArriveStep DEF Guarded, LetIn, vars, Route, EndpointFor
<1>3. ASSUME NEW a \in Attempts, Leaves(a)
      PROVE  Guarded'
  BY <1>3, LeaveStep DEF Guarded, LetIn, vars, Route, EndpointFor
<1>4. CASE RestartGateway
  BY <1>4, RestartStep DEF Guarded, LetIn, Restart, TypeOK, Route, EndpointFor
<1>5. CASE PassTime \/ AllAnswered \/ UNCHANGED gatewayVars
  BY <1>5 DEF PassTime, AllAnswered, Tick, gatewayVars, vars, serving, counters, Guarded, LetIn,
     Route, EndpointFor
<1> QED
  BY <1>1, <1>2, <1>3, <1>4, <1>5 DEF GatewayNext, Serve, Leaves

LEMMA FlyingToFinite ==
  ASSUME IsFiniteSet(Flying), NEW e
  PROVE  IsFiniteSet(FlyingTo(e)) /\ Cardinality(FlyingTo(e)) \in Nat
<1>1. FlyingTo(e) \in SUBSET Flying
  BY DEF Flying, FlyingTo
<1> QED
  BY <1>1, FS_Subset, FS_CardinalityType

(* A request that is inside is counted: the floor of 0 is not needed.      *)
LEMMA InsideCounted ==
  ASSUME Flights, GatewayTypeOK, NEW a \in Attempts, InFlight(a), EndpointFor(a) \in Endpoints
  PROVE  global.in_flight > 0 /\ by_endpoint[EndpointFor(a)].in_flight > 0
<1> DEFINE e == EndpointFor(a)
<1>1. IsFiniteSet(Flying) /\ IsFiniteSet(FlyingTo(e))
  BY FlyingToFinite DEF Flights
<1>2. a \in Flying /\ a \in FlyingTo(e)
  BY DEF Flying, FlyingTo
<1>3. Cardinality(Flying) # 0 /\ Cardinality(FlyingTo(e)) # 0
  BY <1>1, <1>2, FS_EmptySet
<1>4. Cardinality(Flying) \in Nat /\ Cardinality(FlyingTo(e)) \in Nat
  BY <1>1, FS_CardinalityType
<1>5. global.in_flight = Cardinality(Flying) /\ by_endpoint[e].in_flight = Cardinality(FlyingTo(e))
  BY DEF Flights, InFlightIsReal, Flying, FlyingTo
<1> QED
  BY <1>3, <1>4, <1>5

(* Nothing comes in or goes out.                                           *)
LEMMA FlightsUnchanged ==
  ASSUME Flights, UNCHANGED <<request, counters>>, \A a \in Attempts : InFlight(a)' <=> InFlight(a)
  PROVE  Flights'
<1>1. Flying' = Flying /\ \A e : FlyingTo(e)' = FlyingTo(e)
  BY DEF Flying, FlyingTo, EndpointFor
<1>2. /\ (global.in_flight)' = global.in_flight
      /\ \A e : (by_endpoint[e].in_flight)' = by_endpoint[e].in_flight
  BY DEF counters
<1> QED
  BY <1>1, <1>2 DEF Flights, InFlightIsReal, Flying, FlyingTo

LEMMA FlightsArrive ==
  ASSUME Flights, GatewayTypeOK, NEW a \in Attempts, NEW m \in Messages, Arrive(a, m)
  PROVE  Flights'
<1> DEFINE e0 == EndpointOf[m]
<1>1. /\ ~InFlight(a) /\ InFlight(a)' /\ EndpointFor(a)' = e0 /\ e0 \in Endpoints
      /\ \A b \in Attempts \ {a} :
           (InFlight(b)' <=> InFlight(b)) /\ EndpointFor(b)' = EndpointFor(b)
  BY ArriveStep DEF InFlight, EndpointFor
<1> HIDE DEF e0
<1>2. /\ Flying' = Flying \cup {a} /\ FlyingTo(e0)' = FlyingTo(e0) \cup {a}
      /\ a \notin Flying /\ a \notin FlyingTo(e0)
      /\ \A e \in Endpoints \ {e0} : FlyingTo(e)' = FlyingTo(e)
  BY <1>1 DEF Flying, FlyingTo
<1>3. IsFiniteSet(Flying) /\ IsFiniteSet(FlyingTo(e0))
  BY FlyingToFinite DEF Flights
<1>4. /\ IsFiniteSet(Flying') /\ Cardinality(Flying') = Cardinality(Flying) + 1
      /\ Cardinality(FlyingTo(e0)') = Cardinality(FlyingTo(e0)) + 1
  BY <1>2, <1>3, FS_AddElement
<1>5. /\ global'.in_flight = global.in_flight + 1
      /\ by_endpoint'[e0].in_flight = by_endpoint[e0].in_flight + 1
      /\ \A e \in Endpoints \ {e0} : by_endpoint'[e] = by_endpoint[e]
  BY <1>1, ArriveStep, Started DEF GatewayTypeOK, e0
<1> QED
  BY <1>1, <1>2, <1>4, <1>5 DEF Flights, InFlightIsReal, Flying, FlyingTo

LEMMA FlightsLeave ==
  ASSUME Flights, GatewayTypeOK, Delivered, NEW a \in Attempts, Leaves(a)
  PROVE  Flights'
<1>0. PICK e0 \in Endpoints, code \in Statuses : e0 = EndpointFor(a) /\ code = status'[a]
  BY LeaveStep, GatewayAssumption DEF EndpointFor, Delivered
<1>1. /\ InFlight(a) /\ ~InFlight(a)'
      /\ \A b \in Attempts \ {a} : InFlight(b)' <=> InFlight(b)
      /\ \A b \in Attempts : EndpointFor(b)' = EndpointFor(b)
  BY LeaveStep, GatewayAssumption DEF InFlight, EndpointFor, Delivered
<1>2. global.in_flight > 0 /\ by_endpoint[e0].in_flight > 0
  BY <1>0, <1>1, InsideCounted
<1>3. CountFinished(e0, code)
  BY <1>0, LeaveStep
<1>4. global \in EndpointMetrics /\ by_endpoint[e0] \in EndpointMetrics
  BY <1>1 DEF GatewayTypeOK
<1>5. /\ Flying' = Flying \ {a} /\ FlyingTo(e0)' = FlyingTo(e0) \ {a}
      /\ a \in Flying /\ a \in FlyingTo(e0)
      /\ \A e \in Endpoints \ {e0} : FlyingTo(e)' = FlyingTo(e)
  BY <1>0, <1>1 DEF Flying, FlyingTo
<1>6. IsFiniteSet(Flying) /\ IsFiniteSet(FlyingTo(e0))
  BY FlyingToFinite DEF Flights
<1>7. /\ IsFiniteSet(Flying') /\ Cardinality(Flying') = Cardinality(Flying) - 1
      /\ Cardinality(FlyingTo(e0)') = Cardinality(FlyingTo(e0)) - 1
  BY <1>5, <1>6, FS_RemoveElement
<1>8. /\ request_finished(global, code).in_flight = global.in_flight - 1
      /\ request_finished(by_endpoint[e0], code).in_flight = by_endpoint[e0].in_flight - 1
  BY <1>2, <1>3, <1>4, FinishedInside
<1>9. /\ global' = request_finished(global, code)
      /\ by_endpoint'[e0] = request_finished(by_endpoint[e0], code)
      /\ \A e \in Endpoints \ {e0} : by_endpoint'[e] = by_endpoint[e]
  BY <1>1, <1>3 DEF GatewayTypeOK, CountFinished
<1>10. /\ global.in_flight = Cardinality(Flying)
       /\ \A e \in Endpoints : by_endpoint[e].in_flight = Cardinality(FlyingTo(e))
  BY DEF Flights, InFlightIsReal, Flying, FlyingTo
<1>11. /\ global'.in_flight = Cardinality(Flying')
       /\ \A e \in Endpoints : by_endpoint'[e].in_flight = Cardinality(FlyingTo(e)')
  <2>1. global'.in_flight = Cardinality(Flying')
    BY <1>7, <1>8, <1>9, <1>10
  <2>2. by_endpoint'[e0].in_flight = Cardinality(FlyingTo(e0)')
    BY <1>1, <1>7, <1>8, <1>9, <1>10
  <2>3. ASSUME NEW e \in Endpoints, e # e0
        PROVE  by_endpoint'[e].in_flight = Cardinality(FlyingTo(e)')
    BY <1>5, <1>9, <1>10, <2>3
  <2>4. \A e \in Endpoints : e = e0 \/ e # e0
    OBVIOUS
  <2> QED
    BY <2>1, <2>2, <2>3, <2>4
<1> QED
  BY <1>7, <1>11 DEF Flights, InFlightIsReal, Flying, FlyingTo

LEMMA FlightsStep ==
  ASSUME GatewayTypeOK, Delivered, Flights, [GatewayNext]_gatewayVars
  PROVE  Flights'
<1>1. ASSUME NEW a \in Attempts, Serve(a)
      PROVE  Flights'
  <2>1. \A b \in Attempts : InFlight(b)' <=> InFlight(b)
    BY <1>1, ServeStep DEF InFlight, Inside
  <2> QED
    BY <1>1, <2>1, ServeStep, FlightsUnchanged
<1>2. CASE RestartGateway
  <2>1. Flying' = {} /\ \A e : FlyingTo(e)' = {}
    BY <1>2, RestartStep DEF Flying, FlyingTo, InFlight
  <2>2. global'.in_flight = 0 /\ \A e \in Endpoints : by_endpoint'[e].in_flight = 0
    BY <1>2, RestartStep, NoRequestsType
  <2> QED
    BY <2>1, <2>2, FS_EmptySet DEF Flights, InFlightIsReal, Flying, FlyingTo
<1>3. CASE PassTime \/ AllAnswered \/ UNCHANGED gatewayVars
  BY <1>3, FlightsUnchanged DEF PassTime, AllAnswered, gatewayVars, serving, counters, InFlight
<1> QED
  BY <1>1, <1>2, <1>3, FlightsArrive, FlightsLeave DEF GatewayNext, Serve, Leaves

-----------------------------------------------------------------------------
(* The counters balance.                                                   *)

LEMMA StartedBalance ==
  ASSUME NEW m \in EndpointMetrics, Balanced(m)
  PROVE  Balanced(request_started(m))
  BY Started, MetricsFields DEF Balanced, Classes

LEMMA FinishedBalance ==
  ASSUME NEW m \in EndpointMetrics, Balanced(m), m.in_flight > 0, NEW code \in Statuses
  PROVE  Balanced(request_finished(m, code))
<1> DEFINE n == request_finished(m, code)
           c == code \div 100
<1>1. /\ n.requests = m.requests /\ n.in_flight = m.in_flight - 1
      /\ n.errors = IF code >= 400 THEN m.errors + 1 ELSE m.errors
      /\ n.status_counts = [m.status_counts EXCEPT ![c] = m.status_counts[c] + 1]
  BY Finished
<1>2. c \in {2, 4, 5} /\ (code >= 400 <=> c # 2)
  BY Class DEF Classes
<1>3. /\ m.requests \in Nat /\ m.in_flight \in Nat /\ m.errors \in Nat
      /\ m.status_counts \in [{2, 4, 5} -> Nat]
  BY MetricsFields DEF Classes
<1> HIDE DEF n, c
<1>4. /\ n.status_counts[2] = IF c = 2 THEN m.status_counts[2] + 1 ELSE m.status_counts[2]
      /\ n.status_counts[4] = IF c = 4 THEN m.status_counts[4] + 1 ELSE m.status_counts[4]
      /\ n.status_counts[5] = IF c = 5 THEN m.status_counts[5] + 1 ELSE m.status_counts[5]
  BY <1>1, <1>3
<1>5. m.status_counts[2] \in Nat /\ m.status_counts[4] \in Nat /\ m.status_counts[5] \in Nat
  BY <1>3
<1>6. Balanced(n)
  BY <1>1, <1>2, <1>3, <1>4, <1>5 DEF Balanced
<1> QED
  BY <1>6 DEF n

LEMMA BalancesStep ==
  ASSUME GatewayTypeOK, Delivered, Flights, Balances, [GatewayNext]_gatewayVars
  PROVE  Balances'
<1>1. CASE UNCHANGED counters
  BY <1>1 DEF Balances, Balanced, counters
<1>2. ASSUME NEW a \in Attempts, NEW m \in Messages, Arrive(a, m)
      PROVE  Balances'
  <2> DEFINE e0 == EndpointOf[m]
  <2>1. /\ e0 \in Endpoints
        /\ global' = request_started(global)
        /\ by_endpoint' = [by_endpoint EXCEPT ![e0] = request_started(by_endpoint[e0])]
    BY <1>2, ArriveStep
  <2> HIDE DEF e0
  <2>2. Balanced(request_started(global)) /\ Balanced(request_started(by_endpoint[e0]))
    BY <2>1, StartedBalance DEF GatewayTypeOK, Balances
  <2>3. \A e \in Endpoints : by_endpoint'[e] =
          IF e = e0 THEN request_started(by_endpoint[e0]) ELSE by_endpoint[e]
    BY <2>1 DEF GatewayTypeOK
  <2> QED
    BY <2>1, <2>2, <2>3 DEF Balances
<1>3. ASSUME NEW a \in Attempts, Leaves(a)
      PROVE  Balances'
  <2>0. PICK e0 \in Endpoints, code \in Statuses : e0 = EndpointFor(a) /\ code = status'[a]
    BY <1>3, LeaveStep, GatewayAssumption DEF EndpointFor, Delivered
  <2>1. CountFinished(e0, code) /\ InFlight(a)
    BY <1>3, <2>0, LeaveStep DEF InFlight
  <2>2. global.in_flight > 0 /\ by_endpoint[e0].in_flight > 0
    BY <2>0, <2>1, InsideCounted
  <2>3. /\ Balanced(request_finished(global, code))
        /\ Balanced(request_finished(by_endpoint[e0], code))
    BY <2>1, <2>2, FinishedBalance DEF GatewayTypeOK, Balances
  <2>4. global' = request_finished(global, code)
        /\ \A e \in Endpoints : by_endpoint'[e] =
             IF e = e0 THEN request_finished(by_endpoint[e0], code) ELSE by_endpoint[e]
    BY <2>1 DEF GatewayTypeOK, CountFinished
  <2> QED
    BY <2>3, <2>4 DEF Balances
<1>4. CASE RestartGateway
  <2>1. Balanced(NoRequests)
    BY NoRequestsType DEF Balanced, Classes
  <2> QED
    BY <1>4, <2>1, RestartStep DEF Balances
<1>5. CASE PassTime \/ AllAnswered \/ UNCHANGED gatewayVars
  BY <1>1, <1>5 DEF PassTime, AllAnswered, gatewayVars
<1>6. ASSUME NEW a \in Attempts, Serve(a)
      PROVE  Balances'
  BY <1>1, <1>6, ServeStep
<1> QED
  BY <1>2, <1>3, <1>4, <1>5, <1>6 DEF GatewayNext, Serve, Leaves

LEMMA SnapshotsStep ==
  ASSUME GatewayTypeOK, Delivered, Flights, Balances, SnapshotsBalance,
         [GatewayNext]_gatewayVars
  PROVE  SnapshotsBalance'
<1>1. ASSUME UNCHANGED reported,
             \A a \in Attempts : reported[a] # None => EndpointFor(a)' = EndpointFor(a)
      PROVE  SnapshotsBalance'
  BY <1>1 DEF SnapshotsBalance
<1>2. ASSUME NEW a \in Attempts, NEW m \in Messages, Arrive(a, m)
      PROVE  SnapshotsBalance'
  BY <1>1, <1>2, ArriveStep DEF Delivered, EndpointFor
<1>3. ASSUME NEW a \in Attempts, Leaves(a)
      PROVE  SnapshotsBalance'
  BY <1>1, <1>3, LeaveStep DEF EndpointFor
<1>4. CASE RestartGateway \/ PassTime \/ AllAnswered \/ UNCHANGED gatewayVars
  BY <1>1, <1>4 DEF RestartGateway, PassTime, AllAnswered, gatewayVars, serving, EndpointFor
(* The asking request is inside when it takes its snapshot.                *)
<1>5. ASSUME NEW a \in Attempts, Serve(a)
      PROVE  SnapshotsBalance'
  <2> DEFINE snapshot == [global |-> global, endpoints |-> by_endpoint]
  <2>1. \A b \in Attempts : EndpointFor(b)' = EndpointFor(b)
    BY <1>5, ServeStep DEF EndpointFor
  <2>2. InFlight(a) /\ EndpointFor(a) \in Endpoints
    BY <1>5, ServeStep, GatewayAssumption DEF InFlight, EndpointFor, Delivered
  <2>3. /\ Balanced(snapshot.global)
        /\ \A e \in Endpoints : Balanced(snapshot.endpoints[e])
        /\ snapshot.endpoints[EndpointFor(a)].in_flight > 0
    BY <2>2, InsideCounted DEF Balances
  <2>4. \A b \in Attempts : reported'[b] = reported[b] \/ (b = a /\ reported'[b] = snapshot)
    BY <1>5, SnapshotStep
  <2> HIDE DEF snapshot
  <2> QED
    BY <2>1, <2>3, <2>4 DEF SnapshotsBalance
<1> QED
  BY <1>2, <1>3, <1>4, <1>5 DEF GatewayNext, Serve, Leaves

-----------------------------------------------------------------------------
(* The endpoints keep adding up to the total: each critical section does   *)
(* the same to the total and to one endpoint.                              *)

LEMMA MadeUpArrive ==
  ASSUME GatewayTypeOK, CountersAddUp, NEW a \in Attempts, NEW m \in Messages, Arrive(a, m)
  PROVE  CountersAddUp'
<1> DEFINE e0 == EndpointOf[m]
<1>1. /\ e0 \in Endpoints
      /\ global' = request_started(global)
      /\ by_endpoint' = [by_endpoint EXCEPT ![e0] = request_started(by_endpoint[e0])]
  BY ArriveStep
<1> HIDE DEF e0
<1>2. global \in EndpointMetrics /\ by_endpoint[e0] \in EndpointMetrics
  BY <1>1 DEF GatewayTypeOK
<1>3. /\ by_endpoint'[e0] = request_started(by_endpoint[e0])
      /\ \A e \in Endpoints \ {e0} : by_endpoint'[e] = by_endpoint[e]
  BY <1>1 DEF GatewayTypeOK
<1>4. Makes(global'.requests, [e \in Endpoints |-> by_endpoint'[e].requests])
  <2> DEFINE n == [e \in Endpoints |-> by_endpoint[e].requests]
             k == [e \in Endpoints |-> by_endpoint'[e].requests]
  <2>1. n[e0] \in Nat /\ k[e0] = n[e0] + 1 /\ \A e \in Endpoints \ {e0} : k[e] = n[e]
    BY <1>1, <1>2, <1>3, Started, MetricsFields
  <2>2. Makes(global.requests, n)
    BY DEF CountersAddUp, MadeUp
  <2>3. global'.requests = global.requests + 1
    BY <1>1, <1>2, Started
  <2> HIDE DEF n, k
  <2>4. Makes(global.requests + 1, k)
    BY <1>1, <2>1, <2>2, MakesOneMore
  <2> QED
    BY <2>3, <2>4 DEF k
<1>5. Makes(global'.in_flight, [e \in Endpoints |-> by_endpoint'[e].in_flight])
  <2> DEFINE n == [e \in Endpoints |-> by_endpoint[e].in_flight]
             k == [e \in Endpoints |-> by_endpoint'[e].in_flight]
  <2>1. n[e0] \in Nat /\ k[e0] = n[e0] + 1 /\ \A e \in Endpoints \ {e0} : k[e] = n[e]
    BY <1>1, <1>2, <1>3, Started, MetricsFields
  <2>2. Makes(global.in_flight, n)
    BY DEF CountersAddUp, MadeUp
  <2>3. global'.in_flight = global.in_flight + 1
    BY <1>1, <1>2, Started
  <2> HIDE DEF n, k
  <2>4. Makes(global.in_flight + 1, k)
    BY <1>1, <2>1, <2>2, MakesOneMore
  <2> QED
    BY <2>3, <2>4 DEF k
<1>6. \A e \in Endpoints : /\ by_endpoint'[e].errors = by_endpoint[e].errors
                           /\ by_endpoint'[e].status_counts = by_endpoint[e].status_counts
  BY <1>2, <1>3, Started
<1>7. global'.errors = global.errors /\ global'.status_counts = global.status_counts
  BY <1>1, <1>2, Started
<1>8. Makes(global'.errors, [e \in Endpoints |-> by_endpoint'[e].errors])
  BY <1>6, <1>7, MakesSame DEF CountersAddUp, MadeUp
<1>9. ASSUME NEW c \in Classes
      PROVE  Makes(global'.status_counts[c], [e \in Endpoints |-> by_endpoint'[e].status_counts[c]])
  BY <1>6, <1>7, MakesSame DEF CountersAddUp, MadeUp
<1> QED
  BY <1>4, <1>5, <1>8, <1>9 DEF CountersAddUp, MadeUp

LEMMA MadeUpLeave ==
  ASSUME GatewayTypeOK, Delivered, Flights, CountersAddUp, NEW a \in Attempts, Leaves(a)
  PROVE  CountersAddUp'
<1>0. PICK e0 \in Endpoints, code \in Statuses : e0 = EndpointFor(a) /\ code = status'[a]
  BY LeaveStep, GatewayAssumption DEF EndpointFor, Delivered
<1> DEFINE c0 == code \div 100
<1>1. CountFinished(e0, code) /\ InFlight(a)
  BY <1>0, LeaveStep DEF InFlight
<1>2. global.in_flight > 0 /\ by_endpoint[e0].in_flight > 0
  BY <1>0, <1>1, InsideCounted
<1>3. global \in EndpointMetrics /\ by_endpoint[e0] \in EndpointMetrics
  BY DEF GatewayTypeOK
<1>4. /\ global' = request_finished(global, code)
      /\ by_endpoint'[e0] = request_finished(by_endpoint[e0], code)
      /\ \A e \in Endpoints \ {e0} : by_endpoint'[e] = by_endpoint[e]
  BY <1>1 DEF GatewayTypeOK, CountFinished
<1>5. Makes(global'.requests, [e \in Endpoints |-> by_endpoint'[e].requests])
  <2>1. \A e \in Endpoints : by_endpoint'[e].requests = by_endpoint[e].requests
    <3>1. request_finished(by_endpoint[e0], code).requests = by_endpoint[e0].requests
      BY <1>3, Finished
    <3> QED
      BY <1>4, <3>1
  <2>2. global'.requests = global.requests
    BY <1>3, <1>4, Finished
  <2> QED
    BY <2>1, <2>2, MakesSame DEF CountersAddUp, MadeUp
<1>6. Makes(global'.in_flight, [e \in Endpoints |-> by_endpoint'[e].in_flight])
  <2> DEFINE n == [e \in Endpoints |-> by_endpoint[e].in_flight]
             k == [e \in Endpoints |-> by_endpoint'[e].in_flight]
  <2>1. n[e0] \in Nat \ {0} /\ k[e0] = n[e0] - 1 /\ \A e \in Endpoints \ {e0} : k[e] = n[e]
    BY <1>2, <1>3, <1>4, FinishedInside, MetricsFields
  <2>2. Makes(global.in_flight, n)
    BY DEF CountersAddUp, MadeUp
  <2>3. global'.in_flight = global.in_flight - 1
    BY <1>2, <1>3, <1>4, FinishedInside
  <2> HIDE DEF n, k
  <2>4. Makes(global.in_flight - 1, k)
    BY <2>1, <2>2, MakesOneLess
  <2> QED
    BY <2>3, <2>4 DEF k
<1>7. Makes(global'.errors, [e \in Endpoints |-> by_endpoint'[e].errors])
  <2> DEFINE n == [e \in Endpoints |-> by_endpoint[e].errors]
             k == [e \in Endpoints |-> by_endpoint'[e].errors]
  <2>1. /\ n[e0] \in Nat /\ \A e \in Endpoints \ {e0} : k[e] = n[e]
        /\ k[e0] = IF code >= 400 THEN n[e0] + 1 ELSE n[e0]
    <3>1. request_finished(by_endpoint[e0], code).errors =
            IF code >= 400 THEN by_endpoint[e0].errors + 1 ELSE by_endpoint[e0].errors
      BY <1>3, Finished
    <3>2. by_endpoint[e0].errors \in Nat
      BY <1>3, MetricsFields
    <3> QED
      BY <1>4, <3>1, <3>2
  <2>2. Makes(global.errors, n)
    BY DEF CountersAddUp, MadeUp
  <2>3. global'.errors = IF code >= 400 THEN global.errors + 1 ELSE global.errors
    BY <1>3, <1>4, Finished
  <2> HIDE DEF n, k
  <2>4. CASE code >= 400
    <3>1. Makes(global.errors + 1, k)
      BY <2>1, <2>2, <2>4, MakesOneMore
    <3> QED
      BY <2>3, <2>4, <3>1 DEF k
  <2>5. CASE ~(code >= 400)
    <3>1. Makes(global.errors, k)
      BY <2>1, <2>2, <2>5, MakesSame
    <3> QED
      BY <2>3, <2>5, <3>1 DEF k
  <2> QED
    BY <2>4, <2>5
<1>8. ASSUME NEW c \in Classes
      PROVE  Makes(global'.status_counts[c], [e \in Endpoints |-> by_endpoint'[e].status_counts[c]])
  <2> DEFINE n == [e \in Endpoints |-> by_endpoint[e].status_counts[c]]
             k == [e \in Endpoints |-> by_endpoint'[e].status_counts[c]]
             total == global.status_counts[c]
  <2>1. ASSUME NEW m \in EndpointMetrics
        PROVE  request_finished(m, code).status_counts[c] =
                 IF c = c0 THEN m.status_counts[c] + 1 ELSE m.status_counts[c]
    <3>1. c0 \in Classes
      BY Class
    <3> HIDE DEF c0
    <3>2. request_finished(m, code).status_counts =
            [m.status_counts EXCEPT ![c0] = m.status_counts[c0] + 1]
      BY Finished DEF c0
    <3> QED
      BY <3>1, <3>2, MetricsFields
  <2> HIDE DEF c0
  <2>2. /\ n[e0] \in Nat /\ \A e \in Endpoints \ {e0} : k[e] = n[e]
        /\ k[e0] = IF c = c0 THEN n[e0] + 1 ELSE n[e0]
    BY <1>3, <1>4, <2>1, MetricsFields
  <2>3. Makes(total, n)
    BY DEF CountersAddUp, MadeUp
  <2>4. global'.status_counts[c] = IF c = c0 THEN total + 1 ELSE total
    BY <1>3, <1>4, <2>1
  <2> HIDE DEF n, k, total
  <2>5. CASE c = c0
    <3>1. Makes(total + 1, k)
      BY <2>2, <2>3, <2>5, MakesOneMore
    <3> QED
      BY <2>4, <2>5, <3>1 DEF k
  <2>6. CASE c # c0
    <3>1. Makes(total, k)
      BY <2>2, <2>3, <2>6, MakesSame
    <3> QED
      BY <2>4, <2>6, <3>1 DEF k
  <2> QED
    BY <2>5, <2>6
<1> QED
  BY <1>5, <1>6, <1>7, <1>8 DEF CountersAddUp, MadeUp

LEMMA MadeUpNone ==
  ASSUME NEW parts, \A e \in Endpoints : parts[e] = NoRequests
  PROVE  MadeUp(NoRequests, parts)
  BY NoRequestsType, UnitsNone DEF MadeUp

LEMMA CountersStep ==
  ASSUME GatewayTypeOK, Delivered, Flights, CountersAddUp, [GatewayNext]_gatewayVars
  PROVE  CountersAddUp'
<1>1. CASE UNCHANGED counters
  BY <1>1 DEF CountersAddUp, MadeUp, Makes, Total, Units, counters
<1>2. ASSUME NEW a \in Attempts, Serve(a)
      PROVE  CountersAddUp'
  BY <1>1, <1>2, ServeStep
<1>3. CASE RestartGateway
  <2>1. global' = NoRequests /\ \A e \in Endpoints : by_endpoint'[e] = NoRequests
    BY <1>3, RestartStep
  <2> QED
    BY <2>1, MadeUpNone DEF CountersAddUp
<1>4. CASE PassTime \/ AllAnswered \/ UNCHANGED gatewayVars
  BY <1>1, <1>4 DEF PassTime, AllAnswered, gatewayVars
<1> QED
  BY <1>2, <1>3, <1>4, MadeUpArrive, MadeUpLeave DEF GatewayNext, Serve, Leaves

(* A snapshot is a copy of counters that add up.                           *)
LEMMA AddUpStep ==
  ASSUME GatewayTypeOK, Delivered, CountersAddUp, EndpointsAddUp, [GatewayNext]_gatewayVars
  PROVE  EndpointsAddUp'
<1>1. CASE UNCHANGED reported
  BY <1>1 DEF EndpointsAddUp
<1>2. ASSUME NEW a \in Attempts, Serve(a)
      PROVE  EndpointsAddUp'
  <2> DEFINE snapshot == [global |-> global, endpoints |-> by_endpoint]
  <2>1. AddUp(snapshot.global, snapshot.endpoints)
    BY MadeUpAddsUp DEF CountersAddUp
  <2>2. \A b \in Attempts : reported'[b] = reported[b] \/ (b = a /\ reported'[b] = snapshot)
    BY <1>2, SnapshotStep
  <2> HIDE DEF snapshot
  <2> QED
    BY <2>1, <2>2 DEF EndpointsAddUp
<1>3. ASSUME NEW a \in Attempts, NEW m \in Messages, Arrive(a, m)
      PROVE  EndpointsAddUp'
  BY <1>1, <1>3, ArriveStep
<1>4. ASSUME NEW a \in Attempts, Leaves(a)
      PROVE  EndpointsAddUp'
  BY <1>1, <1>4, LeaveStep
<1>5. CASE RestartGateway \/ PassTime \/ AllAnswered \/ UNCHANGED gatewayVars
  BY <1>1, <1>5 DEF RestartGateway, PassTime, AllAnswered, gatewayVars
<1> QED
  BY <1>2, <1>3, <1>4, <1>5 DEF GatewayNext, Serve, Leaves

-----------------------------------------------------------------------------
(* Successes of guarded endpoints are requests that were let in.           *)

LEMMA ServedStep ==
  ASSUME TypeOK, Windows, GatewayTypeOK, Delivered, Traced, Guarded, ServedCounted,
         [GatewayNext]_gatewayVars
  PROVE  ServedCounted'
<1>1. ASSUME \A e \in Endpoints : Served(e)' = Served(e) /\ by_endpoint'[e].status_counts = by_endpoint[e].status_counts
      PROVE  ServedCounted'
  BY <1>1 DEF ServedCounted
<1>2. ASSUME NEW a \in Attempts, Serve(a)
      PROVE  ServedCounted'
  <2>1. /\ restarts' = restarts
        /\ \A b \in Attempts \ {a} : life'[b] = life[b]
    BY <1>2 DEF Serve, RefuseUnread, ServePublic, Handle, RefuseOrder, TakeSnapshot,
       HandlerRaises, vars, Authenticate, DependencyRaises, TypeOK, Check, RejectForged, Abort,
         RejectReplay, Admit, Leave
  <2>2. \A e \in Endpoints : Served(e)' = Served(e)
    BY <1>2, <2>1, ServeStep DEF Served, Inside, EndpointFor
  <2> QED
    BY <1>1, <1>2, <2>2, ServeStep DEF counters
<1>3. ASSUME NEW a \in Attempts, NEW m \in Messages, Arrive(a, m)
      PROVE  ServedCounted'
  <2> DEFINE e0 == EndpointOf[m]
  <2>1. \A e \in Endpoints : Served(e)' = Served(e)
    BY <1>3, ArriveStep DEF Served, EndpointFor, vars
  <2>2. /\ e0 \in Endpoints
        /\ by_endpoint' = [by_endpoint EXCEPT ![e0] = request_started(by_endpoint[e0])]
    BY <1>3, ArriveStep
  <2> HIDE DEF e0
  <2>3. request_started(by_endpoint[e0]).status_counts = by_endpoint[e0].status_counts
    BY <2>2, Started DEF GatewayTypeOK
  <2>4. \A e \in Endpoints : by_endpoint'[e].status_counts = by_endpoint[e].status_counts
    BY <2>2, <2>3 DEF GatewayTypeOK
  <2> QED
    BY <1>1, <2>1, <2>4
<1>4. ASSUME NEW a \in Attempts, Leaves(a)
      PROVE  ServedCounted'
  <2>0. PICK e0 \in Endpoints, code \in Statuses : e0 = EndpointFor(a) /\ code = status'[a]
    BY <1>4, LeaveStep, GatewayAssumption DEF EndpointFor, Delivered
  <2>1. /\ CountFinished(e0, code)
        /\ stage[a] \in {"responding", "raising"} /\ stage'[a] = "answered"
        /\ UNCHANGED <<life, restarts>>
        /\ \A b \in Attempts : EndpointFor(b)' = EndpointFor(b)
        /\ \A b \in Attempts \ {a} : stage'[b] = stage[b] /\ status'[b] = status[b]
    BY <1>4, <2>0, LeaveStep DEF EndpointFor, vars
  <2>2. code = 200 /\ RouteOf[e0] \notin Public => life[a] = restarts
    <3>1. code = 200 => stage[a] = "responding" /\ status[a] = 200
      BY <1>4, <2>0, LeaveStep
    <3>2. code = 200 /\ RouteOf[e0] \notin Public => pc[a] = "admitted"
      BY <2>0, <3>1 DEF Guarded, LetIn, Route
    <3> QED
      BY <2>1, <3>2 DEF Traced, InFlight
  <2>3. EndpointFor(a)' = e0
    BY <2>0, <2>1
  <2>4. status'[a] = code
    BY <2>0
  <2>5. \A b \in Attempts, e \in Endpoints : b # a \/ e # e0 =>
          ((/\ stage'[b] = "answered" /\ status'[b] = 200
            /\ EndpointFor(b)' = e /\ life'[b] = restarts')
           <=> (/\ stage[b] = "answered" /\ status[b] = 200
                /\ EndpointFor(b) = e /\ life[b] = restarts))
    BY <2>0, <2>1, <2>3
  <2>6. a \notin Served(e0) /\ \A e \in Endpoints \ {e0} : Served(e)' = Served(e)
    BY <2>1, <2>5 DEF Served
  <2>7. by_endpoint[e0] \in EndpointMetrics
    BY <2>1 DEF GatewayTypeOK
  <2>8. by_endpoint'[e0] = request_finished(by_endpoint[e0], code)
        /\ \A e \in Endpoints \ {e0} : by_endpoint'[e] = by_endpoint[e]
    BY <2>1 DEF GatewayTypeOK, CountFinished
  <2>9. by_endpoint'[e0].status_counts[2] =
          IF code = 200 THEN by_endpoint[e0].status_counts[2] + 1
                        ELSE by_endpoint[e0].status_counts[2]
    BY <2>1, <2>7, <2>8, FinishedSuccess
  <2>10. SUFFICES ASSUME NEW e \in Endpoints, RouteOf[e] \notin Public
                  PROVE  IsFiniteSet(Served(e)')
                         /\ by_endpoint'[e].status_counts[2] = Cardinality(Served(e)')
    BY DEF ServedCounted
  <2>11. IsFiniteSet(Served(e)) /\ by_endpoint[e].status_counts[2] = Cardinality(Served(e))
    BY <2>10 DEF ServedCounted
  <2>12. CASE e # e0
    BY <2>6, <2>8, <2>11, <2>12
  <2>13. CASE e = e0 /\ code = 200
    <3>1. Served(e0)' = Served(e0) \cup {a}
      BY <2>1, <2>2, <2>3, <2>4, <2>5, <2>10, <2>13 DEF Served
    <3>2. IsFiniteSet(Served(e0)') /\ Cardinality(Served(e0)') = Cardinality(Served(e0)) + 1
      BY <2>6, <2>11, <2>13, <3>1, FS_AddElement
    <3> QED
      BY <2>9, <2>11, <2>13, <3>2
  <2>14. CASE e = e0 /\ code # 200
    <3>1. Served(e0)' = Served(e0)
      BY <2>1, <2>3, <2>4, <2>5, <2>14 DEF Served
    <3> QED
      BY <2>9, <2>11, <2>14, <3>1
  <2> QED
    BY <2>12, <2>13, <2>14
(* Whoever was served before a restart is of an earlier life.              *)
<1>5. CASE RestartGateway
  <2>1. Restart /\ by_endpoint' = [e \in Endpoints |-> NoRequests]
    BY <1>5, RestartStep
  <2>2. \A e \in Endpoints : Served(e)' = {}
    BY <2>1 DEF Restart, Served, Windows, TypeOK
  <2>3. 2 \in Classes
    BY DEF Classes
  <2> QED
    BY <2>1, <2>2, <2>3, NoRequestsType, FS_EmptySet DEF ServedCounted
<1>6. CASE PassTime \/ AllAnswered \/ UNCHANGED gatewayVars
  BY <1>6 DEF PassTime, AllAnswered, Tick, gatewayVars, vars, serving, counters, ServedCounted,
     Served, EndpointFor
<1> QED
  BY <1>2, <1>3, <1>4, <1>5, <1>6 DEF GatewayNext, Serve, Leaves

-----------------------------------------------------------------------------
(* The invariant and what follows from it.                                 *)

LEMMA GatewayInvInit == GatewayInit => GatewayIInv
<1> SUFFICES ASSUME GatewayInit
             PROVE  GatewayIInv
  OBVIOUS
<1>1. IInv
  BY InvInit DEF GatewayInit
<1>2. GatewayTypeOK
  BY NoRequestsType DEF GatewayInit, GatewayTypeOK, Stages
<1>3. Delivered /\ Traced /\ Guarded
  BY DEF GatewayInit, Init, Delivered, Traced, Guarded, LetIn
<1>4. Flights
  <2>1. Flying = {} /\ \A e : FlyingTo(e) = {}
    BY DEF GatewayInit, Flying, FlyingTo, InFlight
  <2>2. global.in_flight = 0 /\ \A e \in Endpoints : by_endpoint[e].in_flight = 0
    BY NoRequestsType DEF GatewayInit
  <2> QED
    BY <2>1, <2>2, FS_EmptySet DEF Flights, InFlightIsReal, Flying, FlyingTo
<1>5. Balances /\ SnapshotsBalance
  <2>1. Balanced(NoRequests)
    BY NoRequestsType DEF Balanced, Classes
  <2> QED
    BY <2>1 DEF GatewayInit, Balances, SnapshotsBalance
<1>6. CountersAddUp /\ EndpointsAddUp
  BY MadeUpNone DEF GatewayInit, CountersAddUp, EndpointsAddUp
<1>7. ServedCounted
  <2>1. \A e \in Endpoints : Served(e) = {}
    BY DEF GatewayInit, Served
  <2>2. \A e \in Endpoints : by_endpoint[e].status_counts[2] = 0
    BY NoRequestsType DEF GatewayInit, Classes
  <2> QED
    BY <2>1, <2>2, FS_EmptySet DEF ServedCounted
<1> QED
  BY <1>1, <1>2, <1>3, <1>4, <1>5, <1>6, <1>7 DEF GatewayIInv

LEMMA GatewayInvStep == GatewayIInv /\ [GatewayNext]_gatewayVars => GatewayIInv'
<1> SUFFICES ASSUME GatewayIInv, [GatewayNext]_gatewayVars
             PROVE  GatewayIInv'
  OBVIOUS
<1>1. /\ IInv /\ TypeOK /\ Windows /\ GatewayTypeOK /\ Delivered /\ Traced /\ Guarded
      /\ Flights /\ Balances /\ SnapshotsBalance /\ CountersAddUp /\ EndpointsAddUp
      /\ ServedCounted
  BY DEF GatewayIInv, IInv
<1>2. IInv'
  BY <1>1, AuthStep, InvStep
<1> QED
  BY <1>1, <1>2, GatewayTypeStep, DeliveredStep, TracedStep, GuardedStep, FlightsStep,
     BalancesStep, SnapshotsStep, CountersStep, AddUpStep, ServedStep DEF GatewayIInv

(* GatewayIInv holds in every reachable state of the gateway: the base of  *)
(* the theorems below.                                                     *)
THEOREM GatewayInvariance == GatewaySpec => []GatewayIInv
  BY GatewayInvInit, GatewayInvStep, PTL DEF GatewaySpec

(* To the authentication the gateway is nothing but a run of it: requests  *)
(* come and go, public routes and handlers do their work, and its state is *)
(* touched by its own steps only.                                          *)
THEOREM GatewayRunsAuthentication == GatewaySpec => Spec
<1>1. GatewayIInv /\ [GatewayNext]_gatewayVars => [Next]_vars
  BY AuthStep DEF GatewayIInv
<1>2. GatewayInit => Init
  BY DEF GatewayInit
<1> QED
  BY <1>1, <1>2, GatewayInvariance, PTL DEF GatewaySpec, Spec

(* So behind the middleware, too, no message is accepted twice in one life *)
(* of the gateway.                                                         *)
THEOREM GatewayNoReplay == TtlCoversWindow => (GatewaySpec => []AcceptedOnce)
  BY NoReplay, GatewayRunsAuthentication

(* Requests, statuses, counters and snapshots keep their types: no status  *)
(* but those the handlers and refusals make is ever counted.               *)
THEOREM GatewayTypeCorrectness == GatewaySpec => []GatewayTypeOK
<1>1. GatewayIInv => GatewayTypeOK
  BY DEF GatewayIInv
<1> QED
  BY <1>1, GatewayInvariance, PTL

(* in_flight is the number of requests inside the middleware, in total and *)
(* per endpoint, whatever their number and however they end.               *)
THEOREM InFlightCorrect == GatewaySpec => []InFlightIsReal
<1>1. GatewayIInv => InFlightIsReal
  BY DEF GatewayIInv, Flights
<1> QED
  BY <1>1, GatewayInvariance, PTL

(* In every snapshot the requests are those in flight and those answered,  *)
(* and the errors are the answers of the failing classes.                  *)
THEOREM SnapshotsCorrect == GatewaySpec => []SnapshotsBalance
<1>1. GatewayIInv => SnapshotsBalance
  BY DEF GatewayIInv
<1> QED
  BY <1>1, GatewayInvariance, PTL

(* In every snapshot each number of the total is the sum of that number    *)
(* over the endpoints, for any endpoints and however many requests there   *)
(* were: request_started and request_finished update both in one critical  *)
(* section, and the floor of 0 never takes from one but not the other.     *)
THEOREM EndpointsSum == GatewaySpec => []EndpointsAddUp
<1>1. GatewayIInv => EndpointsAddUp
  BY DEF GatewayIInv
<1> QED
  BY <1>1, GatewayInvariance, PTL

(* The requests served by a guarded endpoint have different messages, all  *)
(* of them good: there are no more of them than good messages to it.       *)
LEMMA ServedInject ==
  ASSUME IsFiniteSet(Messages), GatewayIInv, AcceptedOnce
  PROVE  ServedOnce
<1> SUFFICES ASSUME NEW e \in Endpoints, RouteOf[e] \notin Public
             PROVE  by_endpoint[e].status_counts[2] <=
                      Cardinality({m \in Readable \cap Signed \cap Scoped : EndpointOf[m] = e})
  BY DEF ServedOnce
<1> DEFINE good == {m \in Readable \cap Signed \cap Scoped : EndpointOf[m] = e}
           f == [a \in Served(e) |-> message[a]]
<1>1. IsFiniteSet(good)
  BY FS_Subset, ConstantsAssumption
<1>2. \A a \in Served(e) : /\ a \in Attempts /\ pc[a] = "admitted" /\ life[a] = restarts
                           /\ message[a] \in good
  BY DEF Served, GatewayIInv, Guarded, LetIn, Route, EndpointFor, Traced
<1>3. f \in [Served(e) -> good]
  BY <1>2
<1>4. \A a, b \in Served(e) : a # b => f[a] # f[b]
  BY <1>2 DEF AcceptedOnce, Remembered
<1> HIDE DEF good, f
<1>5. f \in Injection(Served(e), good)
  BY <1>3, <1>4 DEF Injection, IsInjective
<1>6. Cardinality(Served(e)) <= Cardinality(good)
  BY <1>1, <1>5, FS_Injection
<1> QED
  BY <1>6 DEF GatewayIInv, ServedCounted, good

(* However often clients repeat themselves, a guarded endpoint reports no  *)
(* more successes in one life of the gateway than there are messages to it *)
(* that deserve one; of those only finitely many are supposed to exist.    *)
THEOREM ServesOnce ==
  TtlCoversWindow /\ IsFiniteSet(Messages) => (GatewaySpec => []ServedOnce)
<1> SUFFICES ASSUME TtlCoversWindow, IsFiniteSet(Messages)
             PROVE  GatewaySpec => []ServedOnce
  OBVIOUS
<1>1. GatewayIInv /\ AcceptedOnce => ServedOnce
  BY ServedInject
<1> QED
  BY <1>1, GatewayInvariance, GatewayNoReplay, PTL

=============================================================================
