------------------------------ MODULE BtgClient ------------------------------
(***************************************************************************)
(* BtgTraderDeskClient between the worker threads that share it: probes,   *)
(* the calls of MarketDataService.readiness that open a session and report *)
(* the connection's state, and queries, the calls of symbol_info_tick that *)
(* ask the Trader Desk for the fields of one symbol over one session at a  *)
(* time.                                                                   *)
(*                                                                         *)
(* A step is one critical section, or one exchange with the Trader Desk,   *)
(* which may refuse, break off, stay silent or answer anything.  The token *)
(* is configured and symbols are not blank.                                *)
(***************************************************************************)
EXTENDS Integers, Sequences

CONSTANTS
  Probes,             \* calls of readiness, each made once
  Queries,            \* calls of symbol_info_tick, each made once
  Symbols,
  SymbolOf,           \* the normalised symbol each query asks for
  None,
  Fields,             \* the keys of QUOTE_FIELD_MAP, in order
  Budget,             \* btg_trader_desk_symbol_timeout_seconds, in clock units
  TickTtl,            \* quote_cache_ttl_ms, likewise; 0 disables the cache
  MaxTime             \* bound of the model: the clock stops here

(* The keys _has_market_data looks at; the other fields are decoration.    *)
MarketFields == {"last", "bid", "ask", "volume"}

(* What a market field may hold: a number, text that is none, or a number  *)
(* that int() cannot represent.                                            *)
Values == {"number", "text", "infinite"}

Kinds == {"tick", "nothing", "timeout", "connection_error", "unexpected"}

Outcomes == [kind : Kinds, by : Queries, at : Nat]

TickEntries == [expires : Nat, outcome : Outcomes]

ASSUME ConstantsAssumption ==
  /\ SymbolOf \in [Queries -> Symbols]
  /\ Fields \in Seq(STRING)
  /\ Budget \in Nat
  /\ TickTtl \in Nat
  /\ MaxTime \in Nat
  /\ None \notin Queries
  /\ None \notin Outcomes
  /\ None \notin TickEntries

VARIABLES
  now,         \* time.monotonic()
  serving,     \* whether the application still takes calls
  state,       \* _state, a ProviderConnectionState
  losses,      \* history: how often the connection went from up to down
  probe,       \* where each probe is in readiness
  report,      \* what each probe returned
  lostBefore,  \* history: losses when each probe succeeded
  pc,          \* where each query is in symbol_info_tick
  begun,       \* history: when each query entered symbol_info_tick
  since,       \* when each query finished its latest step
  deadline,    \* the deadline of each query
  asked,       \* how many of the fields each query is through with
  got,         \* the values of the market fields each query received
  outcome,     \* what each query is about to return or raise
  rtdLock,     \* the query that holds _rtd_lock
  tickCache    \* _tick_cache

connection == <<serving, state, losses>>
probing == <<probe, report, lostBefore>>
fields == <<deadline, asked, got>>
querying == <<pc, begun, since, fields, outcome, rtdLock, tickCache>>
vars == <<now, connection, probing, querying>>

States == {"disconnected", "connecting", "connected", "error"}

ConnectionStates ==
  [connected : BOOLEAN, state : States, connect_attempts : Nat,
   reconnect_count : Nat, last_connected_at : BOOLEAN, last_error : BOOLEAN]

Reports ==
  [status : {"ready"}, connected : BOOLEAN, state : States]
    \cup [status : {"not_ready"}, connected : {FALSE}, state : {"error"}]

Locations == {"idle", "lookup", "budget", "rtd_lock", "handshake", "fields",
              "convert", "store_tick", "mark_failure", "done"}

-----------------------------------------------------------------------------
(* _state, guarded by _lock.  Its two times are kept as whether they are    *)
(* set, its last_error as whether there is one.                            *)

(* Operators named ...Mutant are plausible bugs, not part of the model: the *)
(* properties are shown to fail when one of them replaces its original.    *)
MarkSuccessMutant ==
  /\ state' = [state EXCEPT
       !.connected = TRUE, !.state = "connected", !.last_connected_at = TRUE,
       !.last_error = FALSE,
       !.reconnect_count = IF state.last_connected_at THEN @ + 1 ELSE @]
  /\ UNCHANGED losses

MarkConnectionSuccess ==
  /\ state' = [state EXCEPT
       !.connected = TRUE, !.state = "connected", !.last_connected_at = TRUE,
       !.last_error = FALSE,
       !.reconnect_count =
          IF ~state.connected /\ state.last_connected_at THEN @ + 1 ELSE @]
  /\ UNCHANGED losses

MarkProbeSuccess ==
  /\ state' = [state EXCEPT
       !.connected = TRUE, !.state = "connected", !.last_error = FALSE]
  /\ UNCHANGED losses

FailureMutant ==
  /\ state' = [state EXCEPT !.connected = FALSE, !.last_error = TRUE]
  /\ losses' = IF state.connected THEN losses + 1 ELSE losses

MarkConnectionFailure ==
  /\ state' = [state EXCEPT
       !.connected = FALSE, !.state = "error", !.last_error = TRUE]
  /\ losses' = IF state.connected THEN losses + 1 ELSE losses

-----------------------------------------------------------------------------
(* MarketDataService.readiness: ensure_connected, then connection_status.  *)

BeginProbeMutant(p) ==
  /\ serving
  /\ probe[p] = "idle"
  /\ probe' = [probe EXCEPT ![p] = "connecting"]
  /\ state' = [state EXCEPT !.connect_attempts = @ + 1, !.state = "connecting",
                             !.connected = FALSE]
  /\ UNCHANGED <<now, serving, losses, report, lostBefore, querying>>

BeginProbe(p) ==
  /\ serving
  /\ probe[p] = "idle"
  /\ probe' = [probe EXCEPT ![p] = "connecting"]
  /\ state' = [state EXCEPT !.connect_attempts = @ + 1, !.state = "connecting"]
  /\ UNCHANGED <<now, serving, losses, report, lostBefore, querying>>

ProbeSucceeds(p) ==
  /\ probe[p] = "connecting"
  /\ probe' = [probe EXCEPT ![p] = "connected"]
  /\ MarkConnectionSuccess
  /\ lostBefore' = [lostBefore EXCEPT ![p] = losses]
  /\ UNCHANGED <<now, serving, report, querying>>

ProbeFails(p) ==
  /\ probe[p] = "connecting"
  /\ probe' = [probe EXCEPT ![p] = "done"]
  /\ report' = [report EXCEPT ![p] =
       [status |-> "not_ready", connected |-> FALSE, state |-> "error"]]
  /\ MarkConnectionFailure
  /\ UNCHANGED <<now, serving, lostBefore, querying>>

ReportStatus(p) ==
  /\ probe[p] = "connected"
  /\ probe' = [probe EXCEPT ![p] = "done"]
  /\ report' = [report EXCEPT ![p] =
       [status |-> "ready", connected |-> state.connected, state |-> state.state]]
  /\ lostBefore' = [lostBefore EXCEPT ![p] = 0]
  /\ UNCHANGED <<now, connection, querying>>

-----------------------------------------------------------------------------
(* symbol_info_tick: the tick cache.                                       *)

(* Query q takes a step from one location to another at the present.       *)
Go(q, from, to) ==
  /\ pc[q] = from
  /\ pc' = [pc EXCEPT ![q] = to]
  /\ since' = [since EXCEPT ![q] = now]
  /\ UNCHANGED <<now, serving, probing>>

Settle(q, kind) ==
  outcome' = [outcome EXCEPT ![q] = [kind |-> kind, by |-> q, at |-> now]]

(* The local variables of a query that is over.                            *)
Forget(q) ==
  /\ deadline' = [deadline EXCEPT ![q] = 0]
  /\ asked' = [asked EXCEPT ![q] = 0]
  /\ got' = [got EXCEPT ![q] = {}]

(* What the code reads from the clock before it takes a lock.              *)
ClockReadings(q) == since[q]..now

LiveMutant(q, t) ==
  TickTtl > 0 /\ tickCache[SymbolOf[q]] # None

Live(q, t) ==
  /\ TickTtl > 0
  /\ tickCache[SymbolOf[q]] # None
  /\ tickCache[SymbolOf[q]].expires >= t

BeginQuery(q) ==
  /\ serving
  /\ Go(q, "idle", "lookup")
  /\ begun' = [begun EXCEPT ![q] = now]
  /\ UNCHANGED <<state, losses, fields, outcome, rtdLock, tickCache>>

TickHit(q) ==
  /\ Go(q, "lookup", "done")
  /\ \E t \in ClockReadings(q) : Live(q, t)
  /\ outcome' = [outcome EXCEPT ![q] = tickCache[SymbolOf[q]].outcome]
  /\ UNCHANGED <<state, losses, begun, fields, rtdLock, tickCache>>

TickMiss(q) ==
  /\ Go(q, "lookup", "budget")
  /\ \E t \in ClockReadings(q) : ~Live(q, t)
  /\ tickCache' = IF TickTtl > 0 THEN [tickCache EXCEPT ![SymbolOf[q]] = None]
                                 ELSE tickCache
  /\ UNCHANGED <<state, losses, begun, fields, outcome, rtdLock>>

StoredMutant(q, t) ==
  [tickCache EXCEPT ![SymbolOf[q]] = [expires |-> t - 2 * TickTtl, outcome |-> outcome[q]]]

Stored(q, t) ==
  [tickCache EXCEPT ![SymbolOf[q]] = [expires |-> t + TickTtl, outcome |-> outcome[q]]]

StoreTick(q) ==
  /\ Go(q, "store_tick", "done")
  /\ IF TickTtl > 0 THEN \E t \in ClockReadings(q) : tickCache' = Stored(q, t)
                    ELSE UNCHANGED tickCache
  /\ UNCHANGED <<state, losses, begun, fields, outcome, rtdLock>>

-----------------------------------------------------------------------------
(* _query_fields: the deadline, the lock, the session, field by field.     *)

SetDeadline(q) ==
  /\ Go(q, "budget", "rtd_lock")
  /\ \E t \in ClockReadings(q) : deadline' = [deadline EXCEPT ![q] = t + Budget]
  /\ UNCHANGED <<state, losses, begun, asked, got, outcome, rtdLock, tickCache>>

AcquireRtdLock(q) ==
  /\ Go(q, "rtd_lock", "handshake")
  /\ rtdLock = None
  /\ rtdLock' = q
  /\ UNCHANGED <<state, losses, begun, fields, outcome, tickCache>>

OpenSession(q) ==
  /\ Go(q, "handshake", "fields")
  /\ UNCHANGED <<state, losses, begun, fields, outcome, rtdLock, tickCache>>

(* A wrong banner or token, or the peer hung up: a ProviderConnectionError *)
(* that symbol_info_tick passes on without marking it.                     *)
SessionRefused(q) ==
  /\ Go(q, "handshake", "done")
  /\ Settle(q, "connection_error")
  /\ rtdLock' = None
  /\ Forget(q)
  /\ UNCHANGED <<state, losses, begun, tickCache>>

SessionBreaksMutant(q) ==
  /\ \/ Go(q, "handshake", "mark_failure")
     \/ Go(q, "fields", "mark_failure") /\ asked[q] < Len(Fields)
  /\ Settle(q, "connection_error")
  /\ Forget(q)
  /\ UNCHANGED <<state, losses, begun, rtdLock, tickCache>>

(* An OSError, socket timeouts of the handshake included.                  *)
SessionBreaks(q) ==
  /\ \/ Go(q, "handshake", "mark_failure")
     \/ Go(q, "fields", "mark_failure") /\ asked[q] < Len(Fields)
  /\ Settle(q, "connection_error")
  /\ rtdLock' = None
  /\ Forget(q)
  /\ UNCHANGED <<state, losses, begun, tickCache>>

MarkFailure(q) ==
  /\ Go(q, "mark_failure", "done")
  /\ MarkConnectionFailure
  /\ UNCHANGED <<begun, fields, outcome, rtdLock, tickCache>>

(* One call of _TraderDeskSession.query that ends within the deadline: a   *)
(* payload for the field, or none after two attempts.                      *)
AskField(q) ==
  /\ Go(q, "fields", "fields")
  /\ asked[q] < Len(Fields)
  /\ since[q] <= deadline[q]
  /\ asked' = [asked EXCEPT ![q] = @ + 1]
  /\ LET field == Fields[asked[q] + 1] IN
       \/ UNCHANGED got
       \/ /\ field \in MarketFields
          /\ \E value \in Values :
               /\ value = "infinite" => field = "volume"
               /\ got' = [got EXCEPT ![q] = @ \cup {value}]
  /\ UNCHANGED <<state, losses, begun, deadline, outcome, rtdLock, tickCache>>

(* The deadline passed: a tick is made of the market data received so far. *)
SettleForPartial(q) ==
  /\ Go(q, "fields", "fields")
  /\ asked[q] < Len(Fields)
  /\ now > deadline[q]
  /\ got[q] # {}
  /\ asked' = [asked EXCEPT ![q] = Len(Fields)]
  /\ UNCHANGED <<state, losses, begun, deadline, got, outcome, rtdLock, tickCache>>

FieldsTimeOut(q) ==
  /\ Go(q, "fields", "done")
  /\ asked[q] < Len(Fields)
  /\ now > deadline[q]
  /\ got[q] = {}
  /\ Settle(q, "timeout")
  /\ rtdLock' = None
  /\ Forget(q)
  /\ UNCHANGED <<state, losses, begun, tickCache>>

(* _mark_probe_success, under _rtd_lock.                                   *)
FinishSession(q) ==
  /\ Go(q, "fields", "convert")
  /\ asked[q] = Len(Fields)
  /\ MarkProbeSuccess
  /\ rtdLock' = None
  /\ UNCHANGED <<begun, fields, outcome, tickCache>>

(* _to_float and _to_int: text that is no number counts as no value, an    *)
(* infinite volume raises OverflowError.                                   *)
Convert(q) ==
  /\ IF got[q] \subseteq {"text"} THEN Go(q, "convert", "done") /\ Settle(q, "nothing")
     ELSE IF "infinite" \in got[q]
     THEN Go(q, "convert", "done") /\ Settle(q, "unexpected")
     ELSE Go(q, "convert", "store_tick") /\ Settle(q, "tick")
  /\ Forget(q)
  /\ UNCHANGED <<state, losses, begun, rtdLock, tickCache>>

-----------------------------------------------------------------------------
(* The application's shutdown hook runs once the last call has ended.      *)
Shutdown ==
  /\ serving
  /\ \A p \in Probes : probe[p] \in {"idle", "done"}
  /\ \A q \in Queries : pc[q] \in {"idle", "done"}
  /\ serving' = FALSE
  /\ state' = [state EXCEPT !.connected = FALSE, !.state = "disconnected"]
  /\ UNCHANGED <<now, losses, probing, querying>>

(* Time passes wherever the queries are: nothing in the code bounds how    *)
(* long a lock is awaited, a greeting takes, or a thread is kept waiting.  *)
Tick ==
  /\ serving
  /\ now < MaxTime
  /\ now' = now + 1
  /\ UNCHANGED <<connection, probing, pc, begun, since, fields, outcome, rtdLock, tickCache>>

-----------------------------------------------------------------------------

Init ==
  /\ now = 0
  /\ serving = TRUE
  /\ state = [connected |-> FALSE, state |-> "disconnected", connect_attempts |-> 0,
              reconnect_count |-> 0, last_connected_at |-> FALSE, last_error |-> FALSE]
  /\ losses = 0
  /\ probe = [p \in Probes |-> "idle"]
  /\ report = [p \in Probes |-> None]
  /\ lostBefore = [p \in Probes |-> 0]
  /\ pc = [q \in Queries |-> "idle"]
  /\ begun = [q \in Queries |-> 0]
  /\ since = [q \in Queries |-> 0]
  /\ deadline = [q \in Queries |-> 0]
  /\ asked = [q \in Queries |-> 0]
  /\ got = [q \in Queries |-> {}]
  /\ outcome = [q \in Queries |-> None]
  /\ rtdLock = None
  /\ tickCache = [s \in Symbols |-> None]

Readiness(p) ==
  BeginProbe(p) \/ ProbeSucceeds(p) \/ ProbeFails(p) \/ ReportStatus(p)

Session(q) ==
  \/ OpenSession(q)
  \/ SessionRefused(q)
  \/ SessionBreaks(q)
  \/ AskField(q)
  \/ SettleForPartial(q)
  \/ FieldsTimeOut(q)
  \/ FinishSession(q)

SymbolInfoTick(q) ==
  \/ BeginQuery(q)
  \/ TickHit(q)
  \/ TickMiss(q)
  \/ SetDeadline(q)
  \/ AcquireRtdLock(q)
  \/ Session(q)
  \/ MarkFailure(q)
  \/ Convert(q)
  \/ StoreTick(q)

Stopped == ~serving /\ UNCHANGED vars

Next ==
  \/ Tick
  \/ \E p \in Probes : Readiness(p)
  \/ \E q \in Queries : SymbolInfoTick(q)
  \/ Shutdown
  \/ Stopped

Spec == Init /\ [][Next]_vars

-----------------------------------------------------------------------------
(* Properties.                                                             *)

TypeOK ==
  /\ now \in Nat
  /\ serving \in BOOLEAN
  /\ state \in ConnectionStates
  /\ losses \in Nat
  /\ probe \in [Probes -> {"idle", "connecting", "connected", "done"}]
  /\ report \in [Probes -> Reports \cup {None}]
  /\ lostBefore \in [Probes -> Nat]
  /\ pc \in [Queries -> Locations]
  /\ begun \in [Queries -> Nat]
  /\ since \in [Queries -> Nat]
  /\ deadline \in [Queries -> Nat]
  /\ asked \in [Queries -> 0..Len(Fields)]
  /\ got \in [Queries -> SUBSET Values]
  /\ outcome \in [Queries -> Outcomes \cup {None}]
  /\ rtdLock \in Queries \cup {None}
  /\ tickCache \in [Symbols -> TickEntries \cup {None}]

(* The status other threads and /metrics read (_mark_connection_success,    *)
(* _mark_probe_success, _mark_connection_failure, in whatever order they   *)
(* come): the client does not claim to be connecting when no probe is, an  *)
(* error is recorded exactly while the last mark was a failure, and it is  *)
(* never connected with an error on record.                                *)
StatusCoherent ==
  /\ state.state = "connecting" => \E p \in Probes : probe[p] = "connecting"
  /\ state.state = "connected" => state.connected
  /\ state.state = "error" => ~state.connected /\ state.last_error
  /\ state.connected => ~state.last_error

(* reconnect_count never exceeds the number of times the connection went   *)
(* from up to down, however probes and queries of several threads overlap. *)
ReconnectsAreReal == state.reconnect_count <= losses

(* readiness reads the status in a second critical section, after its probe *)
(* succeeded: if it finds the client disconnected then, and says "ready"   *)
(* with connected = false, a failure was marked in between.  No other      *)
(* probe that begins, and no success, takes the connection away.           *)
ReadyIsAccounted ==
  \A p \in Probes :
    probe[p] = "connected" => state.connected \/ losses > lostBefore[p]

(* _rtd_lock is held by exactly the query that has a session open, on every *)
(* way out of _query_fields: sessions for quotes are serial (the claim of  *)
(* test_btg_rtd_queries_are_serialized) and none keeps the lock.           *)
SessionsAreSerial ==
  \A q \in Queries : rtdLock = q <=> pc[q] \in {"handshake", "fields"}

(* What symbol_info_tick promises its callers, in terms of its own state.  *)
Phase(q) ==
  CASE pc[q] = "idle" -> "idle"
    [] pc[q] = "done" -> "ended"
    [] pc[q] \in {"store_tick", "mark_failure"} -> "decided"
    [] OTHER -> "open"

Contract == INSTANCE AnswerContract WITH
  Requests <- Queries,
  KeyOf <- SymbolOf,
  Grace <- [kind \in Kinds |-> IF kind = "tick" THEN TickTtl ELSE 0],
  clock <- now,
  phase <- [q \in Queries |-> Phase(q)],
  ended <- [q \in Queries |-> IF pc[q] = "done" THEN since[q] ELSE 0],
  result <- outcome

(* Every tick is fresh: symbol_info_tick with _get_cached_tick and         *)
(* _store_cached_tick implements the contract of module AnswerContract.    *)
ImplementsContract == Contract!Spec

=============================================================================
