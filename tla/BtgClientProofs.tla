--------------------------- MODULE BtgClientProofs ---------------------------
(* Theorems about BtgClient for any probes, queries, symbols, fields and   *)
(* times: the connection status, the session lock, and that                *)
(* symbol_info_tick keeps its contract.                                    *)
EXTENDS BtgClient, TLAPS

-----------------------------------------------------------------------------
(* The inductive invariant.                                                *)

(* What a query has decided but not yet stored or marked is of its own     *)
(* making.                                                                 *)
Decided ==
  \A q \in Queries :
    /\ pc[q] \in {"store_tick", "mark_failure"} => outcome[q] \in Outcomes /\ outcome[q].by = q
    /\ pc[q] = "store_tick" => outcome[q].kind = "tick"

Timely == \A q \in Queries : begun[q] <= since[q] /\ since[q] <= now

(* A cached tick is the one its maker returned, for at most the time to    *)
(* live after that.                                                        *)
TicksBacked ==
  \A s \in Symbols : tickCache[s] # None =>
    LET o == tickCache[s].outcome.by IN
    /\ SymbolOf[o] = s /\ pc[o] = "done"
    /\ tickCache[s].outcome = outcome[o] /\ outcome[o].kind = "tick"
    /\ tickCache[s].expires <= since[o] + TickTtl

(* The application shuts down only when its last call is over.             *)
Drained ==
  ~serving =>
    /\ \A p \in Probes : probe[p] \in {"idle", "done"}
    /\ \A q \in Queries : pc[q] \in {"idle", "done"}

(* A success that will count as a reconnection has a loss of its own to    *)
(* its credit, until the shutdown takes the connection away without one.   *)
LossAhead ==
  (serving /\ ~state.connected /\ state.last_connected_at) => state.reconnect_count < losses

NoFutureLosses == \A p \in Probes : lostBefore[p] <= losses

IInv ==
  /\ TypeOK
  /\ Decided
  /\ Timely
  /\ TicksBacked
  /\ Drained
  /\ SessionsAreSerial
  /\ StatusCoherent
  /\ ReconnectsAreReal /\ LossAhead
  /\ NoFutureLosses /\ ReadyIsAccounted

-----------------------------------------------------------------------------
(* The status: what its critical sections make of it, whoever calls them.  *)

LEMMA FieldTypes ==
  ASSUME NEW s \in ConnectionStates
  PROVE  /\ s.connected \in BOOLEAN /\ s.state \in States /\ s.connect_attempts \in Nat
         /\ s.reconnect_count \in Nat /\ s.last_connected_at \in BOOLEAN
         /\ s.last_error \in BOOLEAN
  BY DEF ConnectionStates

LEMMA Connected ==
  ASSUME TypeOK, MarkConnectionSuccess
  PROVE  /\ state' \in ConnectionStates /\ losses' = losses
         /\ state'.connected /\ state'.state = "connected" /\ ~state'.last_error
         /\ state'.last_connected_at
         /\ state'.reconnect_count = IF ~state.connected /\ state.last_connected_at
                                     THEN state.reconnect_count + 1
                                     ELSE state.reconnect_count
<1>1. state \in ConnectionStates /\ state.reconnect_count \in Nat
  BY FieldTypes DEF TypeOK
<1> DEFINE n == IF ~state.connected /\ state.last_connected_at
                THEN state.reconnect_count + 1 ELSE state.reconnect_count
<1>2. n \in Nat
  BY <1>1
<1>3. /\ losses' = losses
      /\ state' = [state EXCEPT
           !.connected = TRUE, !.state = "connected", !.last_connected_at = TRUE,
           !.last_error = FALSE, !.reconnect_count = n]
  BY <1>1 DEF MarkConnectionSuccess, ConnectionStates
<1> HIDE DEF n
<1>4. /\ state' \in ConnectionStates
      /\ state'.connected /\ state'.state = "connected" /\ ~state'.last_error
      /\ state'.last_connected_at /\ state'.reconnect_count = n
  BY <1>1, <1>2, <1>3 DEF ConnectionStates, States
<1> QED
  BY <1>3, <1>4 DEF n

LEMMA ProbeConnected ==
  ASSUME TypeOK, MarkProbeSuccess
  PROVE  /\ state' \in ConnectionStates /\ losses' = losses
         /\ state'.connected /\ state'.state = "connected" /\ ~state'.last_error
         /\ state'.last_connected_at = state.last_connected_at
         /\ state'.reconnect_count = state.reconnect_count
<1>1. state \in ConnectionStates
  BY DEF TypeOK
<1>2. /\ losses' = losses
      /\ state' = [state EXCEPT
           !.connected = TRUE, !.state = "connected", !.last_error = FALSE]
  BY DEF MarkProbeSuccess
<1> QED
  BY <1>1, <1>2 DEF ConnectionStates, States

LEMMA Failed ==
  ASSUME TypeOK, MarkConnectionFailure
  PROVE  /\ state' \in ConnectionStates
         /\ losses' = IF state.connected THEN losses + 1 ELSE losses
         /\ ~state'.connected /\ state'.state = "error" /\ state'.last_error
         /\ state'.last_connected_at = state.last_connected_at
         /\ state'.reconnect_count = state.reconnect_count
<1>1. state \in ConnectionStates
  BY DEF TypeOK
<1>2. /\ losses' = IF state.connected THEN losses + 1 ELSE losses
      /\ state' = [state EXCEPT
           !.connected = FALSE, !.state = "error", !.last_error = TRUE]
  BY DEF MarkConnectionFailure
<1>3. /\ state' \in ConnectionStates
      /\ ~state'.connected /\ state'.state = "error" /\ state'.last_error
      /\ state'.last_connected_at = state.last_connected_at
      /\ state'.reconnect_count = state.reconnect_count
  BY <1>1, <1>2 DEF ConnectionStates, States
<1> QED
  BY <1>2, <1>3

LEMMA Attempted ==
  ASSUME TypeOK, NEW p \in Probes, BeginProbe(p)
  PROVE  /\ state' \in ConnectionStates /\ losses' = losses
         /\ state'.state = "connecting"
         /\ state'.connected = state.connected
         /\ state'.last_error = state.last_error
         /\ state'.last_connected_at = state.last_connected_at
         /\ state'.reconnect_count = state.reconnect_count
<1>1. state \in ConnectionStates
  BY DEF TypeOK
<1> DEFINE n == state.connect_attempts + 1
<1>2. n \in Nat
  BY <1>1, FieldTypes
<1>3. /\ losses' = losses
      /\ state' = [state EXCEPT !.connect_attempts = n, !.state = "connecting"]
  BY <1>1 DEF BeginProbe, ConnectionStates
<1> HIDE DEF n
<1> QED
  BY <1>1, <1>2, <1>3 DEF ConnectionStates, States

LEMMA ShutDown ==
  ASSUME TypeOK, Shutdown
  PROVE  /\ state' \in ConnectionStates /\ losses' = losses /\ ~serving'
         /\ state'.state = "disconnected" /\ ~state'.connected
         /\ state'.last_error = state.last_error
         /\ state'.last_connected_at = state.last_connected_at
         /\ state'.reconnect_count = state.reconnect_count
<1>1. state \in ConnectionStates
  BY DEF TypeOK
<1>2. /\ losses' = losses /\ ~serving'
      /\ state' = [state EXCEPT !.connected = FALSE, !.state = "disconnected"]
  BY DEF Shutdown
<1> QED
  BY <1>1, <1>2 DEF ConnectionStates, States

-----------------------------------------------------------------------------
(* Types.                                                                  *)

(* A step of a query that goes to a known location leaves the clock, the   *)
(* probes and the locations well typed.                                    *)
LEMMA GoType ==
  ASSUME TypeOK, NEW q \in Queries, NEW from, NEW to \in Locations, Go(q, from, to)
  PROVE  /\ now' \in Nat /\ serving' \in BOOLEAN
         /\ probe' \in [Probes -> {"idle", "connecting", "connected", "done"}]
         /\ report' \in [Probes -> Reports \cup {None}]
         /\ lostBefore' \in [Probes -> Nat]
         /\ pc' \in [Queries -> Locations] /\ since' \in [Queries -> Nat]
  BY DEF TypeOK, Go, probing

LEMMA SettleType ==
  ASSUME TypeOK, NEW q \in Queries, NEW kind \in Kinds, Settle(q, kind)
  PROVE  outcome' \in [Queries -> Outcomes \cup {None}]
<1>1. [kind |-> kind, by |-> q, at |-> now] \in Outcomes
  BY DEF TypeOK, Outcomes
<1> QED
  BY <1>1 DEF TypeOK, Settle

LEMMA ForgetType ==
  ASSUME TypeOK, NEW q \in Queries, Forget(q)
  PROVE  /\ deadline' \in [Queries -> Nat]
         /\ asked' \in [Queries -> 0..Len(Fields)]
         /\ got' \in [Queries -> SUBSET Values]
<1>1. Len(Fields) \in Nat
  BY ConstantsAssumption
<1> QED
  BY <1>1 DEF TypeOK, Forget

LEMMA StoredType ==
  ASSUME TypeOK, NEW q \in Queries, NEW t \in Nat, outcome[q] \in Outcomes
  PROVE  Stored(q, t) \in [Symbols -> TickEntries \cup {None}]
<1>1. t + TickTtl \in Nat
  BY ConstantsAssumption
<1>2. [expires |-> t + TickTtl, outcome |-> outcome[q]] \in TickEntries
  BY <1>1 DEF TickEntries
<1> QED
  BY <1>2, ConstantsAssumption DEF TypeOK, Stored

LEMMA LiveType ==
  ASSUME TypeOK, NEW q \in Queries, NEW t, Live(q, t)
  PROVE  /\ tickCache[SymbolOf[q]] # None
         /\ tickCache[SymbolOf[q]].outcome \in Outcomes
         /\ tickCache[SymbolOf[q]].expires \in Nat
  BY ConstantsAssumption DEF TypeOK, Live, TickEntries

LEMMA TypeProbe ==
  ASSUME TypeOK, NEW p \in Probes, Readiness(p)
  PROVE  TypeOK'
<1> USE DEF querying, fields
<1>1. CASE BeginProbe(p)
  BY <1>1, Attempted DEF TypeOK, BeginProbe
<1>2. CASE ProbeSucceeds(p)
  BY <1>2, Connected DEF TypeOK, ProbeSucceeds
<1>3. CASE ProbeFails(p)
  <2>1. [status |-> "not_ready", connected |-> FALSE, state |-> "error"] \in Reports
    BY DEF Reports
  <2> QED
    BY <1>3, <2>1, Failed DEF TypeOK, ProbeFails
<1>4. CASE ReportStatus(p)
  <2>1. [status |-> "ready", connected |-> state.connected, state |-> state.state] \in Reports
    BY FieldTypes DEF TypeOK, Reports
  <2> QED
    BY <1>4, <2>1 DEF TypeOK, ReportStatus, connection
<1> QED
  BY <1>1, <1>2, <1>3, <1>4 DEF Readiness

LEMMA TypeCache ==
  ASSUME TypeOK, Decided, NEW q \in Queries,
         BeginQuery(q) \/ TickHit(q) \/ TickMiss(q) \/ StoreTick(q)
  PROVE  TypeOK'
<1>1. /\ now' \in Nat /\ serving' \in BOOLEAN
      /\ probe' \in [Probes -> {"idle", "connecting", "connected", "done"}]
      /\ report' \in [Probes -> Reports \cup {None}]
      /\ lostBefore' \in [Probes -> Nat]
      /\ pc' \in [Queries -> Locations] /\ since' \in [Queries -> Nat]
  BY GoType DEF BeginQuery, TickHit, TickMiss, StoreTick, Locations
<1> USE DEF TypeOK, fields
<1>2. CASE BeginQuery(q)
  BY <1>1, <1>2 DEF BeginQuery
<1>3. CASE TickHit(q)
  <2>1. tickCache[SymbolOf[q]].outcome \in Outcomes
    BY <1>3, LiveType DEF TickHit
  <2> QED
    BY <1>1, <1>3, <2>1 DEF TickHit
<1>4. CASE TickMiss(q)
  BY <1>1, <1>4, ConstantsAssumption DEF TickMiss
<1>5. CASE StoreTick(q)
  <2>1. outcome[q] \in Outcomes
    BY <1>5 DEF StoreTick, Go, Decided
  <2>2. ClockReadings(q) \subseteq Nat
    BY DEF ClockReadings
  <2>3. tickCache' \in [Symbols -> TickEntries \cup {None}]
    BY <1>5, <2>1, <2>2, StoredType DEF StoreTick
  <2> QED
    BY <1>1, <1>5, <2>3 DEF StoreTick
<1> QED
  BY <1>2, <1>3, <1>4, <1>5

LEMMA TypeSession ==
  ASSUME TypeOK, NEW q \in Queries,
         SetDeadline(q) \/ AcquireRtdLock(q) \/ Session(q) \/ MarkFailure(q) \/ Convert(q)
  PROVE  TypeOK'
<1>0. Len(Fields) \in Nat /\ Budget \in Nat
  BY ConstantsAssumption
<1>1. /\ now' \in Nat /\ serving' \in BOOLEAN
      /\ probe' \in [Probes -> {"idle", "connecting", "connected", "done"}]
      /\ report' \in [Probes -> Reports \cup {None}]
      /\ lostBefore' \in [Probes -> Nat]
      /\ pc' \in [Queries -> Locations] /\ since' \in [Queries -> Nat]
  BY GoType DEF SetDeadline, AcquireRtdLock, Session, OpenSession, SessionRefused, SessionBreaks,
     AskField, SettleForPartial, FieldsTimeOut, FinishSession, MarkFailure, Convert, Locations
<1>2. CASE SetDeadline(q)
  <2>1. PICK t \in ClockReadings(q) : deadline' = [deadline EXCEPT ![q] = t + Budget]
    BY <1>2 DEF SetDeadline
  <2>2. t + Budget \in Nat
    BY <1>0 DEF ClockReadings, TypeOK
  <2> QED
    BY <1>1, <1>2, <2>1, <2>2 DEF TypeOK, SetDeadline
<1>3. CASE AcquireRtdLock(q) \/ OpenSession(q)
  BY <1>1, <1>3 DEF TypeOK, fields, AcquireRtdLock, OpenSession
<1>4. CASE SessionRefused(q) \/ SessionBreaks(q) \/ FieldsTimeOut(q) \/ Convert(q)
  <2>1. outcome' \in [Queries -> Outcomes \cup {None}]
    BY <1>4, SettleType DEF SessionRefused, SessionBreaks, FieldsTimeOut, Convert, Kinds
  <2>2. Forget(q)
    BY <1>4 DEF SessionRefused, SessionBreaks, FieldsTimeOut, Convert
  <2> QED
    BY <1>1, <1>4, <2>1, <2>2, ForgetType
    DEF TypeOK, SessionRefused, SessionBreaks, FieldsTimeOut, Convert
<1>5. CASE AskField(q)
  <2>1. asked' \in [Queries -> 0..Len(Fields)]
    BY <1>0, <1>5 DEF TypeOK, AskField
  <2>2. got' \in [Queries -> SUBSET Values]
    <3>1. UNCHANGED got \/ \E value \in Values : got' = [got EXCEPT ![q] = @ \cup {value}]
      BY <1>5 DEF AskField
    <3>2. ASSUME NEW value \in Values, got' = [got EXCEPT ![q] = @ \cup {value}]
          PROVE  got' \in [Queries -> SUBSET Values]
      BY <3>2 DEF TypeOK
    <3> QED
      BY <3>1, <3>2 DEF TypeOK
  <2> QED
    BY <1>1, <1>5, <2>1, <2>2 DEF TypeOK, AskField
<1>6. CASE SettleForPartial(q)
  <2>1. asked' \in [Queries -> 0..Len(Fields)]
    BY <1>0, <1>6 DEF TypeOK, SettleForPartial
  <2> QED
    BY <1>1, <1>6, <2>1 DEF TypeOK, SettleForPartial
<1>7. CASE FinishSession(q)
  BY <1>1, <1>7, ProbeConnected DEF TypeOK, FinishSession, fields
<1>8. CASE MarkFailure(q)
  <2>1. state' \in ConnectionStates /\ losses' \in Nat
    BY <1>8, Failed DEF TypeOK, MarkFailure
  <2> QED
    BY <1>1, <1>8, <2>1 DEF TypeOK, MarkFailure, fields
<1> QED
  BY <1>2, <1>3, <1>4, <1>5, <1>6, <1>7, <1>8 DEF Session

LEMMA TypeStep ==
  ASSUME TypeOK, Decided, NEW q \in Queries, SymbolInfoTick(q)
  PROVE  TypeOK'
  BY TypeCache, TypeSession DEF SymbolInfoTick

-----------------------------------------------------------------------------
(* What a step of a query does to each part of the invariant.              *)

(* It moves the query itself, now, and no other.                           *)
LEMMA Moves ==
  ASSUME TypeOK, NEW q \in Queries, SymbolInfoTick(q)
  PROVE  /\ UNCHANGED <<now, serving, probe, report, lostBefore>>
         /\ pc[q] # "done" /\ pc'[q] # "idle" /\ (pc[q] = "idle" => serving)
         /\ since'[q] = now
         /\ begun'[q] \in {begun[q], now}
         /\ \A r \in Queries \ {q} :
              /\ pc'[r] = pc[r] /\ since'[r] = since[r] /\ begun'[r] = begun[r]
              /\ outcome'[r] = outcome[r]
<1> USE DEF TypeOK, Go, probing, fields
<1>1. CASE BeginQuery(q)
  BY <1>1 DEF BeginQuery
<1>2. CASE TickHit(q) \/ TickMiss(q) \/ StoreTick(q)
  BY <1>2 DEF TickHit, TickMiss, StoreTick
<1>3. CASE SetDeadline(q) \/ AcquireRtdLock(q) \/ MarkFailure(q) \/ Convert(q)
  BY <1>3 DEF SetDeadline, AcquireRtdLock, MarkFailure, Convert, Settle
<1>4. CASE OpenSession(q) \/ AskField(q) \/ SettleForPartial(q) \/ FinishSession(q)
  BY <1>4 DEF OpenSession, AskField, SettleForPartial, FinishSession
<1>5. CASE SessionRefused(q) \/ SessionBreaks(q) \/ FieldsTimeOut(q)
  BY <1>5 DEF SessionRefused, SessionBreaks, FieldsTimeOut, Settle
<1> QED
  BY <1>1, <1>2, <1>3, <1>4, <1>5 DEF SymbolInfoTick, Session

LEMMA DecidedStep ==
  ASSUME TypeOK, Decided, NEW q \in Queries, SymbolInfoTick(q)
  PROVE  Decided'
<1>1. \A r \in Queries \ {q} : pc'[r] = pc[r] /\ outcome'[r] = outcome[r]
  BY Moves
<1> SUFFICES /\ pc'[q] \in {"store_tick", "mark_failure"} =>
                  outcome'[q] \in Outcomes /\ outcome'[q].by = q
             /\ pc'[q] = "store_tick" => outcome'[q].kind = "tick"
  BY <1>1 DEF Decided
<1>2. CASE SessionRefused(q) \/ SessionBreaks(q) \/ FieldsTimeOut(q) \/ Convert(q)
  <2>1. PICK kind \in Kinds : Settle(q, kind) /\ (pc'[q] = "store_tick" => kind = "tick")
    BY <1>2 DEF SessionRefused, SessionBreaks, FieldsTimeOut, Convert, Kinds, Go, TypeOK
  <2>2. outcome'[q] = [kind |-> kind, by |-> q, at |-> now]
    BY <2>1 DEF Settle, TypeOK
  <2> QED
    BY <2>1, <2>2 DEF Outcomes, TypeOK
<1>3. CASE \/ BeginQuery(q) \/ TickHit(q) \/ TickMiss(q) \/ StoreTick(q) \/ SetDeadline(q)
           \/ AcquireRtdLock(q) \/ OpenSession(q) \/ AskField(q) \/ SettleForPartial(q)
           \/ FinishSession(q) \/ MarkFailure(q)
  BY <1>3 DEF BeginQuery, TickHit, TickMiss, StoreTick, SetDeadline, AcquireRtdLock,
     OpenSession, AskField, SettleForPartial, FinishSession, MarkFailure, TypeOK, Go
<1> QED
  BY <1>2, <1>3 DEF SymbolInfoTick, Session

LEMMA TimelyStep ==
  ASSUME TypeOK, Timely, NEW q \in Queries, SymbolInfoTick(q)
  PROVE  Timely'
<1>1. begun[q] \in Nat /\ since[q] \in Nat /\ now \in Nat
  BY DEF TypeOK
<1> QED
  BY <1>1, Moves DEF Timely

LEMMA DrainedStep ==
  ASSUME TypeOK, Drained, NEW q \in Queries, SymbolInfoTick(q)
  PROVE  Drained'
  BY Moves DEF Drained

(* It takes the lock on its way into a session and gives it up on its way  *)
(* out.                                                                    *)
LEMMA SerialStep ==
  ASSUME TypeOK, SessionsAreSerial, NEW q \in Queries, SymbolInfoTick(q)
  PROVE  SessionsAreSerial'
<1>0. None \notin Queries /\ \A r \in Queries \ {q} : pc'[r] = pc[r]
  BY Moves, ConstantsAssumption
<1> DEFINE Within == {"handshake", "fields"}
<1>1. CASE AcquireRtdLock(q)
  BY <1>0, <1>1 DEF AcquireRtdLock, TypeOK, Go, SessionsAreSerial
<1>2. CASE SessionRefused(q) \/ SessionBreaks(q) \/ FieldsTimeOut(q) \/ FinishSession(q)
  <2>1. rtdLock' = None /\ pc[q] \in Within /\ pc'[q] \notin Within
    BY <1>2 DEF SessionRefused, SessionBreaks, FieldsTimeOut, FinishSession, TypeOK, Go
  <2> QED
    BY <1>0, <2>1 DEF SessionsAreSerial
<1>3. CASE \/ BeginQuery(q) \/ TickHit(q) \/ TickMiss(q) \/ StoreTick(q) \/ SetDeadline(q)
           \/ OpenSession(q) \/ AskField(q) \/ SettleForPartial(q) \/ MarkFailure(q)
           \/ Convert(q)
  <2>1. rtdLock' = rtdLock /\ (pc[q] \in Within <=> pc'[q] \in Within)
    BY <1>3 DEF BeginQuery, TickHit, TickMiss, StoreTick, SetDeadline, OpenSession, AskField,
       SettleForPartial, MarkFailure, Convert, TypeOK, Go
  <2> QED
    BY <1>0, <2>1 DEF SessionsAreSerial
<1> QED
  BY <1>1, <1>2, <1>3 DEF SymbolInfoTick, Session

(* A query that is over neither changes its outcome nor goes on.           *)
LEMMA DoneStays ==
  ASSUME TypeOK, NEW q \in Queries, SymbolInfoTick(q), NEW o \in Queries, pc[o] = "done"
  PROVE  o # q /\ pc'[o] = "done" /\ outcome'[o] = outcome[o] /\ since'[o] = since[o]
  BY Moves

LEMMA TicksBackedStep ==
  ASSUME TypeOK, Decided, TicksBacked, NEW q \in Queries, SymbolInfoTick(q)
  PROVE  TicksBacked'
<1> SUFFICES ASSUME NEW s \in Symbols, tickCache'[s] # None
             PROVE  LET o == tickCache'[s].outcome.by IN
                    /\ SymbolOf[o] = s /\ pc'[o] = "done"
                    /\ tickCache'[s].outcome = outcome'[o] /\ outcome'[o].kind = "tick"
                    /\ tickCache'[s].expires <= since'[o] + TickTtl
  BY DEF TicksBacked
<1>1. CASE tickCache'[s] = tickCache[s]
  <2>1. tickCache[s].outcome.by \in Queries
    BY <1>1 DEF TypeOK, TickEntries, Outcomes
  <2> QED
    BY <1>1, <2>1, DoneStays DEF TicksBacked
(* Only a query that stores its tick puts something into the cache.        *)
<1>2. CASE tickCache'[s] # tickCache[s]
  <2>1. StoreTick(q) /\ TickTtl > 0
    BY <1>2, ConstantsAssumption
    DEF TypeOK, fields, SymbolInfoTick, Session, BeginQuery, TickHit, TickMiss, StoreTick,
        SetDeadline, AcquireRtdLock, OpenSession, SessionRefused, SessionBreaks, AskField,
        SettleForPartial, FieldsTimeOut, FinishSession, MarkFailure, Convert
  <2>2. PICK t \in ClockReadings(q) : tickCache' = Stored(q, t)
    BY <2>1 DEF StoreTick
  <2>3. /\ pc'[q] = "done" /\ since'[q] = now /\ outcome' = outcome
        /\ outcome[q] \in Outcomes /\ outcome[q].by = q /\ outcome[q].kind = "tick"
    BY <2>1 DEF StoreTick, Go, TypeOK, Decided
  <2>4. /\ SymbolOf[q] = s
        /\ tickCache'[s] = [expires |-> t + TickTtl, outcome |-> outcome[q]]
    BY <1>2, <2>2, ConstantsAssumption DEF Stored, TypeOK
  <2>5. t \in Int /\ t <= now /\ now \in Nat /\ TickTtl \in Nat
    BY ConstantsAssumption DEF ClockReadings, TypeOK
  <2> QED
    BY <2>3, <2>4, <2>5
<1> QED
  BY <1>1, <1>2

-----------------------------------------------------------------------------
(* What each step does to the status and to the probes.                    *)

StatusInv == StatusCoherent /\ ReconnectsAreReal /\ LossAhead /\ NoFutureLosses /\ ReadyIsAccounted

(* A query marks a success, marks a failure, or leaves the status alone.   *)
LEMMA QueryMarks ==
  ASSUME TypeOK, NEW q \in Queries, SymbolInfoTick(q)
  PROVE  UNCHANGED <<state, losses>> \/ MarkProbeSuccess \/ MarkConnectionFailure
  BY DEF SymbolInfoTick, Session, BeginQuery, TickHit, TickMiss, StoreTick, SetDeadline,
     AcquireRtdLock, OpenSession, SessionRefused, SessionBreaks, AskField, SettleForPartial,
     FieldsTimeOut, FinishSession, MarkFailure, Convert

(* A failure takes the connection away from every probe that has it.       *)
LEMMA FailureAccounted ==
  ASSUME TypeOK, StatusInv, MarkConnectionFailure, UNCHANGED <<serving, lostBefore>>,
         \A p \in Probes : probe'[p] = "connected" => probe[p] = "connected"
  PROVE  StatusInv'
<1>1. /\ losses' = IF state.connected THEN losses + 1 ELSE losses
      /\ ~state'.connected /\ state'.state = "error" /\ state'.last_error
      /\ state'.last_connected_at = state.last_connected_at
      /\ state'.reconnect_count = state.reconnect_count
  BY Failed
<1>2. /\ state.reconnect_count \in Nat /\ losses \in Nat /\ serving \in BOOLEAN
      /\ \A p \in Probes : lostBefore[p] \in Nat
  BY FieldTypes DEF TypeOK
<1>3. StatusCoherent'
  BY <1>1 DEF StatusCoherent
<1>4. ReconnectsAreReal' /\ LossAhead'
  BY <1>1, <1>2 DEF StatusInv, ReconnectsAreReal, LossAhead
<1>5. NoFutureLosses' /\ ReadyIsAccounted'
  BY <1>1, <1>2 DEF StatusInv, NoFutureLosses, ReadyIsAccounted
<1> QED
  BY <1>3, <1>4, <1>5 DEF StatusInv

LEMMA StatusQuery ==
  ASSUME TypeOK, StatusInv, NEW q \in Queries, SymbolInfoTick(q)
  PROVE  StatusInv'
<1>0. UNCHANGED <<serving, probe, lostBefore>>
  BY Moves
<1>1. CASE UNCHANGED <<state, losses>>
  BY <1>0, <1>1
  DEF StatusInv, StatusCoherent, ReconnectsAreReal, LossAhead, NoFutureLosses, ReadyIsAccounted
<1>2. CASE MarkProbeSuccess
  <2>1. /\ losses' = losses /\ state'.connected /\ state'.state = "connected"
        /\ ~state'.last_error /\ state'.reconnect_count = state.reconnect_count
    BY <1>2, ProbeConnected
  <2> QED
    BY <1>0, <2>1
    DEF StatusInv, StatusCoherent, ReconnectsAreReal, LossAhead, NoFutureLosses, ReadyIsAccounted
<1>3. CASE MarkConnectionFailure
  BY <1>0, <1>3, FailureAccounted
<1> QED
  BY <1>1, <1>2, <1>3, QueryMarks

LEMMA StatusProbe ==
  ASSUME TypeOK, Drained, StatusInv, NEW p \in Probes, Readiness(p)
  PROVE  StatusInv'
<1>1. CASE BeginProbe(p)
  <2>1. /\ losses' = losses /\ state'.state = "connecting"
        /\ state'.connected = state.connected
        /\ state'.last_error = state.last_error
        /\ state'.last_connected_at = state.last_connected_at
        /\ state'.reconnect_count = state.reconnect_count
    BY <1>1, Attempted
  <2>2. probe' = [probe EXCEPT ![p] = "connecting"] /\ UNCHANGED <<serving, lostBefore>>
    BY <1>1 DEF BeginProbe
  <2>3. probe'[p] = "connecting" /\ \A o \in Probes \ {p} : probe'[o] = probe[o]
    BY <2>2 DEF TypeOK
  <2>4. StatusCoherent'
    BY <2>1, <2>3 DEF StatusInv, StatusCoherent
  <2>5. ReconnectsAreReal' /\ LossAhead' /\ NoFutureLosses' /\ ReadyIsAccounted'
    BY <2>1, <2>2, <2>3
    DEF StatusInv, ReconnectsAreReal, LossAhead, NoFutureLosses, ReadyIsAccounted
  <2> QED
    BY <2>4, <2>5 DEF StatusInv
(* The application still serves: a probe that succeeds after a loss counts *)
(* that loss as its reconnection.                                          *)
<1>2. CASE ProbeSucceeds(p)
  <2>1. /\ losses' = losses
        /\ state'.connected /\ state'.state = "connected" /\ ~state'.last_error
        /\ state'.reconnect_count = IF ~state.connected /\ state.last_connected_at
                                    THEN state.reconnect_count + 1
                                    ELSE state.reconnect_count
    BY <1>2, Connected DEF ProbeSucceeds
  <2>2. serving /\ serving' = serving
    BY <1>2 DEF ProbeSucceeds, Drained
  <2>3. lostBefore'[p] = losses /\ \A o \in Probes \ {p} : lostBefore'[o] = lostBefore[o]
    BY <1>2 DEF ProbeSucceeds, TypeOK
  <2>4. state.reconnect_count \in Nat /\ losses \in Nat
    BY FieldTypes DEF TypeOK
  <2>5. ReconnectsAreReal'
    BY <2>1, <2>2, <2>4 DEF StatusInv, ReconnectsAreReal, LossAhead
  <2> QED
    BY <2>1, <2>3, <2>4, <2>5
    DEF StatusInv, StatusCoherent, LossAhead, NoFutureLosses, ReadyIsAccounted
<1>3. CASE ProbeFails(p)
  <2>1. \A o \in Probes : probe'[o] = "connected" => probe[o] = "connected"
    BY <1>3 DEF ProbeFails, TypeOK
  <2> QED
    BY <1>3, <2>1, FailureAccounted DEF ProbeFails
<1>4. CASE ReportStatus(p)
  <2>1. UNCHANGED <<serving, state, losses>> /\ probe[p] = "connected"
    BY <1>4 DEF ReportStatus, connection
  <2>2. /\ probe'[p] = "done" /\ lostBefore'[p] = 0
        /\ \A o \in Probes \ {p} : probe'[o] = probe[o] /\ lostBefore'[o] = lostBefore[o]
    BY <1>4 DEF ReportStatus, TypeOK
  <2>3. losses \in Nat
    BY DEF TypeOK
  <2>4. StatusCoherent'
    BY <2>1, <2>2 DEF StatusInv, StatusCoherent
  <2>5. ReconnectsAreReal' /\ LossAhead'
    BY <2>1 DEF StatusInv, ReconnectsAreReal, LossAhead
  <2>6. NoFutureLosses' /\ ReadyIsAccounted'
    BY <2>1, <2>2, <2>3 DEF StatusInv, NoFutureLosses, ReadyIsAccounted
  <2> QED
    BY <2>4, <2>5, <2>6 DEF StatusInv
<1> QED
  BY <1>1, <1>2, <1>3, <1>4 DEF Readiness

LEMMA StatusShutdown ==
  ASSUME TypeOK, StatusInv, Shutdown
  PROVE  StatusInv'
<1>1. /\ losses' = losses /\ ~serving' /\ state'.state = "disconnected" /\ ~state'.connected
      /\ state'.reconnect_count = state.reconnect_count
  BY ShutDown
<1>2. UNCHANGED <<probe, lostBefore>> /\ \A p \in Probes : probe[p] # "connected"
  BY DEF Shutdown, probing
<1> QED
  BY <1>1, <1>2
  DEF StatusInv, StatusCoherent, ReconnectsAreReal, LossAhead, NoFutureLosses, ReadyIsAccounted

-----------------------------------------------------------------------------
(* The invariant.                                                          *)

LEMMA InvInit == Init => IInv
<1> SUFFICES ASSUME Init
             PROVE  IInv
  OBVIOUS
<1>1. TypeOK
  <2>1. Len(Fields) \in Nat
    BY ConstantsAssumption
  <2>2. state \in ConnectionStates
    BY DEF Init, ConnectionStates, States
  <2> QED
    BY <2>1, <2>2 DEF Init, TypeOK, Locations
<1>2. Decided /\ Timely /\ TicksBacked /\ Drained /\ SessionsAreSerial
  BY ConstantsAssumption DEF Init, Decided, Timely, TicksBacked, Drained, SessionsAreSerial
<1>3. StatusInv
  BY DEF Init, StatusInv, StatusCoherent, ReconnectsAreReal, LossAhead, NoFutureLosses,
     ReadyIsAccounted
<1> QED
  BY <1>1, <1>2, <1>3 DEF IInv, StatusInv

LEMMA InvStep == IInv /\ [Next]_vars => IInv'
<1> SUFFICES ASSUME IInv, [Next]_vars
             PROVE  IInv'
  OBVIOUS
<1>0. TypeOK /\ Drained /\ StatusInv
  BY DEF IInv, StatusInv
<1>1. CASE Tick
  <2>1. now' = now + 1 /\ UNCHANGED <<connection, probing, querying>>
    BY <1>1 DEF Tick, querying
  <2>2. TypeOK'
    BY <1>0, <2>1 DEF TypeOK, connection, probing, querying, fields
  <2>3. Timely'
    BY <1>0, <2>1 DEF IInv, TypeOK, Timely, querying
  <2>4. StatusInv'
    BY <1>0, <2>1 DEF connection, probing, StatusInv, StatusCoherent, ReconnectsAreReal,
       LossAhead, NoFutureLosses, ReadyIsAccounted
  <2> QED
    BY <2>1, <2>2, <2>3, <2>4 DEF IInv, StatusInv, Decided, TicksBacked, Drained,
       SessionsAreSerial, connection, probing, querying
<1>2. ASSUME NEW p \in Probes, Readiness(p)
      PROVE  IInv'
  <2>1. UNCHANGED <<now, serving, querying>> /\ (serving \/ ~serving)
    BY <1>2 DEF Readiness, BeginProbe, ProbeSucceeds, ProbeFails, ReportStatus, connection
  <2>2. TypeOK' /\ StatusInv'
    BY <1>0, <1>2, TypeProbe, StatusProbe
  <2>3. serving
    BY <1>0, <1>2 DEF Drained, Readiness, BeginProbe, ProbeSucceeds, ProbeFails, ReportStatus
  <2> QED
    BY <2>1, <2>2, <2>3 DEF IInv, StatusInv, Decided, Timely, TicksBacked, Drained,
       SessionsAreSerial, querying
<1>3. ASSUME NEW q \in Queries, SymbolInfoTick(q)
      PROVE  IInv'
  <2>1. TypeOK' /\ StatusInv'
    BY <1>0, <1>3, TypeStep, StatusQuery DEF IInv
  <2>2. Decided' /\ Timely' /\ TicksBacked' /\ Drained' /\ SessionsAreSerial'
    BY <1>3, DecidedStep, TimelyStep, TicksBackedStep, DrainedStep, SerialStep DEF IInv
  <2> QED
    BY <2>1, <2>2 DEF IInv, StatusInv
<1>4. CASE Shutdown
  <2>1. TypeOK' /\ StatusInv'
    BY <1>0, <1>4, ShutDown, StatusShutdown DEF TypeOK, Shutdown, probing, querying, fields
  <2>2. Drained'
    BY <1>4 DEF Shutdown, Drained, probing, querying
  <2> QED
    BY <1>4, <2>1, <2>2 DEF Shutdown, IInv, StatusInv, Decided, Timely, TicksBacked,
       SessionsAreSerial, querying
<1>5. CASE UNCHANGED vars
  BY <1>5 DEF vars, connection, probing, querying, fields, IInv, TypeOK, Decided, Timely,
     TicksBacked, Drained, SessionsAreSerial, StatusCoherent, ReconnectsAreReal, LossAhead,
     NoFutureLosses, ReadyIsAccounted
<1> QED
  BY <1>1, <1>2, <1>3, <1>4, <1>5 DEF Next, Stopped

(* IInv holds in every reachable state of the client: the base of the      *)
(* theorems below.                                                         *)
THEOREM Invariance == Spec => []IInv
  BY InvInit, InvStep, PTL DEF Spec

(* Every variable keeps its type: the status record whatever the marks of  *)
(* probes and queries leave in it, the caches, the locals of a query.      *)
THEOREM TypeCorrectness == Spec => []TypeOK
<1>1. IInv => TypeOK
  BY DEF IInv
<1> QED
  BY <1>1, Invariance, PTL

(* The status never claims to be connecting when no probe is, never is     *)
(* connected with an error on record, and says "error" only with one.      *)
THEOREM StatusCoherence == Spec => []StatusCoherent
<1>1. IInv => StatusCoherent
  BY DEF IInv
<1> QED
  BY <1>1, Invariance, PTL

(* reconnect_count counts no reconnection without a loss of its own,       *)
(* however many probes and queries mark their results, in any order.       *)
THEOREM Reconnections == Spec => []ReconnectsAreReal
<1>1. IInv => ReconnectsAreReal
  BY DEF IInv
<1> QED
  BY <1>1, Invariance, PTL

(* A probe that succeeded and finds the client disconnected when it reads  *)
(* the status again was overtaken by a failure.                            *)
THEOREM ReadinessAccounted == Spec => []ReadyIsAccounted
<1>1. IInv => ReadyIsAccounted
  BY DEF IInv
<1> QED
  BY <1>1, Invariance, PTL

(* _rtd_lock is held by the query that is in a session and by no other, so *)
(* sessions of any number of queries are serial and none keeps the lock.   *)
THEOREM SerialSessions == Spec => []SessionsAreSerial
<1>1. IInv => SessionsAreSerial
  BY DEF IInv
<1> QED
  BY <1>1, Invariance, PTL

-----------------------------------------------------------------------------
(* symbol_info_tick keeps its contract.                                    *)

phaseBar == [q \in Queries |-> Phase(q)]
endedBar == [q \in Queries |-> IF pc[q] = "done" THEN since[q] ELSE 0]

(* Steps that the contract does not see.                                   *)
LEMMA HiddenStep ==
  ASSUME TypeOK, NEW q \in Queries, NEW from \in Locations \ {"done"},
         NEW to \in Locations \ {"done"},
         Go(q, from, to), UNCHANGED <<begun, outcome>>, Phase(q)' = Phase(q)
  PROVE  UNCHANGED Contract!cvars
<1>1. \A r \in Queries : Phase(r)' = Phase(r)
  BY DEF TypeOK, Go, Phase
<1>2. phaseBar' = phaseBar
  BY <1>1 DEF phaseBar
<1>3. endedBar' = endedBar
  BY DEF endedBar, Go, TypeOK
<1> QED
  BY <1>2, <1>3 DEF Contract!cvars, phaseBar, endedBar, Go

LEMMA PhaseStep ==
  ASSUME TypeOK, NEW q \in Queries, NEW from \in Locations \ {"done"}, NEW to \in Locations,
         Go(q, from, to)
  PROVE  /\ phaseBar' = [phaseBar EXCEPT ![q] = Phase(q)']
         /\ endedBar' = IF to = "done" THEN [endedBar EXCEPT ![q] = now] ELSE endedBar
<1>1. \A r \in Queries \ {q} : Phase(r)' = Phase(r)
  BY DEF TypeOK, Go, Phase
<1>2. phaseBar' = [phaseBar EXCEPT ![q] = Phase(q)']
  BY <1>1 DEF phaseBar
<1>3. CASE to = "done"
  BY <1>2, <1>3 DEF endedBar, Go, TypeOK
<1>4. CASE to # "done"
  BY <1>2, <1>4 DEF endedBar, Go, TypeOK
<1> QED
  BY <1>3, <1>4

LEMMA ContractInit == Init => Contract!Init
  BY DEF Init, Contract!Init, Phase

(* A hit in the tick cache hands out the tick of the query that stored it. *)
LEMMA HitStep ==
  ASSUME IInv, NEW q \in Queries, TickHit(q)
  PROVE  \E o \in Queries : Contract!HandOut(q, o)
<1> DEFINE e == tickCache[SymbolOf[q]]
           o == e.outcome.by
<1>0. SymbolOf[q] \in Symbols /\ TickTtl \in Nat
  BY ConstantsAssumption
<1>1. PICK t \in ClockReadings(q) : Live(q, t)
  BY DEF TickHit
<1>2. e # None /\ o \in Queries /\ e.expires \in Nat /\ e.expires >= t
  BY <1>1, LiveType DEF IInv, Live, Outcomes
<1>3. /\ SymbolOf[o] = SymbolOf[q] /\ pc[o] = "done" /\ e.outcome = outcome[o]
      /\ outcome[o].kind = "tick" /\ e.expires <= since[o] + TickTtl
  BY <1>0, <1>2 DEF IInv, TicksBacked
<1>4. begun[q] <= t
  BY DEF IInv, Timely, TypeOK, ClockReadings
<1>5. begun[q] \in Nat /\ since[o] \in Nat /\ t \in Int
  BY <1>2 DEF IInv, TypeOK, ClockReadings
<1>6. outcome[o].by = o
  BY <1>3
<1>7. outcome' = [outcome EXCEPT ![q] = outcome[o]] /\ UNCHANGED <<now, begun>>
      /\ pc[q] = "lookup" /\ Go(q, "lookup", "done") /\ pc'[q] = "done"
  BY <1>3 DEF TickHit, Go, IInv, TypeOK
<1> HIDE DEF o, e
<1>8. begun[q] <= since[o] + TickTtl
  BY <1>0, <1>2, <1>3, <1>4, <1>5
<1>9. Contract!Fresh(o, q)
  BY <1>2, <1>3, <1>8, <1>5, <1>0 DEF Contract!Fresh, Phase, Kinds
<1>10. /\ phaseBar' = [phaseBar EXCEPT ![q] = "ended"]
       /\ endedBar' = [endedBar EXCEPT ![q] = now]
  BY <1>7, PhaseStep DEF IInv, Locations, Phase
<1>11. phaseBar[q] = "open"
  BY <1>7 DEF phaseBar, Phase
<1>12. Contract!HandOut(q, o)
  BY <1>2, <1>3, <1>6, <1>7, <1>9, <1>10, <1>11
  DEF Contract!HandOut, Contract!End, phaseBar, endedBar
<1> QED
  BY <1>2, <1>12

(* A step that settles an outcome of the query's own, and ends it or       *)
(* leaves it decided.                                                      *)
LEMMA DecideStep ==
  ASSUME TypeOK, NEW q \in Queries, NEW kind \in Kinds,
         NEW from \in {"handshake", "fields", "convert"},
         NEW to \in {"done", "store_tick", "mark_failure"},
         Go(q, from, to), Settle(q, kind), UNCHANGED begun
  PROVE  Contract!Decide(q)
<1>1. pc[q] = from /\ pc'[q] = to /\ now' = now
  BY DEF Go, TypeOK
<1>2. /\ phaseBar' = [phaseBar EXCEPT ![q] = Phase(q)']
      /\ endedBar' = IF to = "done" THEN [endedBar EXCEPT ![q] = now] ELSE endedBar
  BY PhaseStep DEF Locations
<1>3. phaseBar[q] = "open" /\ Phase(q)' = IF to = "done" THEN "ended" ELSE "decided"
  BY <1>1 DEF phaseBar, Phase
<1>4. CASE to = "done"
  BY <1>1, <1>2, <1>3, <1>4 DEF Contract!Decide, Contract!End, phaseBar, endedBar, Settle
<1>5. CASE to # "done"
  BY <1>1, <1>2, <1>3, <1>5 DEF Contract!Decide, phaseBar, endedBar, Settle
<1> QED
  BY <1>4, <1>5

LEMMA FinishStep ==
  ASSUME TypeOK, NEW q \in Queries, NEW from \in {"store_tick", "mark_failure"},
         Go(q, from, "done"), UNCHANGED <<begun, outcome>>
  PROVE  Contract!Finish(q)
<1>1. pc[q] = from /\ pc'[q] = "done" /\ now' = now
  BY DEF Go, TypeOK
<1>2. /\ phaseBar' = [phaseBar EXCEPT ![q] = "ended"]
      /\ endedBar' = [endedBar EXCEPT ![q] = now]
  BY <1>1, PhaseStep DEF Locations, Phase
<1>3. phaseBar[q] = "decided"
  BY <1>1 DEF phaseBar, Phase
<1> QED
  BY <1>1, <1>2, <1>3 DEF Contract!Finish, Contract!End, phaseBar, endedBar

LEMMA ContractQuery ==
  ASSUME IInv, NEW q \in Queries, SymbolInfoTick(q)
  PROVE  [Contract!Next]_Contract!cvars
<1>0. TypeOK
  BY DEF IInv
<1>1. CASE BeginQuery(q)
  <2>1. /\ phaseBar' = [phaseBar EXCEPT ![q] = "open"] /\ endedBar' = endedBar
    BY <1>0, <1>1, PhaseStep DEF BeginQuery, Locations, Phase, Go, TypeOK
  <2>2. Contract!Begin(q)
    BY <1>1, <2>1 DEF BeginQuery, Go, Contract!Begin, phaseBar, endedBar, Phase
  <2> QED
    BY <2>2 DEF Contract!Next
<1>2. CASE TickHit(q)
  BY <1>2, HitStep DEF Contract!Next
<1>3. CASE SessionRefused(q) \/ SessionBreaks(q) \/ FieldsTimeOut(q) \/ Convert(q)
  <2>1. PICK from \in {"handshake", "fields", "convert"},
             to \in {"done", "store_tick", "mark_failure"}, kind \in Kinds :
          Go(q, from, to) /\ Settle(q, kind)
    BY <1>3 DEF SessionRefused, SessionBreaks, FieldsTimeOut, Convert, Kinds
  <2>2. UNCHANGED begun
    BY <1>3 DEF SessionRefused, SessionBreaks, FieldsTimeOut, Convert
  <2>3. Contract!Decide(q)
    BY <1>0, <2>1, <2>2, DecideStep
  <2> QED
    BY <2>3 DEF Contract!Next
<1>4. CASE MarkFailure(q) \/ StoreTick(q)
  <2>1. Contract!Finish(q)
    BY <1>0, <1>4, FinishStep DEF MarkFailure, StoreTick
  <2> QED
    BY <2>1 DEF Contract!Next
<1>5. CASE \/ TickMiss(q) \/ SetDeadline(q) \/ AcquireRtdLock(q) \/ OpenSession(q)
           \/ AskField(q) \/ SettleForPartial(q) \/ FinishSession(q)
  <2>1. PICK from \in {"lookup", "budget", "rtd_lock", "handshake", "fields"},
             to \in {"budget", "rtd_lock", "handshake", "fields", "convert"} : Go(q, from, to)
    BY <1>5 DEF TickMiss, SetDeadline, AcquireRtdLock, OpenSession, AskField,
       SettleForPartial, FinishSession
  <2>2. UNCHANGED <<begun, outcome>>
    BY <1>5 DEF TickMiss, SetDeadline, AcquireRtdLock, OpenSession, AskField,
       SettleForPartial, FinishSession
  <2>3. Phase(q)' = Phase(q)
    BY <1>0, <2>1 DEF Phase, Go, TypeOK
  <2> QED
    BY <1>0, <2>1, <2>2, <2>3, HiddenStep DEF Locations
<1> QED
  BY <1>1, <1>2, <1>3, <1>4, <1>5 DEF SymbolInfoTick, Session

LEMMA ContractStep == IInv /\ [Next]_vars => [Contract!Next]_Contract!cvars
<1> SUFFICES ASSUME IInv, [Next]_vars
             PROVE  [Contract!Next]_Contract!cvars
  OBVIOUS
<1>1. CASE Tick
  BY <1>1 DEF Tick, Phase, Contract!Next, Contract!Advance
<1>2. CASE \/ \E p \in Probes : Readiness(p)
           \/ Shutdown
           \/ UNCHANGED vars
  <2>1. UNCHANGED <<now, querying>>
    BY <1>2 DEF Readiness, BeginProbe, ProbeSucceeds, ProbeFails, ReportStatus, Shutdown, vars
  <2> QED
    BY <2>1 DEF Contract!cvars, Phase, querying
<1>3. ASSUME NEW q \in Queries, SymbolInfoTick(q)
      PROVE  [Contract!Next]_Contract!cvars
  BY <1>3, ContractQuery
<1> QED
  BY <1>1, <1>2, <1>3 DEF Next, Stopped

(* A tick handed out is the query's own, or that of a query for the same   *)
(* symbol that had ended within the time to live when this one began; a    *)
(* failure is never handed to another query.                               *)
THEOREM Refinement == Spec => ImplementsContract
<1>1. Spec => Contract!Init /\ [][Contract!Next]_Contract!cvars
  BY ContractInit, ContractStep, Invariance, PTL DEF Spec
<1> QED
  BY <1>1 DEF ImplementsContract, Contract!Spec


-----------------------------------------------------------------------------
(* What follows from the contract alone, for every answer in every state.  *)

(* The grace the contract of BtgClient is instantiated with.               *)
Grace == [kind \in Kinds |-> IF kind = "tick" THEN TickTtl ELSE 0]

(* What Justified says of one call, in terms of what stands for the        *)
(* contract's phases and ends.                                             *)
Decisive == {"decided", "ended"}

Fits(r) ==
  /\ outcome[r] # None <=> phaseBar[r] \in Decisive
  /\ outcome[r] # None =>
       /\ outcome[outcome[r].by] = outcome[r]
       /\ SymbolOf[outcome[r].by] = SymbolOf[r]
       /\ outcome[r].by # r => outcome[r].kind # "unexpected"
       /\ outcome[r].by # r /\ phaseBar[outcome[r].by] = "ended" =>
            begun[r] <= endedBar[outcome[r].by] + Grace[outcome[r].kind]

LEMMA JustifiedFits ==
  ASSUME TypeOK
  PROVE  Contract!Justified <=> \A r \in Queries : Fits(r)
  BY DEF Contract!Justified, Fits, Decisive, phaseBar, endedBar, Grace

LEMMA JustifiedInit == Init => Contract!Justified
<1> SUFFICES ASSUME Init
             PROVE  Contract!Justified
  OBVIOUS
<1>1. \A r \in Queries : outcome[r] = None /\ Phase(r) = "idle"
  BY DEF Init, Phase
<1> QED
  BY <1>1 DEF Contract!Justified

(* The maker of an answer, the time it may be handed out for, and where    *)
(* they come from.                                                         *)
LEMMA MakerType ==
  ASSUME TypeOK, NEW r \in Queries, outcome[r] # None
  PROVE  /\ outcome[r] \in Outcomes /\ outcome[r].by \in Queries
         /\ Grace[outcome[r].kind] \in Nat
  BY ConstantsAssumption DEF TypeOK, Outcomes, Grace

LEMMA FitsUnchanged ==
  ASSUME TypeOK, NEW r \in Queries, Fits(r), UNCHANGED outcome,
         begun'[r] = begun[r] \/ outcome[r] = None,
         \A s \in Queries : phaseBar'[s] \in Decisive <=> phaseBar[s] \in Decisive,
         \A s \in Queries : phaseBar'[s] = "ended" =>
           \/ phaseBar[s] = "ended" /\ endedBar'[s] = endedBar[s]
           \/ \A g \in Nat : begun[r] <= endedBar'[s] + g
  PROVE  Fits(r)'
<1>1. outcome'[r] # None <=> phaseBar'[r] \in Decisive
  BY DEF Fits
<1>2. CASE outcome[r] # None
  <2> DEFINE maker == outcome[r].by
  <2>1. maker \in Queries /\ Grace[outcome[r].kind] \in Nat
    BY <1>2, MakerType
  <2>2. maker # r /\ phaseBar'[maker] = "ended" =>
          begun[r] <= endedBar'[maker] + Grace[outcome[r].kind]
    BY <1>2, <2>1 DEF Fits
  <2> QED
    BY <1>1, <1>2, <2>1, <2>2 DEF Fits
<1> QED
  BY <1>1, <1>2 DEF Fits

LEMMA JustifiedStep ==
  ASSUME IInv, IInv', Contract!Justified, [Contract!Next]_Contract!cvars
  PROVE  Contract!Justified'
<1>0. /\ TypeOK /\ TypeOK' /\ \A r \in Queries : Fits(r)
      /\ now \in Nat /\ begun \in [Queries -> Nat] /\ outcome \in [Queries -> Outcomes \cup {None}]
      /\ \A r \in Queries : begun[r] <= now
  <2>1. TypeOK /\ TypeOK' /\ Timely
    BY DEF IInv
  <2>2. /\ now \in Nat /\ begun \in [Queries -> Nat] /\ since \in [Queries -> Nat]
        /\ outcome \in [Queries -> Outcomes \cup {None}]
    BY <2>1 DEF TypeOK
  <2>3. \A r \in Queries : begun[r] <= now
    BY <2>1, <2>2 DEF Timely
  <2> QED
    BY <2>1, <2>2, <2>3, JustifiedFits
<1>1. phaseBar \in [Queries -> {"idle", "open", "decided", "ended"}] /\ endedBar \in [Queries -> Nat]
  BY <1>0 DEF phaseBar, endedBar, Phase, TypeOK
<1>2. SUFFICES \A r \in Queries : Fits(r)'
  BY <1>0 DEF Contract!Justified, Fits, Decisive, phaseBar, endedBar, Grace
<1>3. CASE UNCHANGED Contract!cvars \/ Contract!Advance
  <2>1. UNCHANGED <<phaseBar, endedBar, begun, outcome>>
    BY <1>3 DEF Contract!cvars, Contract!Advance, phaseBar, endedBar
  <2> QED
    BY <1>0, <2>1, FitsUnchanged
<1>4. ASSUME NEW r \in Queries, Contract!Begin(r)
      PROVE  \A s \in Queries : Fits(s)'
  <2>1. /\ phaseBar[r] = "idle" /\ phaseBar' = [phaseBar EXCEPT ![r] = "open"]
        /\ begun' = [begun EXCEPT ![r] = now] /\ UNCHANGED <<endedBar, outcome>>
    BY <1>4 DEF Contract!Begin, phaseBar, endedBar
  <2>2. outcome[r] = None
    BY <1>0, <2>1 DEF Fits, Decisive
  <2> QED
    BY <1>0, <1>1, <2>1, <2>2, FitsUnchanged DEF Decisive
<1>5. ASSUME NEW r \in Queries, Contract!Finish(r)
      PROVE  \A s \in Queries : Fits(s)'
  <2>1. /\ phaseBar[r] = "decided" /\ phaseBar' = [phaseBar EXCEPT ![r] = "ended"]
        /\ endedBar' = [endedBar EXCEPT ![r] = now] /\ UNCHANGED <<begun, outcome>>
    BY <1>5 DEF Contract!Finish, Contract!End, phaseBar, endedBar
  <2>2. endedBar'[r] = now /\ \A s \in Queries \ {r} : endedBar'[s] = endedBar[s]
    BY <1>1, <2>1
  <2>3. \A s \in Queries : \A g \in Nat : begun[s] <= endedBar'[r] + g
    BY <1>0, <2>2
  <2> QED
    BY <1>0, <1>1, <2>1, <2>2, <2>3, FitsUnchanged DEF Decisive
(* Nobody can have had the answer of a call that had none.                 *)
<1>6. ASSUME NEW r \in Queries, Contract!Decide(r)
      PROVE  \A s \in Queries : Fits(s)'
  <2>1. PICK kind \in Kinds :
          outcome' = [outcome EXCEPT ![r] = [kind |-> kind, by |-> r, at |-> now]]
    BY <1>6 DEF Contract!Decide
  <2>2. /\ phaseBar[r] = "open" /\ begun' = begun
        /\ \/ phaseBar' = [phaseBar EXCEPT ![r] = "ended"]
           \/ phaseBar' = [phaseBar EXCEPT ![r] = "decided"]
        /\ endedBar' = endedBar \/ endedBar' = [endedBar EXCEPT ![r] = now]
    BY <1>6 DEF Contract!Decide, Contract!End, phaseBar, endedBar
  <2>3. outcome[r] = None /\ outcome'[r] # None /\ outcome'[r].by = r
    <3>1. [kind |-> kind, by |-> r, at |-> now] \in Outcomes
      BY <1>0 DEF Outcomes
    <3>2. outcome'[r] = [kind |-> kind, by |-> r, at |-> now]
      BY <1>0, <2>1
    <3>3. outcome[r] = None
      BY <1>0, <2>2 DEF Fits, Decisive
    <3> QED
      BY <3>1, <3>2, <3>3, ConstantsAssumption
  <2>4. Fits(r)'
    BY <1>1, <2>2, <2>3 DEF Fits, Decisive
  <2>5. ASSUME NEW s \in Queries \ {r}
        PROVE  Fits(s)'
    <3>1. /\ outcome'[s] = outcome[s] /\ phaseBar'[s] = phaseBar[s] /\ endedBar'[s] = endedBar[s]
      BY <1>0, <1>1, <2>1, <2>2
    <3>2. CASE outcome[s] # None
      <4> DEFINE maker == outcome[s].by
      <4>1. maker \in Queries /\ maker # r
        BY <1>0, <2>3, <3>2, MakerType DEF Fits
      <4>2. /\ outcome'[maker] = outcome[maker] /\ phaseBar'[maker] = phaseBar[maker]
            /\ endedBar'[maker] = endedBar[maker]
        BY <1>0, <1>1, <2>1, <2>2, <4>1
      <4> QED
        BY <1>0, <2>2, <3>1, <3>2, <4>1, <4>2 DEF Fits
    <3>3. CASE outcome[s] = None
      BY <1>0, <3>1, <3>3 DEF Fits
    <3> QED
      BY <3>2, <3>3
  <2> QED
    BY <2>4, <2>5
<1>7. ASSUME NEW r \in Queries, NEW o \in Queries, Contract!HandOut(r, o)
      PROVE  \A s \in Queries : Fits(s)'
  <2>1. /\ phaseBar[r] = "open" /\ SymbolOf[o] = SymbolOf[r] /\ Contract!Fresh(o, r)
        /\ outcome[o].by = o /\ outcome[o].kind # "unexpected"
        /\ outcome' = [outcome EXCEPT ![r] = outcome[o]] /\ begun' = begun
        /\ phaseBar' = [phaseBar EXCEPT ![r] = "ended"]
        /\ endedBar' = [endedBar EXCEPT ![r] = now]
    BY <1>7 DEF Contract!HandOut, Contract!End, phaseBar, endedBar
  <2>2. phaseBar[o] \in Decisive
    BY <2>1 DEF Contract!Fresh, phaseBar, Decisive
  <2>3. /\ outcome[r] = None /\ outcome[o] # None /\ o # r
        /\ phaseBar[o] = "ended" => begun[r] <= endedBar[o] + Grace[outcome[o].kind]
    <3>1. outcome[r] = None /\ outcome[o] # None /\ o # r
      BY <1>0, <2>1, <2>2 DEF Fits, Decisive
    <3>2. outcome[o].kind \in Kinds
      BY <1>0, <3>1 DEF Outcomes
    <3>3. phaseBar[o] = "ended" => endedBar[o] + Grace[outcome[o].kind] >= begun[r]
      BY <2>1, <3>2 DEF Contract!Fresh, phaseBar, endedBar, Grace
    <3> QED
      BY <1>0, <1>1, <3>1, <3>3, MakerType
  <2>4. /\ \A s \in Queries \ {r} : outcome'[s] = outcome[s] /\ phaseBar'[s] = phaseBar[s]
                                     /\ endedBar'[s] = endedBar[s]
        /\ outcome'[r] = outcome[o] /\ phaseBar'[r] = "ended"
    BY <1>0, <1>1, <2>1
  <2>5. Fits(r)'
    BY <2>1, <2>3, <2>4 DEF Fits, Decisive
  <2>6. ASSUME NEW s \in Queries \ {r}
        PROVE  Fits(s)'
    <3>1. CASE outcome[s] # None
      <4> DEFINE maker == outcome[s].by
      <4>1. maker \in Queries /\ maker # r
        BY <1>0, <2>3, <3>1, MakerType DEF Fits
      <4> QED
        BY <1>0, <2>1, <2>4, <3>1, <4>1 DEF Fits
    <3>2. CASE outcome[s] = None
      BY <1>0, <2>4, <3>2 DEF Fits
    <3> QED
      BY <3>1, <3>2
  <2> QED
    BY <2>5, <2>6
<1> QED
  BY <1>3, <1>4, <1>5, <1>6, <1>7 DEF Contract!Next

(* What a caller may conclude from the contract, and so from               *)
(* symbol_info_tick: a tick that is not the query's own was fetched for    *)
(* the same symbol by a query that returned the same, which had not ended  *)
(* longer than the time to live before this query began.                   *)
THEOREM AnswersAreJustified == Spec => []Contract!Justified
<1>1. Contract!Justified /\ IInv /\ IInv' /\ [Next]_vars => Contract!Justified'
  BY ContractStep, JustifiedStep
<1> QED
  BY <1>1, JustifiedInit, Invariance, PTL DEF Spec


=============================================================================
