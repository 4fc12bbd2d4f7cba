----------------------------- MODULE DeskSession -----------------------------
(***************************************************************************)
(* One session of BtgTraderDeskClient with the Trader Desk, payload by     *)
(* payload: _TraderDeskSession and the loop over the fields that uses it.  *)
(* Module BtgClient takes an exchange for one step; here it is what the    *)
(* code does with a socket that has no framing but the reader's patience.  *)
(*                                                                         *)
(* The desk answers a request when it likes, as often as it likes, and may *)
(* push payloads nobody asked for.  TCP keeps them in order but hands over *)
(* what has arrived, be it the beginning of a payload; what is read is     *)
(* gone.  A payload is its topic (with the symbol), and how much of it a   *)
(* reader got hold of.                                                     *)
(***************************************************************************)
EXTENDS Integers, SequencesExt, FiniteSets

CONSTANTS
  Fields,         \* the keys of QUOTE_FIELD_MAP, in order, for their topics
  Foreign,        \* topics of other symbols or fields
  Query,          \* the call of symbol_info_tick this session serves
  Symbol,         \* its symbol
  None,
  Budget,         \* btg_trader_desk_symbol_timeout_seconds, in clock units
  SocketTimeout,  \* btg_trader_desk_timeout_seconds, likewise
  Chunk,          \* payloads that fill the 4096 bytes of one recv
  MaxSent,        \* bound of the model: payloads the desk sends
  MaxTime         \* bound of the model: later times are taken for this one

Topics == Range(Fields) \cup Foreign

(* How much of a payload was read: all of it, the part before the value or *)
(* some of that, all but the end of the value, or what an earlier read     *)
(* left of it.                                                             *)
Parts == {"whole", "prefix", "value", "rest"}

Payloads == [topic : Topics, part : Parts]

(* The topics of QUOTE_FIELD_MAP are literals, each with one field.        *)
ASSUME SessionAssumption ==
  /\ Fields \in Seq(STRING) /\ Fields # <<>>
  /\ \A i, j \in DOMAIN Fields : Fields[i] = Fields[j] => i = j
  /\ Budget \in Nat /\ SocketTimeout \in Nat
  /\ Chunk \in Nat \ {0} /\ MaxSent \in Nat /\ MaxTime \in Nat
  /\ None \notin Payloads

VARIABLES
  now,       \* time.monotonic()
  step,      \* where the session is
  greeted,   \* lines of the greeting that were read
  since,     \* when the session finished its latest field
  deadline,  \* the deadline of the query
  asked,     \* how many of the fields the session is through with
  attempt,   \* of the two attempts for a field
  waited,    \* for how long the recv that is under way has waited, else 0
  lines,     \* raw_lines: what this read has got so far
  got,       \* the kinds of values of the market fields received
  result,    \* the payload each field's value was taken from
  wire,      \* payloads sent and not yet read, in order
  arrived,   \* how many of these have arrived whole
  begins,    \* how much of the one after them has arrived
  sent,      \* how many payloads the desk has sent
  closed,    \* whether the desk has hung up
  requested, \* topics the desk was asked for
  heard      \* history: fields an answer to which came whole in a read for them

clock == <<now, deadline>>
query == <<greeted, since, asked, attempt, waited, lines, got, result, requested, heard>>
peer == <<sent, closed>>
transit == <<wire, arrived, begins>>
sessionVars == <<clock, step, query, peer, transit>>

Ended == {"refused", "broken", "timeout", "finished"}

Live == step \notin Ended

-----------------------------------------------------------------------------
(* The desk and the network.                                               *)

DeskSends ==
  /\ Live /\ ~closed /\ sent < MaxSent
  /\ step # "greeting"
  /\ \E t \in requested \cup Foreign : wire' = Append(wire, [topic |-> t, rest |-> FALSE])
  /\ sent' = sent + 1
  /\ UNCHANGED <<clock, step, query, closed, arrived, begins>>

DeskHangsUp ==
  /\ Live /\ ~closed
  /\ closed' = TRUE
  /\ UNCHANGED <<clock, step, query, sent, transit>>

Arrive ==
  /\ Live /\ arrived < Len(wire)
  /\ arrived' = arrived + 1
  /\ begins' = "none"
  /\ UNCHANGED <<clock, step, query, peer, wire>>

ArriveInPart ==
  /\ Live /\ arrived < Len(wire) /\ begins = "none" /\ ~wire[arrived + 1].rest
  /\ begins' \in {"prefix", "value"}
  /\ UNCHANGED <<clock, step, query, peer, wire, arrived>>

(* What a recv gets of the first n payloads and of some of the next one.   *)
Piece(i, part) ==
  [topic |-> wire[i].topic, part |-> IF wire[i].rest THEN "rest" ELSE part]

Received(n, part) ==
  [i \in 1..n |-> Piece(i, "whole")] \o (IF part = "none" THEN <<>> ELSE <<Piece(n + 1, part)>>)

Unread(n, part) ==
  LET left == SubSeq(wire, n + 1, Len(wire)) IN
  IF part = "none" THEN left ELSE [left EXCEPT ![1].rest = TRUE]

(* History: an answer to the field that is being asked for came whole.     *)
Hear(pieces) ==
  heard' = IF Contains(pieces, [topic |-> Fields[asked + 1], part |-> "whole"])
           THEN heard \cup {Fields[asked + 1]} ELSE heard

-----------------------------------------------------------------------------
(* __enter__: connect, two banners, the token, the acknowledgement.  The   *)
(* file of the socket is not buffered, so readline takes a recv for each   *)
(* byte of a line, and each recv has the whole timeout to itself.          *)

(* The connection is made, or a recv gets a byte that does not end a line. *)
GreetingGoesOn ==
  /\ step = "greeting"
  /\ waited' = 0
  /\ UNCHANGED <<clock, step, greeted, since, asked, attempt, lines, got, result, requested, heard,
                 peer, transit>>

ReadGreeting ==
  /\ step = "greeting" /\ greeted < 2
  /\ greeted' = greeted + 1
  /\ waited' = 0
  /\ UNCHANGED <<clock, step, since, asked, attempt, lines, got, result, requested, heard,
                 peer, transit>>

OpenSession ==
  /\ step = "greeting" /\ greeted = 2
  /\ step' = "write"
  /\ since' = now
  /\ waited' = 0
  /\ UNCHANGED <<clock, greeted, asked, attempt, lines, got, result, requested, heard,
                 peer, transit>>

(* End(how): the session is closed, for good or by an exception.           *)
End(how) ==
  /\ step' = how
  /\ since' = now
  /\ lines' = <<>>
  /\ waited' = 0
  /\ UNCHANGED <<clock, greeted, asked, attempt, got, result, requested, heard,
                 peer, transit>>

(* A wrong line or the end of the stream where a line is due.              *)
RefuseSession == step = "greeting" /\ End("refused")

(* An OSError: no connection, a recv of the greeting that times out, a     *)
(* reset.                                                                  *)
SessionBreaks ==
  /\ step \in {"greeting", "write", "recv"}
  /\ End("broken")

-----------------------------------------------------------------------------
(* query: two attempts, each a request, a pause and a read.                *)

Field == Fields[asked + 1]

(* _ensure_deadline passes and the request is written; the pause is the    *)
(* time until the read begins.                                             *)
WriteRequest ==
  /\ step = "write" /\ now <= deadline
  /\ step' = "look"
  /\ requested' = requested \cup {Field}
  /\ UNCHANGED <<clock, greeted, since, asked, attempt, waited, lines, got, result, heard,
                 peer, transit>>

(* The head of the loop of _read_available_payloads, up to the recv.       *)
BeginRecv ==
  /\ step = "look" /\ now <= deadline
  /\ step' = "recv"
  /\ UNCHANGED <<clock, greeted, since, asked, attempt, waited, lines, got, result, requested,
                 heard, peer, transit>>

(* _has_market_data, when _ensure_deadline raises ProviderTimeoutError:    *)
(* what the read had got is lost, the fields received before are not.      *)
GiveUpRest ==
  /\ step \in {"write", "look"} /\ now > deadline
  /\ got # {}
  /\ step' = "finish"
  /\ asked' = Len(Fields)
  /\ since' = now
  /\ lines' = <<>>
  /\ heard' = heard \ {Field}
  /\ UNCHANGED <<clock, greeted, attempt, waited, got, result, requested, peer, transit>>

TimeOutMutant == step \in {"write", "look"} /\ now > deadline /\ End("timeout")

TimeOut ==
  /\ step \in {"write", "look"} /\ now > deadline
  /\ got = {}
  /\ End("timeout")

(* payload.startswith(expected_prefix)                                     *)
Matches(payload, field) ==
  payload.topic = field /\ payload.part \in {"whole", "value"}

MarketFields == {"last", "bid", "ask", "volume"}

(* What the code can make of a value; "" is no market data.                *)
ValuesOf(field) ==
  IF field = "volume" THEN {"number", "text", "infinite"} ELSE {"number", "text"}

Took(payload) ==
  /\ result' = [result EXCEPT ![Field] = payload]
  /\ \/ UNCHANGED got
     \/ Field \in MarketFields /\ \E v \in ValuesOf(Field) : got' = got \cup {v}

NextField ==
  /\ asked' = asked + 1
  /\ attempt' = 1
  /\ step' = IF asked + 1 = Len(Fields) THEN "finish" ELSE "write"
  /\ since' = now

ThirdAttemptMutant == attempt = 3

SingleAttemptMutant == attempt >= 1

(* for _ in range(2)                                                       *)
LastAttempt == attempt = 2

(* The first of the lines that matches.                                    *)
IsAnswer(all, i) ==
  Matches(all[i], Field) /\ \A j \in 1..(i - 1) : ~Matches(all[j], Field)

Unanswered(all) == \A i \in DOMAIN all : ~Matches(all[i], Field)

(* The read is over with these lines: the first that matches is the value, *)
(* and if there is none the field is asked for once more, or given up.     *)
EndRead(all) ==
  /\ lines' = <<>>
  /\ waited' = 0
  /\ \/ \E i \in DOMAIN all : IsAnswer(all, i) /\ Took(all[i]) /\ NextField
     \/ Unanswered(all) /\ LastAttempt /\ NextField /\ UNCHANGED <<got, result>>
     \/ /\ Unanswered(all) /\ ~LastAttempt
        /\ attempt' = attempt + 1
        /\ step' = "write"
        /\ UNCHANGED <<since, asked, got, result>>
  /\ UNCHANGED <<clock, greeted, requested, peer>>

(* recv returns less than it could: the read is over.                      *)
RecvShort ==
  /\ step = "recv"
  /\ arrived > 0 \/ begins # "none"
  /\ arrived <= Chunk
  /\ EndRead(lines \o Received(arrived, begins))
  /\ Hear(Received(arrived, begins))
  /\ wire' = Unread(arrived, begins)
  /\ arrived' = 0
  /\ begins' = "none"

LinesReplacedMutant(n, part) ==
  /\ lines' = Received(n, part)
  /\ Hear(Received(n, part))
  /\ wire' = Unread(n, part)
  /\ arrived' = arrived - n

TakeChunk(n, part) ==
  /\ lines' = lines \o Received(n, part)
  /\ Hear(Received(n, part))
  /\ wire' = Unread(n, part)
  /\ arrived' = arrived - n

(* recv returns 4096 bytes, wherever in a payload they end, and is called  *)
(* again.                                                                  *)
RecvFull ==
  /\ step = "recv"
  /\ arrived >= Chunk
  /\ TakeChunk(Chunk, "none") \/ TakeChunk(Chunk - 1, "prefix") \/ TakeChunk(Chunk - 1, "value")
  /\ step' = "look"
  /\ waited' = 0
  /\ UNCHANGED <<clock, greeted, since, asked, attempt, got, result, requested, peer, begins>>

NoTimeoutMutant == closed /\ arrived = Len(wire)

(* recv gets nothing: its timeout has passed, at the latest when the       *)
(* deadline has, or the desk has hung up.                                  *)
NothingComes ==
  \/ waited >= SocketTimeout
  \/ now >= deadline
  \/ closed /\ arrived = Len(wire)

RecvNothing ==
  /\ step = "recv" /\ arrived = 0 /\ begins = "none"
  /\ NothingComes
  /\ EndRead(lines)
  /\ UNCHANGED <<transit, heard>>

(* _mark_probe_success, once the session is closed.                        *)
FinishSession == step = "finish" /\ End("finished")

-----------------------------------------------------------------------------

Waiting == step \in {"greeting", "recv"}

(* Time passes, but no recv outlasts its timeout and nobody dawdles after  *)
(* the deadline: how long the scheduler keeps a thread that has nothing to *)
(* wait for is left out.  The greeting knows no deadline.                  *)
Tick ==
  /\ Live
  /\ Waiting => waited < SocketTimeout
  /\ step # "greeting" => now <= deadline
  /\ now' = IF now < MaxTime THEN now + 1 ELSE now
  /\ waited' = IF Waiting THEN waited + 1 ELSE 0
  /\ UNCHANGED <<deadline, step, greeted, since, asked, attempt, lines, got, result, requested,
                 heard, peer, transit>>

(* The deadline was set before the query waited for _rtd_lock: it may be   *)
(* nearer than the budget, or over.                                        *)
Init ==
  /\ now = 0
  /\ deadline \in -1..Budget
  /\ step = "greeting"
  /\ greeted = 0
  /\ since = 0
  /\ asked = 0
  /\ attempt = 1
  /\ waited = 0
  /\ lines = <<>>
  /\ got = {}
  /\ result = [f \in Range(Fields) |-> None]
  /\ wire = <<>>
  /\ arrived = 0
  /\ begins = "none"
  /\ sent = 0
  /\ closed = FALSE
  /\ requested = {}
  /\ heard = {}

Environment == DeskSends \/ DeskHangsUp \/ Arrive \/ ArriveInPart

Handshake == GreetingGoesOn \/ ReadGreeting \/ OpenSession \/ RefuseSession

Exchange ==
  \/ WriteRequest \/ BeginRecv \/ GiveUpRest \/ TimeOut
  \/ RecvShort \/ RecvFull \/ RecvNothing
  \/ FinishSession

Over == ~Live /\ UNCHANGED sessionVars

Next == Tick \/ Environment \/ Handshake \/ Exchange \/ SessionBreaks \/ Over

(* A recv of the greeting ends, if nothing comes, with the end of the      *)
(* stream or its timeout.                                                  *)
GreetingFails ==
  \/ closed /\ RefuseSession
  \/ step = "greeting" /\ waited >= SocketTimeout /\ SessionBreaks

(* The clock goes on and the thread runs.  Nobody counts on the desk to    *)
(* finish a line, or to answer, or on a socket that breaks.                *)
Fairness ==
  /\ WF_sessionVars(Tick)
  /\ WF_sessionVars(GreetingFails)
  /\ WF_sessionVars(Exchange)

Spec == Init /\ [][Next]_sessionVars /\ Fairness

-----------------------------------------------------------------------------
(* Properties.                                                             *)

TypeOK ==
  /\ now \in Nat /\ deadline \in Int /\ since \in Nat /\ waited \in Nat
  /\ step \in {"greeting", "write", "look", "recv", "finish"} \cup Ended
  /\ greeted \in 0..2
  /\ asked \in 0..Len(Fields)
  /\ attempt \in 1..2
  /\ lines \in Seq(Payloads)
  /\ got \subseteq {"number", "text", "infinite"}
  /\ result \in [Range(Fields) -> Payloads \cup {None}]
  /\ wire \in Seq([topic : Topics, rest : BOOLEAN])
  /\ arrived \in 0..Len(wire)
  /\ begins \in {"none", "prefix", "value"}
  /\ sent \in 0..MaxSent
  /\ closed \in BOOLEAN
  /\ requested \subseteq Range(Fields) /\ heard \subseteq Range(Fields)

(* A field stays without a value only if no read for it got an answer to   *)
(* it whole (_read_available_payloads, _split_payloads): neither another   *)
(* payload in front of it, nor a read of several chunks, nor the second    *)
(* attempt makes the session overlook one.  Only the deadline does, when   *)
(* it passes between two chunks.                                           *)
NothingOverlooked ==
  \A i \in 1..asked : Fields[i] \in heard => result[Fields[i]] # None

Valueless == {i \in 1..asked : result[Fields[i]] = None}

(* Reads that gave no value to the field they were for.                    *)
Fruitless == 2 * Cardinality(Valueless) + (attempt - 1)

(* Pieces read so far: two for a payload that was cut, else one.           *)
Cut == IF wire # <<>> /\ wire[1].rest THEN 1 ELSE 0
PiecesAtMost == 2 * (sent - Len(wire)) + Cut

(* The session does not lose patience with a desk that is still there: as  *)
(* long as the deadline is ahead, a field is given up, or asked for again, *)
(* only after reads (the two attempts of query) that each got a piece of   *)
(* something else or waited for the whole timeout of the socket, whatever  *)
(* the desk sends, in whatever pieces.  One push that arrives in two parts *)
(* uses up both attempts; silence costs two timeouts.                      *)
PatienceKept ==
  Live /\ ~closed /\ now < deadline =>
    SocketTimeout * (Fruitless - PiecesAtMost) <= now

(* Every session ends (the timeouts of the socket, _ensure_deadline) if    *)
(* the desk falls silent, hangs up or sends what it was not asked for,     *)
(* unless it goes on for ever to begin lines of the greeting, of which     *)
(* each byte renews the timeout.                                           *)
SessionEnds ==
  <>[][~GreetingGoesOn]_sessionVars => <>(step \in Ended)

(* The session as module BtgClient sees it, for a single query.            *)
Alone(value) == [q \in {Query} |-> value]

Place ==
  CASE step = "greeting" -> "handshake"
    [] step \in {"write", "look", "recv", "finish"} -> "fields"
    [] step = "broken" -> "mark_failure"
    [] step = "finished" -> "convert"
    [] OTHER -> "done"

Kept == step \notin {"refused", "broken", "timeout"}

Client == INSTANCE BtgClient WITH
  Probes <- {}, Queries <- {Query}, Symbols <- {Symbol}, SymbolOf <- Alone(Symbol),
  TickTtl <- 0,
  serving <- TRUE, losses <- 0, probe <- <<>>, report <- <<>>,
  lostBefore <- <<>>,
  state <- [connected |-> step = "finished",
            state |-> IF step = "finished" THEN "connected" ELSE "disconnected",
            connect_attempts |-> 0, reconnect_count |-> 0,
            last_connected_at |-> FALSE, last_error |-> FALSE],
  pc <- Alone(Place),
  begun <- Alone(0),
  since <- Alone(since),
  deadline <- Alone(IF Kept THEN deadline ELSE 0),
  asked <- Alone(IF Kept THEN asked ELSE 0),
  got <- Alone(IF Kept THEN got ELSE {}),
  outcome <- Alone(IF Kept THEN None
                   ELSE [kind |-> IF step = "timeout" THEN "timeout" ELSE "connection_error",
                         by |-> Query, at |-> since]),
  rtdLock <- IF Live THEN Query ELSE None,
  tickCache <- [s \in {Symbol} |-> None]

(* Whatever a session does, BtgClient does in the steps of one query: the  *)
(* exchanges it takes for atomic are what this code makes of a stream of   *)
(* payloads.  So what is checked of the client and what a query leaves     *)
(* behind hold of the sessions, too.                                       *)
SessionsAreQueries == [][Client!Next]_(Client!vars)

-----------------------------------------------------------------------------
(* A claim of the documentation that the code does not keep.               *)

(* README.md:81: the symbol timeout is the total budget of a symbol in the *)
(* provider.  So a query that got the lock with all of it left, as the     *)
(* session began, is through when it is used up; one clock unit is allowed *)
(* for noticing it.                                                        *)
BudgetKept ==
  Live /\ deadline = Budget => now <= deadline + 1

=============================================================================
