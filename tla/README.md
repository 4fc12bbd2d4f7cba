# Formal model of the BTG quote gateway

`api-metatrader5` is a FastAPI gateway in front of the BTG Trader Desk, a desktop
program that answers market-data queries over a line-based TCP protocol. This
directory holds TLA+ models of the gateway's core logic, the TLC
configurations that check them on small instances, and TLAPS proofs of
the results that matter most. Paths below are relative to the repository;
`market_data.py` and `btg_trader_desk_client.py` are under
`src/api_metatrader5/services/`.

    tlc -workers 2 -config QuoteService_safety.cfg MCQuoteService   # any run of PROJECT.json
    tlapm QuoteServiceProofs.tla                                    # any *Proofs module

## 1. The system and its parts

One process. FastAPI's event loop runs the middleware and the HMAC
dependency (coroutines); route handlers are plain functions, so each runs on a
thread of the worker pool. All services are singletons shared by these threads.
Nothing is persisted, apart from logs and the operator's PID file.

    request -> middleware (Monitoring) -> verify_hmac_request (NonceStore)      event loop
            -> route -> MarketDataService.get_quote / get_quotes_batch / search  worker thread
                 -> BtgTraderDeskClient.symbol_info / symbols_get / symbol_info_tick
                      -> _TraderDeskSession (TCP, one at a time for quotes)
    GET /ready -> MarketDataService.readiness -> ensure_connected (own session)

| component | state | operations | what makes it correct | model |
|---|---|---|---|---|
| Quote service, `market_data.py` | positive and negative quote cache under one lock; in-flight table under another; one event per flight | `get_quote` | one fetch per key at a time; nobody is left waiting; no stale answer; a timeout is remembered | `QuoteService`; down to the client `QuotePath` |
| Trader Desk client, `btg_trader_desk_client.py` | connection status under `_lock`, session lock `_rtd_lock`, tick cache under its own lock | `ensure_connected`, `connection_status`, `shutdown`, `symbol_info_tick` | status agrees with the last mark; reconnections are counted once; sessions are serial and no path keeps the lock; ticks are fresh | `BtgClient` |
| Readiness, `market_data.py:28` | none of its own | `readiness` | reports what the client knows | in `BtgClient` (probes) |
| Session protocol, `btg_trader_desk_client.py:30` | a socket | handshake, `query` | no answer is overlooked; no field is given up too soon; every session ends | `DeskSession`, in single steps in `BtgClient` |
| Symbols | catalog and symbol cache, neither locked; the alias map | `_resolve_symbol_info`, `search_symbols`, `symbol_info`, `symbols_get`, `symbol_select` | alias, then own name, then partial match; no symbol is made up; a search hides what its limit cuts and nothing else; the catalog is loaded once | `SymbolCatalog` |
| Batch quotes | local to a call | `get_quotes_batch` | one call per symbol, one item per element in order, totals agree | `QuotesBatch` |
| HMAC authentication, `security/hmac_auth.py` | nonces with expiry, in memory | `verify_hmac_request`, `NonceStore.remember`, `require_hmac_scopes` | a message is admitted once; a rejection as a replay has a cause | `HmacAuth` |
| Operator scripts, `scripts/*.ps1` | PID file, processes, port | start, stop, restart | stop stops, start does not start twice | `GatewayScripts` (partly) |
| Monitoring and middleware | counters under a lock | `request_started`, `request_finished`, `snapshot` | in-flight counts are what is in flight; one answer agrees with itself | `Gateway` |
| Errors, routes, dependencies | none | status of an error, scope of a route | a refused request is not served | `Gateway` (partly) |
| Orders | none | always raise `NotSupportedError` | - | `Gateway` (`RefuseOrder`) |
| Settings, schemas, logging | none | parsing and wiring | - | not modelled |
| `mt5_client.py` | - | not referenced by the application | - | not modelled |
| Diagnosis and test scripts | none | reporting | - | not modelled |

### What is hard here

* *Interleaving*: `get_quote` is a chain of critical sections, on any number of
  threads; a waiter's timeout races the owner's publication, and an abandoned owner
  still releases. The marks of the connection status come from threads that do not
  exclude each other (a failure is marked after the session lock is gone).
* *Stale readings*: each clock reading is made before the lock is taken, so a slow
  writer stores an expiry that is older than it looks.
* *Partial failure*: what is raised between the opening of a flight and the `try`
  block; the deadline passing between two fields; what is no `AppError`.
* *Timeouts*: the budget of a query, the wait for a flight and the timeouts of the
  socket are three clocks that do not know each other, and the last one starts anew
  with every `recv`, which in the greeting is every byte.
* *A stream without frames*: the desk may answer late, twice or unasked, TCP hands over
  what has arrived, and the reader ends with the first `recv` that is not full.
* *Stacked caches*: a cached quote may be made of a cached tick, under the same ttl.
* *Layers*: counting, authentication, validation and handlers each refuse on their own.
* *Unlocked sharing*: the catalog is loaded by whoever comes first, or by two.
* *Restart*: nonces are lost.

`PROJECT.json` lists each hazard at its line with the properties aimed at it.

## 2. Modules

| module | role |
|---|---|
| `AnswerContract` | abstract specification: what a cached call promises, without caches |
| `QuoteService`, `MCQuoteService`, `QuoteServiceProofs` | `get_quote`; implements `AnswerContract` |
| `BtgClient`, `MCBtgClient`, `BtgClientProofs` | the client and readiness; `symbol_info_tick` implements `AnswerContract` |
| `SymbolCatalog`, `MCSymbolCatalog`, `SymbolCatalogProofs` | resolution, search, catalog, symbol cache |
| `QuotesBatch`, `MCQuotesBatch`, `QuotesBatchProofs` | the batch call |
| `HmacAuth`, `HmacAuthProofs` | authentication |
| `Gateway`, `MCGateway`, `GatewayProofs` | `HmacAuth` with the middleware, the routes and the counters around it |
| `DeskSession`, `MCDeskSession`, `DeskSessionProofs` | a session payload by payload; implements the query of `BtgClient` |
| `QuotePath`, `MCQuotePath`, `QuotePathProofs` | `QuoteService` on top of the tick cache, the symbol cache and the session lock |
| `GatewayScripts`, `MCGatewayScripts` | start, stop, restart |

Each component module is parameterised by CONSTANTS; the MC modules only give
instances. Operators named `...Mutant` are plausible bugs kept next to what they
mutate; they are not part of any specification.

### QuoteService

A request is one call of `get_quote`; keys are `(symbol, include_raw)`. One action is
one critical section or one blocking call:

| code | actions |
|---|---|
| `_get_cached_quote`, `_get_cached_negative_quote` (lazy eviction included) | `QuoteHit`, `QuoteMiss`, `NegativeHit`, `NegativeMiss` |
| `_acquire_inflight` | `OpenFlight`, `JoinFlight` |
| `event.wait`, then `:93-113` | `WaitWoken`, `WaitExpired`, `WaitStoreNegative`, `DropStale` |
| `_resolve_symbol_info` at `:115`, outside the `try` | `ResolveSucceeds`, `ResolveFails` |
| the `try` block and its `except` | `FetchSucceeds`, `FetchTimesOut`, `FetchFails`, `StoreQuote`, `StoreNegative` |
| `_release_inflight`: `event.set()` outside the lock, then the removal | `Publish`, `Release` |

Dictionaries are functions with `None` for a missing entry; a flight is named by the
request that opened it. An outcome is a kind, the request that made it, and when. A
reading of the clock that the code makes before it takes a lock is any time
since the request's previous step.

### BtgClient

Probes are calls of `readiness` (`BeginProbe`, `ProbeSucceeds`, `ProbeFails`, and
`ReportStatus`, the second critical section). Queries are calls of
`symbol_info_tick`: the tick cache (`TickHit`, `TickMiss`, `StoreTick`), the deadline
and the lock (`SetDeadline`, `AcquireRtdLock`), the session (`OpenSession`,
`SessionRefused`, `SessionBreaks`, `AskField`, `SettleForPartial`, `FieldsTimeOut`,
`FinishSession`), the failure marked after the lock was released (`MarkFailure`), and
the conversion (`Convert`). What the peer sends is nondeterministic: number, text
that is none, an infinite volume (which makes `int()` raise `OverflowError`), or
nothing. A field is asked for as long as its first look at the deadline was in time.

### SymbolCatalog

A call reads or writes shared state in one step. `ReadFile` and `StoreCatalog` are
the two halves of the unlocked `_catalog_rows`; `symbol_info` is `LookUpHits`,
`LookUpMisses` and the tick query abstracted to `TickArrives`, `NoTick` or
`TickRaises`. `tries` counts the calls of `symbol_info` that `_resolve_symbol_info`
makes for a candidate, `symbol_select` included, whose result nobody uses.
`SortedAndCut` is what `search_symbols` makes of the rows: sorted by its key (`SortsBefore`:
the name itself, names that begin with it, names) and cut to the limit.
The catalog and the symbol cache are looked at in one step; the first is constant
once loaded, apart from a second loader's store, so a finer step would only delay
the reading of the cache, which only grows.

### QuotesBatch, HmacAuth, GatewayScripts

`QuotesBatch` is the loop, with `get_quote` abstracted to an outcome that carries the
number of the call, so that a reused answer can be told from a repeated one.

`HmacAuth` splits a delivery at the only `await`: `Check` (headers, key, window) and
`RejectForged`, `RejectReplay` or `Admit` (signature, nonce, scopes), or `Abort`, the
exceptions that are no `AuthenticationError`: the client leaves while its body is awaited,
or `compare_digest` is given a signature that is not ASCII. The clock has
`TicksPerSecond` ticks because the window truncates it and the nonce store does not.
`Restart` empties the store. Signatures are a predicate of the message. Its
properties are checked inside `Gateway`, which takes its actions as they are.

`GatewayScripts` has the three scripts step by step, the gateway processes they
launch (which bind, exit or crash) and the PID file. `RunningGatewayProcess` is `None`
because `mt5-gateway-common.ps1:72` assigns to PowerShell's read-only `$PID`, and the
`catch` returns `$null`.

### Gateway

An attempt of `HmacAuth` is one HTTP request; `stage` is how far it has come.

| code | actions |
|---|---|
| the middleware up to `call_next`, `request_started` | `Arrive` |
| no route, or a body that is no JSON (FastAPI parses it before any dependency runs) | `RefuseUnread` |
| `require_hmac_scopes`, then the validation of parameters | `Authenticate`, a step of `HmacAuth` and what the request goes on to |
| handlers, with `_handle_app_error` | `ServePublic`, `Handle`, `RefuseOrder`, `TakeSnapshot` |
| any other exception, of the authentication or of a handler: the middleware counts a 500 and passes it on | `DependencyRaises`, `HandlerRaises`, `FinishRaised` |
| the middleware after `call_next`, `request_finished` | `Finish` |
| `create_app` | `RestartGateway` |

A record of counters has the classes of status codes the gateway can answer with; the
window of durations is left out. `call_next` cut off by a cancelled task is not
modelled (the middleware catches `Exception`, which that is not); uvicorn lets requests
end before it stops, and what a crash cuts is gone with its counters.

### DeskSession

One query's session, from the greeting on. A payload is its topic, with the symbol, and
how much of it a reader got: all, the part before the value or some of it (`prefix`),
the value without its end (`value`), or what an earlier read left (`rest`).
`DeskSends`, `Arrive` and `ArriveInPart` are the desk and TCP, which keeps the order.
`waited` is how long the `recv` under way has waited; only that wait is bounded by the
timeout of the socket. In the greeting the file is not buffered, so `readline` is a `recv`
for each byte: `GreetingGoesOn` is one that gets a byte and does not end the line,
`ReadGreeting` and `OpenSession` end one, and nothing bounds their number. The clock runs
in the greeting without a limit and up to one unit past the deadline after it.
`WriteRequest` is the look at the deadline and the request, `BeginRecv` the head of
the loop, and `recv` is `RecvShort` (less than 4096 bytes: the read is over),
`RecvFull` (exactly 4096, wherever in a payload they end) or `RecvNothing` (timeout, or
the peer hung up); `GiveUpRest` and `TimeOut` are what `_query_fields_locked` makes of
a deadline that passed. The refinement maps a greeting to `handshake`, and each
field, however many writes, pauses and reads it takes, to one `AskField`.

### QuotePath

`QuoteService`'s two blocking calls opened up: the resolution calls `symbol_info_tick`
up to three times for a symbol that is not known, the fetch up to twice, each through
the tick cache, the session lock and the desk, which answers, has nothing or fails.
The raw and the plain quote of one symbol are two keys over one tick and one session.
`ResolveKnown`, `ResolveByTick`, `NotFound`, `FetchByTick`, `NoTick` and `DeskFails` are
`QuoteService`'s own actions with the client's part added; all its other steps
are taken unchanged (`ServiceStep`), so every behaviour of `QuotePath` is one of
`QuoteService` (theorem `PathIsQuoteService`), whose contract holds here without another run.

## 3. Runs

### Passing

| run | instance | what it shows |
|---|---|---|
| `quote_safety` | 3 requests, 1 key, all ttls 1, wait 1, time 3 | `TypeOK`; `OneOwnerUnlessAbandoned`: a working owner's flight is the one in the table unless a waiter gave up on it; `TimeoutRemembered`: a reported timeout stays in the negative cache for its time, except when a slower writer stores an older one; `ImplementsContract`: no stale or foreign answer |
| `quote_liveness` | 2 requests, wait 2, time 4, fairness | `EveryCallReturns`; `OrphanIsDropped`: the flight a failed resolution leaves behind is removed by the first waiter that times out on it |
| `btg_safety` | 2 probes, 2 queries, 1 symbol, 2 fields, time 2 | `TypeOK`; `StatusCoherent`; `ReconnectsAreReal`; `ReadyIsAccounted`: a probe that succeeded finds the client disconnected only after a failure; `SessionsAreSerial`; `ImplementsContract` for ticks. Deadlock is checked, so no path keeps `_rtd_lock` |
| `batch` | every list of 1 to 4 names, 2 symbols, one with two spellings | `TypeOK`; `OneCallPerSymbol`; `ItemsAnswerSymbols`; `CountsAgree` |
| `symbols` | 2 resolutions, 2 searches with a limit of 2, 3 symbols, one alias, a file rewritten once | `TypeOK`; `AnswersAreReal`; `OwnNameFirst`; `OnlyTheLimitHides`: what one search listed a later one leaves out only when it is full of symbols that sort before it; `CatalogSettles` |
| `gateway` | 2 requests, 10 messages, 5 endpoints, half-second ticks, time 13, 1 restart | `TypeOK`, `AcceptedOnce`, `ReplayHasCause` of `HmacAuth`; `GatewayTypeOK`; `InFlightIsReal`; `SnapshotsBalance` and `EndpointsAddUp`: each record of a snapshot balances, and the endpoints add up to the total in every number; `ServedOnce`: a guarded endpoint reports no more successes than messages that deserve one |
| `session` | 2 fields, 3 payloads, one foreign topic, chunks of 2 payloads, budget 2, time 3, fairness | `TypeOK`; `NothingOverlooked`; `PatienceKept`: before the deadline, and while the desk is there, each read that gave its field nothing got a piece of something else or waited for the whole timeout; `SessionsAreQueries`: refinement of `BtgClient`'s query; `SessionEnds`, unless the desk spells its greeting for ever |
| `quote_path` | 2 of 3 requests on 2 keys of 1 symbol, all ttls 1, wait 1, time 4 | `PathTypeOK`; `AgeBounded`: the tick a quote is made of was young when its maker began; `QuotesAreFresh`: the ages of the two caches add up to a bound for whoever gets the quote; `WaitsEndAtTheDesk`: no circle of flights and session lock; `FirstAccessAsksOnce` |

### Violated: where the code departs from its documents

| run | claim | what happens |
|---|---|---|
| `quote_shared` | `README.md:345`, the others get the same result | resolution raises at `market_data.py:115`, before the `try`: the flight is never published, waiters sleep for the whole wait timeout and get a timeout of their own |
| `desk_budget` | `README.md:81`, total budget of a symbol | a session begins with the whole budget ahead; a line and another byte of the greeting come, each within its own timeout, and the budget is over while the greeting still goes on: the deadline is not looked at before the first request |
| `symbols_aliases` | `README.md:83`, search finds configured aliases | `symbols_get` never looks at the alias map |
| `scripts_stop` | `docs/deploy-operacao.md:99`, stop ends the process of the PID file | the process cannot be looked up; stop deletes the PID file and leaves it running |

Seen while modelling, without a run: a waiter that times out drops the flight of a slow
owner, and the next request queries next to it (`README.md:344` says that one of
simultaneous requests queries; `OneOwnerUnlessAbandoned` is what does hold); a
failure marked between a probe's success and its report makes a `ready` with
`connected = false` (`README.md:129-131`; `ReadyIsAccounted` is what does hold); a read
that ends inside a value takes its beginning for the value; one push that arrives in two
parts uses up both attempts for a field; a desk that spells its greeting byte by byte keeps
the session, and the lock, for as long as it likes; an old failure, marked after the lock
was released, overwrites the success of a newer session until the next mark; a timeout of the resolution is not remembered by its owner; one answer of
`/metrics` reads the provider's status twice; an exception that is no `AppError` discards the
answered items of a batch (`README.md:176` leaves open whether it may; modelled as
`GetQuoteRaises`); errors of a refused session carry no `details.symbol`
(`README.md:175`); a symbol of blanks resolves to the first symbol known, because
it is not found and then matches `**`; a handshake that fails leaves its socket to
the garbage collector.

### Bounds, and why they are enough

* *One key or symbol* in `QuoteService` and `BtgClient`: entries of different keys
  share only locks, so one key has all the contention. The proofs are for any number.
* *Three requests* are an owner, a waiter that gives up on it, and a successor that
  opens the next flight before the owner releases: the shortest story with a wrong
  removal. Two suffice for liveness, whose hazards are between a waiter and an owner.
* *Ttl and wait of 1 or 2* against a clock up to 3 or 4 let entries be fresh, at the
  very instant of expiry, and expired; `WaitTimeout` equals the negative ttl or
  exceeds it. A ttl of 0, which switches a cache off, is covered by the proofs, and by
  the negative cache of `quote_path`.
* `MaxTime` stops the clock. In `QuoteService` requests start only while their wait can
  still end, and near the end time waits for them, so that the bound
  never hides a timeout; in `HmacAuth` it is past the expiry of every nonce that could
  be used twice. `BtgClient` needs room for a deadline to pass and a tick to expire.
* *Fields*: one market field that can hold every kind of value and one decoration; the
  others behave like these.
* *Gateway*: two requests are an admission and its replay, or a snapshot and what it
  overlaps; 13 ticks reach past the expiry of a nonce that is used when the first one is
  purged. More deliveries of one message are covered by the proofs. The ten messages
  are one for each way a request can end, and the `reused` nonce.
* *DeskSession*: three payloads are a late answer, the one it hides and a foreign one;
  two of them fill a chunk, so a read of several chunks happens. The deadline starts
  anywhere from -1 (the lock was awaited for longer than the budget) to the budget, which
  is two timeouts of the socket, what the two attempts for a silent field take. `MaxTime`
  exceeds the longest deadline; after it the clock stands still while waits still run out, so
  it cuts nothing off.
* *QuotePath*: the constraint `TwoCalls` takes two calls for one key, where one waits for
  the other or gets what it made, up to three ticks later; or two whose sessions, ticks and
  symbol caches collide though their keys do not, for two ticks, when entries of
  either cache are gone. That a quote made of a tick another key stored is handed to a
  third call takes all three, which are too many for TLC; the proofs cover them.
* *HmacAuth*: skew 1 s, ttl 4 s, a body that takes up to 1 s. That is the least ttl for
  which `TtlCoversWindow` holds (with the deployed 30 s and 300 s it does amply).
  `reused` is a second signed message with the same nonce, stamped when the first
  nonce is due to expire.
* *SymbolCatalog*: two loaders and one rewrite are what two different
  catalogs in memory take; the two searches are an earlier and a later one, and their
  limit is one less than the symbols there are, the last of which sorts first by name
  alone and last by the key.
* *QuotesBatch*: four elements hold a repetition, its other spelling and another
  symbol, in any order, with success and failure.

Symmetry is used for interchangeable requests only, never in the liveness run.

### Fairness

Two runs assume any. `quote_liveness`: weak fairness of the clock, and of every request
that has started. The operating system runs every runnable thread, `Event.wait` has a
timeout, and every socket operation has one, so resolution and fetch end, provided that
the desk does not spell a greeting for ever. Nobody is
obliged to send a request. Locks are held for one step each, so no
stronger fairness is needed.

`session`: weak fairness of the clock, of the thread's own steps after the greeting, and
of the ways a greeting fails by itself (`GreetingFails`: the end of the stream is read, or a
`recv` has waited for its whole timeout). Nobody obliges the desk to finish a line, to answer
or to hang up, or a socket to break. A desk that goes on for ever to send bytes of a greeting
holds the session for ever, in the code as in the model; so `SessionEnds` has the premise
that it does not (`<>[][~GreetingGoesOn]_sessionVars`).

## 4. Proofs

Each `...Proofs` module proves its component's invariants for every value of the
constants, from the named assumption in the component's module alone unless a theorem
says otherwise. All follow one plan: an inductive invariant (`IInv`, `GatewayIInv`,
`PathIInv`; theorem `Invariance` and its like) with one lemma for each part, in which
every action is a case; the theorems are its consequences, one per property of the runs.
TLC, too, finds each of them to hold on the instances of the runs.

| module | theorem | what it states |
|---|---|---|
| `QuoteServiceProofs` | `TypeCorrectness`, `Coalescing`, `TimeoutsAreRemembered` | `TypeOK`, `OneOwnerUnlessAbandoned`, `TimeoutRemembered` |
| | `Refinement`, `AnswersAreJustified` | `Spec => ImplementsContract`; `Spec => []Contract!Justified`, what the contract comes to for a caller |
| `BtgClientProofs` | `TypeCorrectness`, `StatusCoherence`, `Reconnections`, `ReadinessAccounted`, `SerialSessions` | `TypeOK`, `StatusCoherent`, `ReconnectsAreReal`, `ReadyIsAccounted`, `SessionsAreSerial` |
| | `Refinement`, `AnswersAreJustified` | `Spec => ImplementsContract`; `Spec => []Contract!Justified` |
| `DeskSessionProofs` | `TypeCorrectness`, `AnswersAreTaken`, `PatienceIsKept` | `TypeOK`, `NothingOverlooked`; `PatienceKept` if `Budget <= MaxTime` |
| | `SessionsRefine` | `Spec => SessionsAreQueries` |
| `QuotePathProofs` | `PathIsQuoteService` | `PathSpec => Spec`, hence `PathKeepsContract`, `PathCoalesces`, `PathRemembersTimeouts` |
| | `PathTypeCorrectness`, `AgeOfQuotes`, `AgeOfAnswers`, `NoCircularWait`, `AsksOnce` | `PathTypeOK`, `AgeBounded`, `QuotesAreFresh`, `WaitsEndAtTheDesk`; `FirstAccessAsksOnce` if `QuoteTtl > 0` |
| `SymbolCatalogProofs` | `TypeCorrectness`, `NothingMadeUp`, `NamesInOrder`, `CatalogStays`, `OnlyTheLimitCuts` | `TypeOK`, `AnswersAreReal`, `OwnNameFirst`, `CatalogSettles`, `OnlyTheLimitHides` |
| `QuotesBatchProofs` | `TypeCorrectness`, `AskedOnce`, `Matched`, `CountsCorrect` | `TypeOK`, `OneCallPerSymbol`, `ItemsAnswerSymbols`, `CountsAgree` |
| `HmacAuthProofs` | `TypeCorrectness`, `ReplaysHaveCause`, `NoReplay` | `TypeOK`, `ReplayHasCause`; `AcceptedOnce` if `TtlCoversWindow` |
| `GatewayProofs` | `GatewayRunsAuthentication`, `GatewayNoReplay` | `GatewaySpec => Spec`; `AcceptedOnce` if `TtlCoversWindow` |
| | `GatewayTypeCorrectness`, `InFlightCorrect`, `SnapshotsCorrect`, `EndpointsSum`, `ServesOnce` | `GatewayTypeOK`, `InFlightIsReal`, `SnapshotsBalance`, `EndpointsAddUp`; `ServedOnce` under its condition |

### The arguments

`QuoteService`. `Flying` (a waiter holds another's flight for its own key), `Decided`
(what is still to be stored or published is of the call's own making), `Table` (flights
sit at their own keys, and one whose event is set is about to be released),
`Published` (what is shared is its owner's outcome), `Timely` (a waiter began before its
owner ended) and `CachesBacked` (an entry is its maker's outcome and expires no later
than ttl after its maker's latest step). `Table` is why a release cannot hit a
successor; `CachesBacked` and `Timely` are why every hand-over is fresh.
`TimeoutsAreRemembered` stands on a second invariant: `Remembered`, from the moment a
call has stored its timeout, says that the entry of its key does not expire before the
call's own would (so no lookup evicts it early), or that a slower call stored an older
timeout; `Dated` keeps both calls' outcomes what they were.

A refinement says what steps are allowed, not what an answer is worth to the one who has
it. `AnswersAreJustified` draws that conclusion: `Justified` is a predicate of
the contract's states (who made an answer, for which key, how long before), kept by each
step of the contract, and so by `get_quote` and by `symbol_info_tick`.

`BtgClient`. `StatusCoherent` is inductive with types alone. `ReconnectsAreReal` needs
`LossAhead`: a success about to count as a reconnection has a loss left to
its credit, which the shutdown may take away (`Drained`: nobody is left then).
`ReadyIsAccounted` needs that `lostBefore` is never in the future. The contract
needs `TicksBacked`, the counterpart of `CachesBacked`, and `Timely`.

`DeskSession`. What makes `NothingOverlooked` inductive is `HeardInTurn`: of the fields
the session is not through with, an answer was heard to the present one alone, and then
this read still has it among its lines. The second attempt, the next field and the
deadline each keep that. `CutAhead` places the beginning of a payload in front of the
wire, so a piece that was cut is followed by its rest and by nothing else. `Asking`
and `InTime` make an exchange a step of `BtgClient`, which asks for a field only before
the deadline. The refinement is of steps: a session begins where a query has got the lock.

`PatienceIsKept` stands on `PInv`: every read without a value is paid for, by a piece
taken off the wire (`PiecesGrow`: no read takes less than one, and a rest no more than the
piece it completes) or by a timeout, and what the `recv` under way has waited comes on top
(`Patience`); `RestFirst` has the rest of a cut payload in front, so that
counting pieces by payloads is exact, and `Rested` starts each wait at zero. `Budget <=
MaxTime` keeps the clock of the model running as long as the property speaks of it.

`QuotePath`. `PathIInv` is `IInv` of `QuoteService` and what ties the client to it:
`Placed` (whose call of `symbol_info_tick` is where, and that the tick in its
hands is young enough), `TicksExpire`, `QuotesOfAge`, for `NoCircularWait` `LockHeld` (by
a session) and `OwnersWork` (`Table` is why a flight in it is nobody's who waits), and for
`AsksOnce` `FirstKept` (the
entry a resolution left is in its place until it expires or is replaced). `AgeOfAnswers`
adds two bounds that are proved apart: the maker's tick was at most one ttl old when it began
(`QuotesOfAge`), and the maker had ended at most one ttl before the call that
got its answer (`AnswersAreJustified`, which holds here by `PathIsQuoteService`). With
`QuoteTtl = 0` there is no tick cache and each fetch asks the desk, so `AsksOnce` has
that condition.

`SymbolCatalog`. `Known` ties the catalog and the cache to the histories `AnswersAreReal`
speaks of; `Settled` needs no more than that the code loads only when it has no
catalog; `Favoured` follows a resolution through its candidates: one
whose alias was known is found at the first try. `Accumulated`, for
`OnlyTheLimitCuts`, says that with the file unchanged every match a search had before it is
among the rows of a later one (every load under way carries the same names); that the rows
are sorted before they are cut does the rest.

`QuotesBatch`. `NothingForgotten` (a symbol asked for is remembered, whatever its call
came to) gives `OneCallPerSymbol`; `Tallied` counts with cardinalities.

`HmacAuth`. `Windows` (where the clock was when a delivery was checked, by integer
arithmetic on the truncated clock), `Kept` (a nonce stays in the store for its ttl)
and `Caused` (an entry was put there by an admission of this life). `NoReplay` needs
`TtlCoversWindow`: with a shorter ttl a nonce is purged while its message is still in
the window. The deployed 30 s and 300 s satisfy it.

`Gateway`. `GatewayIInv` is `IInv` of `HmacAuth` with `Delivered` and `Traced` (the request
the middleware has is the message the authentication saw, in this life),
`Guarded` (nobody reaches a guarded handler unadmitted), `Flights` (the requests inside
are finitely many and counted), `Balances` and `ServedCounted` (successes of a guarded
endpoint are counted one by one). `ServesOnce` joins these with `NoReplay`: the requests
served are mapped one to one to their messages. `EndpointsSum` would be an induction
over the set of endpoints were the sum a fold. `EndpointsAddUp` says it without one: a
total is the cardinality of the set of units, one pair of endpoint and index
for each thing counted. `CountersAddUp`, the same of the live
counters, is kept because a step adds or removes one unit, at one endpoint and in the total;
`MadeUp` keeps the set finite. `ServesOnce` assumes `TtlCoversWindow` and that
finitely many messages exist, without which the number it bounds by is not one.

### Only model-checked

* Liveness: `EveryCallReturns`, `OrphanIsDropped`, `SessionEnds`. Fairness and ENABLED
  are out of the prover's reach.
* The four claims of the documents, which TLC refutes, and with them `GatewayScripts`.

## 5. Assumptions

* Clocks do not go backwards. For `time.monotonic()` that is so; `HmacAuth` assumes it
  of `time.time()`, and a body is awaited for at most `BodyWait`, a server setting
  outside the repository.
* In `BtgClient` time passes anywhere. The token is configured, symbols are not blank.
* In `DeskSession` no `recv` outlasts its timeout, and after the greeting nobody dawdles past
  the deadline: how long the scheduler delays a thread that need not wait is left out. A line longer than a chunk does not occur, the answers of the desk
  hold no `|` beyond their fields, and UTF-8 is not cut inside the topic.
* The HMAC keys are configured and parse: otherwise every guarded request that has its
  headers raises alike (`config.py:141`). A client that leaves while FastAPI reads a JSON
  body gets FastAPI's own 400, which is not modelled.
* The gateway runs as one process; settings do not change, so there is one nonce store.
* Windows does not reuse a process id while the scripts run.

## 6. Plan

Done, in this order: `AnswerContract`, `QuoteService` and its proofs; `HmacAuth` and its
proofs; `BtgClient`; `QuotesBatch`; `SymbolCatalog`; `GatewayScripts`; `Gateway`;
`DeskSession`; `QuotePath`.

Then the proofs of the other components: `BtgClient`, `QuotesBatch`, `Gateway`,
`SymbolCatalog`, `QuotePath`, `DeskSession`, and `TimeoutRemembered`.

Then what follows from several of them: `EndpointsAddUp`, `Justified`, `QuotesAreFresh`,
`WaitsEndAtTheDesk`.

Left open: that a session of `DeskSession`, from a query that has the lock on, keeps the
contract of `symbol_info_tick` (initial states as well as steps); what holds of the
scripts although the process lookup fails.

### Not modelled

* Liveness of `QuotePath`: it would take fairness of the session lock, which Python's
  `threading.Lock` does not promise; when each session ends is `SessionEnds`.
* `status-gateway.ps1`, `check-gateway.ps1`, `diagnose-machine.ps1` and
  `test-quotes-batch.ps1` only report; the NSSM scripts hand the process to a service
  manager outside the repository.
* Settings, aliases as text, schemas and the bodies of responses: pure functions of
  one input with no state between calls. Logging.
* Durations and percentiles of the monitoring: they guard nothing.
* `mt5_client.py`: the application does not use it any more.
