---------------------------- MODULE QuoteService ----------------------------
(***************************************************************************)
(* MarketDataService.get_quote and the state it shares between the worker  *)
(* threads of the gateway: the positive and the negative quote cache and   *)
(* the table of in-flight calls that coalesces simultaneous calls for one  *)
(* (symbol, include_raw) key.                                              *)
(*                                                                         *)
(* A request is one call of get_quote on a thread of its own.  Each step   *)
(* of a request is one critical section of the code, or one blocking call  *)
(* (the provider, Event.wait).  Whatever the code reads from the clock     *)
(* before it takes a lock was read somewhere between the end of the        *)
(* request's previous step and the step that uses it, hence the choice of  *)
(* a reading in since[r]..now.                                             *)
(***************************************************************************)
EXTENDS Integers

CONSTANTS
  Requests,      \* calls of get_quote, each made once
  Keys,          \* normalised (symbol, include_raw) pairs
  KeyOf,         \* the key each request asks for
  None,          \* Python's None: no entry, no object, no value
  QuoteTtl,      \* quote_cache_ttl_ms, in clock units; 0 disables the cache
  NegativeTtl,   \* quote_negative_cache_ttl_ms, likewise
  WaitTimeout,   \* _inflight_wait_timeout_seconds(), likewise
  MaxTime        \* bound of the model: the clock stops here

Kinds == {"quote", "timeout", "symbol_not_found", "connection_error",
          "unavailable", "unexpected"}

(* What a call returns or raises: its kind, the request whose work made it *)
(* and the time it was made at.                                            *)
Outcomes == [kind : Kinds, by : Requests, at : Nat]

CacheEntries == [expires : Nat, outcome : Outcomes]

ASSUME ConstantsAssumption ==
  /\ KeyOf \in [Requests -> Keys]
  /\ QuoteTtl \in Nat
  /\ NegativeTtl \in Nat
  /\ WaitTimeout \in Nat
  /\ MaxTime \in Nat
  /\ None \notin Requests
  /\ None \notin Outcomes
  /\ None \notin CacheEntries

VARIABLES
  now,             \* time.monotonic()
  pc,              \* where each request is in get_quote
  begun,           \* when each request entered get_quote
  since,           \* when each request finished its latest step
  outcome,         \* what each request is about to return or raise
  route,           \* how it came by that outcome
  quoteCache,      \* _quote_cache
  negativeCache,   \* _negative_cache
  inflightQuotes,  \* _inflight_quotes: the request that owns a key's flight
  inflight,        \* the _InflightQuote a request holds, named by its owner
  event,           \* _InflightQuote.event of the flight a request owns
  shared           \* _InflightQuote.quote or .error of that flight

vars == <<now, pc, begun, since, outcome, route, quoteCache, negativeCache,
          inflightQuotes, inflight, event, shared>>

Locations == {"idle", "lookup_quote", "lookup_negative", "acquire", "wait",
              "wait_store_negative", "wait_drop", "resolve", "fetch",
              "store_quote", "store_negative", "publish", "release", "done"}

Routes == {"none", "quote_cache", "negative_cache", "flight", "wait_timeout",
           "resolve", "fetch"}

-----------------------------------------------------------------------------

(* Operators named ...Mutant are plausible bugs, not part of the model: the *)
(* properties are shown to fail when one of them replaces its original.    *)

(* The dictionaries expire lazily: an entry is dropped by the lookup that  *)
(* finds it too old, and a ttl of 0 neither stores nor finds anything.     *)
StrictLiveMutant(cache, k, ttl, t) ==
  ttl > 0 /\ cache[k] # None /\ cache[k].expires > t

LateLiveMutant(cache, k, ttl, t) ==
  ttl > 0 /\ cache[k] # None /\ cache[k].expires + ttl >= t

NeverTooOldMutant(cache, k, ttl, t) == ttl > 0 /\ cache[k] # None

Live(cache, k, ttl, t) ==
  /\ ttl > 0
  /\ cache[k] # None
  /\ cache[k].expires >= t

StoredMutant(cache, k, ttl, t, o) ==
  IF ttl > 0
  THEN [cache EXCEPT ![k] = [expires |-> t - 2 * ttl, outcome |-> o]]
  ELSE cache

Stored(cache, k, ttl, t, o) ==
  IF ttl > 0
  THEN [cache EXCEPT ![k] = [expires |-> t + ttl, outcome |-> o]]
  ELSE cache

Evicted(cache, k, ttl) ==
  IF ttl > 0 THEN [cache EXCEPT ![k] = None] ELSE cache

(* Request r takes a step from one location to another at the present.     *)
Go(r, from, to) ==
  /\ pc[r] = from
  /\ pc' = [pc EXCEPT ![r] = to]
  /\ since' = [since EXCEPT ![r] = now]
  /\ UNCHANGED now

Settle(r, o, how) ==
  /\ outcome' = [outcome EXCEPT ![r] = o]
  /\ route' = [route EXCEPT ![r] = how]

Made(kind, r) == [kind |-> kind, by |-> r, at |-> now]

ClockReadings(r) == since[r]..now

caches == <<quoteCache, negativeCache>>
flights == <<inflightQuotes, inflight, event, shared>>
answers == <<outcome, route>>

-----------------------------------------------------------------------------
(* The two cache lookups.                                                  *)

(* The bound keeps a waiter that starts late inside the modelled time.     *)
Start(r) ==
  /\ Go(r, "idle", "lookup_quote")
  /\ now + WaitTimeout <= MaxTime
  /\ begun' = [begun EXCEPT ![r] = now]
  /\ UNCHANGED <<answers, caches, flights>>

QuoteHit(r) ==
  /\ Go(r, "lookup_quote", "done")
  /\ \E t \in ClockReadings(r) : Live(quoteCache, KeyOf[r], QuoteTtl, t)
  /\ Settle(r, quoteCache[KeyOf[r]].outcome, "quote_cache")
  /\ UNCHANGED <<begun, caches, flights>>

QuoteMiss(r) ==
  /\ Go(r, "lookup_quote", "lookup_negative")
  /\ \E t \in ClockReadings(r) : ~Live(quoteCache, KeyOf[r], QuoteTtl, t)
  /\ quoteCache' = Evicted(quoteCache, KeyOf[r], QuoteTtl)
  /\ UNCHANGED <<begun, answers, negativeCache, flights>>

NegativeHit(r) ==
  /\ Go(r, "lookup_negative", "done")
  /\ \E t \in ClockReadings(r) : Live(negativeCache, KeyOf[r], NegativeTtl, t)
  /\ Settle(r, negativeCache[KeyOf[r]].outcome, "negative_cache")
  /\ UNCHANGED <<begun, caches, flights>>

NegativeMiss(r) ==
  /\ Go(r, "lookup_negative", "acquire")
  /\ \E t \in ClockReadings(r) : ~Live(negativeCache, KeyOf[r], NegativeTtl, t)
  /\ negativeCache' = Evicted(negativeCache, KeyOf[r], NegativeTtl)
  /\ UNCHANGED <<begun, answers, quoteCache, flights>>

-----------------------------------------------------------------------------
(* _acquire_inflight: join the key's flight or open one.                   *)

JoinFlight(r) ==
  /\ Go(r, "acquire", "wait")
  /\ inflightQuotes[KeyOf[r]] # None
  /\ inflight' = [inflight EXCEPT ![r] = inflightQuotes[KeyOf[r]]]
  /\ UNCHANGED <<begun, answers, caches, inflightQuotes, event, shared>>

OpenFlight(r) ==
  /\ Go(r, "acquire", "resolve")
  /\ inflightQuotes[KeyOf[r]] = None
  /\ inflightQuotes' = [inflightQuotes EXCEPT ![KeyOf[r]] = r]
  /\ inflight' = [inflight EXCEPT ![r] = r]
  /\ UNCHANGED <<begun, answers, caches, event, shared>>

-----------------------------------------------------------------------------
(* The waiter's side.                                                      *)

(* Event.wait returned true: the owner's error, its quote or, when the     *)
(* owner left neither, an error of the waiter's own.                       *)
WaitWoken(r) ==
  /\ Go(r, "wait", "done")
  /\ event[inflight[r]]
  /\ Settle(r, IF shared[inflight[r]] # None
               THEN shared[inflight[r]]
               ELSE Made("unavailable", r), "flight")
  /\ UNCHANGED <<begun, caches, flights>>

WaitForeverMutant(r) ==
  FALSE /\ Go(r, "wait", "wait_store_negative") /\ UNCHANGED <<begun, answers, caches, flights>>

WaitExpired(r) ==
  /\ Go(r, "wait", "wait_store_negative")
  /\ ~event[inflight[r]]
  /\ now >= since[r] + WaitTimeout
  /\ Settle(r, Made("timeout", r), "wait_timeout")
  /\ UNCHANGED <<begun, caches, flights>>

WaitStoreNegative(r) ==
  /\ Go(r, "wait_store_negative", "wait_drop")
  /\ \E t \in ClockReadings(r) :
       negativeCache' = Stored(negativeCache, KeyOf[r], NegativeTtl, t, outcome[r])
  /\ UNCHANGED <<begun, answers, quoteCache, flights>>

DropSetMutant(r) ==
  LET k == KeyOf[r] IN
  /\ Go(r, "wait_drop", "done")
  /\ inflightQuotes' =
       IF inflightQuotes[k] = inflight[r] /\ event[inflight[r]]
       THEN [inflightQuotes EXCEPT ![k] = None]
       ELSE inflightQuotes
  /\ UNCHANGED <<begun, answers, caches, inflight, event, shared>>

(* _drop_stale_inflight, then the raise.                                   *)
DropStale(r) ==
  LET k == KeyOf[r] IN
  /\ Go(r, "wait_drop", "done")
  /\ inflightQuotes' =
       IF inflightQuotes[k] = inflight[r] /\ ~event[inflight[r]]
       THEN [inflightQuotes EXCEPT ![k] = None]
       ELSE inflightQuotes
  /\ UNCHANGED <<begun, answers, caches, inflight, event, shared>>

-----------------------------------------------------------------------------
(* The owner's side.                                                       *)

ResolveSucceeds(r) ==
  /\ Go(r, "resolve", "fetch")
  /\ UNCHANGED <<begun, answers, caches, flights>>

(* _resolve_symbol_info is called before the try block, so what it raises  *)
(* leaves get_quote at once: nothing is cached, shared or released.        *)
ResolveFails(r) ==
  /\ Go(r, "resolve", "done")
  /\ \E kind \in {"symbol_not_found", "timeout", "connection_error", "unexpected"} :
       Settle(r, Made(kind, r), "resolve")
  /\ UNCHANGED <<begun, caches, flights>>

FetchSucceeds(r) ==
  /\ Go(r, "fetch", "store_quote")
  /\ Settle(r, Made("quote", r), "fetch")
  /\ UNCHANGED <<begun, caches, flights>>

(* No meaningful tick, an error of the provider or any other exception:    *)
(* only a ProviderTimeoutError goes through _store_negative_quote.         *)
FetchTimesOut(r) ==
  /\ Go(r, "fetch", "store_negative")
  /\ Settle(r, Made("timeout", r), "fetch")
  /\ UNCHANGED <<begun, caches, flights>>

FetchFails(r) ==
  /\ Go(r, "fetch", "publish")
  /\ \E kind \in {"unavailable", "connection_error", "unexpected"} :
       Settle(r, Made(kind, r), "fetch")
  /\ UNCHANGED <<begun, caches, flights>>

StoreQuote(r) ==
  /\ Go(r, "store_quote", "publish")
  /\ \E t \in ClockReadings(r) :
       quoteCache' = Stored(quoteCache, KeyOf[r], QuoteTtl, t, outcome[r])
  /\ UNCHANGED <<begun, answers, negativeCache, flights>>

StoreNegative(r) ==
  /\ Go(r, "store_negative", "publish")
  /\ \E t \in ClockReadings(r) :
       negativeCache' = Stored(negativeCache, KeyOf[r], NegativeTtl, t, outcome[r])
  /\ UNCHANGED <<begun, answers, quoteCache, flights>>

(* inflight.quote or inflight.error is assigned, unless the exception is   *)
(* not an AppError, then the event is set.  Waiters read the former only   *)
(* once they have seen the latter.                                         *)
Publish(r) ==
  /\ Go(r, "publish", "release")
  /\ event' = [event EXCEPT ![r] = TRUE]
  /\ shared' = [shared EXCEPT ![r] =
                  IF outcome[r].kind = "unexpected" THEN None ELSE outcome[r]]
  /\ UNCHANGED <<begun, answers, caches, inflightQuotes, inflight>>

ReleaseMutant(r) ==
  /\ Go(r, "release", "done")
  /\ inflightQuotes' = [inflightQuotes EXCEPT ![KeyOf[r]] = None]
  /\ UNCHANGED <<begun, answers, caches, inflight, event, shared>>

(* The locked half of _release_inflight.                                   *)
Release(r) ==
  LET k == KeyOf[r] IN
  /\ Go(r, "release", "done")
  /\ inflightQuotes' =
       IF inflightQuotes[k] = r
       THEN [inflightQuotes EXCEPT ![k] = None]
       ELSE inflightQuotes
  /\ UNCHANGED <<begun, answers, caches, inflight, event, shared>>

-----------------------------------------------------------------------------

Init ==
  /\ now = 0
  /\ pc = [r \in Requests |-> "idle"]
  /\ begun = [r \in Requests |-> 0]
  /\ since = [r \in Requests |-> 0]
  /\ outcome = [r \in Requests |-> None]
  /\ route = [r \in Requests |-> "none"]
  /\ quoteCache = [k \in Keys |-> None]
  /\ negativeCache = [k \in Keys |-> None]
  /\ inflightQuotes = [k \in Keys |-> None]
  /\ inflight = [r \in Requests |-> None]
  /\ event = [r \in Requests |-> FALSE]
  /\ shared = [r \in Requests |-> None]

(* Time passes.  Near the end of the modelled time it does so only once no *)
(* request can still become a waiter, so that every wait can time out.     *)
Tick ==
  /\ now < MaxTime
  /\ \/ now + WaitTimeout < MaxTime
     \/ \A r \in Requests :
          pc[r] \notin {"lookup_quote", "lookup_negative", "acquire"}
  /\ now' = now + 1
  /\ UNCHANGED <<pc, begun, since, answers, caches, flights>>

Lookup(r) == Start(r) \/ QuoteHit(r) \/ QuoteMiss(r) \/ NegativeHit(r) \/ NegativeMiss(r)

Wait(r) ==
  \/ JoinFlight(r)
  \/ WaitWoken(r)
  \/ WaitExpired(r)
  \/ WaitStoreNegative(r)
  \/ DropStale(r)

Own(r) ==
  \/ OpenFlight(r)
  \/ ResolveSucceeds(r)
  \/ ResolveFails(r)
  \/ FetchSucceeds(r)
  \/ FetchTimesOut(r)
  \/ FetchFails(r)
  \/ StoreQuote(r)
  \/ StoreNegative(r)
  \/ Publish(r)
  \/ Release(r)

GetQuote(r) == Lookup(r) \/ Wait(r) \/ Own(r)

(* Every call has returned, or came too late to be modelled.               *)
AllReturned ==
  /\ \A r \in Requests : pc[r] \in {"idle", "done"}
  /\ UNCHANGED vars

Next == Tick \/ (\E r \in Requests : GetQuote(r)) \/ AllReturned

Spec == Init /\ [][Next]_vars

(* The scheduler runs every thread that can run and the clock goes on; the *)
(* provider answers or raises in the end because every socket operation    *)
(* has a timeout and the desk does not spell its greeting for ever         *)
(* (SessionEnds of DeskSession).  Nobody has to send a request.            *)
Fairness ==
  /\ WF_vars(Tick)
  /\ \A r \in Requests : WF_vars(pc[r] # "idle" /\ GetQuote(r))

FairSpec == Spec /\ Fairness

-----------------------------------------------------------------------------
(* Properties.                                                             *)

TypeOK ==
  /\ now \in Nat
  /\ pc \in [Requests -> Locations]
  /\ begun \in [Requests -> Nat]
  /\ since \in [Requests -> Nat]
  /\ outcome \in [Requests -> Outcomes \cup {None}]
  /\ route \in [Requests -> Routes]
  /\ quoteCache \in [Keys -> CacheEntries \cup {None}]
  /\ negativeCache \in [Keys -> CacheEntries \cup {None}]
  /\ inflightQuotes \in [Keys -> Requests \cup {None}]
  /\ inflight \in [Requests -> Requests \cup {None}]
  /\ event \in [Requests -> BOOLEAN]
  /\ shared \in [Requests -> Outcomes \cup {None}]

(* A call that has opened a flight and is still working on it.             *)
Working(r) ==
  pc[r] \in {"resolve", "fetch", "store_quote", "store_negative", "publish", "release"}

(* A call that waited for r's flight until its timeout and removed it.     *)
GivenUp(r) ==
  \E w \in Requests : w # r /\ inflight[w] = r /\ route[w] = "wait_timeout" /\ pc[w] = "done"

(* Coalescing (_acquire_inflight, _release_inflight, _drop_stale_inflight): *)
(* the flight of a call that is still working is the one every later call  *)
(* for the key will join, unless a waiter timed out on it.  Hence two calls *)
(* work for one key at once only after such a timeout, and no call ever    *)
(* takes another's flight out of the table by mistake.                     *)
OneOwnerUnlessAbandoned ==
  \A r \in Requests : Working(r) => inflightQuotes[KeyOf[r]] = r \/ GivenUp(r)

(* A call whose older timeout reached the negative cache only after r had  *)
(* timed out: _store_negative_quote takes its reading before the lock, so  *)
(* a slow writer may put an earlier expiry over r's entry.                 *)
Overwrote(o, r) ==
  /\ KeyOf[o] = KeyOf[r]
  /\ outcome[o] # None
  /\ outcome[o].kind = "timeout" /\ outcome[o].by = o
  /\ outcome[o].at < outcome[r].at /\ outcome[r].at <= since[o]

(* The negative cache does what it is for (_store_negative_quote): once a  *)
(* call has reported a timeout of its fetch or of its wait, the key stays  *)
(* in the negative cache for NegativeTtl from then, whatever the other     *)
(* calls for the key do meanwhile, so that bursts do not repeat it.  Only  *)
(* the late store of an older timeout can cut that short.                  *)
TimeoutRemembered ==
  \A r \in Requests :
    (/\ NegativeTtl > 0
     /\ pc[r] = "done"
     /\ route[r] \in {"fetch", "wait_timeout"}
     /\ outcome[r].kind = "timeout"
     /\ now <= outcome[r].at + NegativeTtl)
    => negativeCache[KeyOf[r]] # None \/ \E o \in Requests : Overwrote(o, r)

(* Each call of get_quote returns or raises: no waiter is left behind,     *)
(* whatever becomes of the flight it joined.                               *)
EveryCallReturns ==
  \A r \in Requests : pc[r] = "lookup_quote" ~> pc[r] = "done"

(* A flight whose owner left without releasing it (ResolveFails) does not  *)
(* hold its key for good once another call waits on it: the wait times out *)
(* and _drop_stale_inflight takes it out of the table.                     *)
OrphanIsDropped ==
  \A k \in Keys : \A o, w \in Requests :
    (inflightQuotes[k] = o /\ pc[o] = "done" /\ pc[w] = "wait" /\ inflight[w] = o)
      ~> inflightQuotes[k] # o

(* What get_quote promises its callers, in terms of its own state.         *)
Phase(r) ==
  CASE pc[r] = "idle" -> "idle"
    [] pc[r] = "done" -> "ended"
    [] pc[r] \in {"wait_store_negative", "wait_drop", "store_quote",
                  "store_negative", "publish", "release"} -> "decided"
    [] OTHER -> "open"

Grace ==
  [kind \in Kinds |-> CASE kind = "quote" -> QuoteTtl
                        [] kind = "timeout" -> NegativeTtl
                        [] OTHER -> 0]

Contract == INSTANCE AnswerContract WITH
  clock <- now,
  phase <- [r \in Requests |-> Phase(r)],
  ended <- [r \in Requests |-> IF pc[r] = "done" THEN since[r] ELSE 0],
  result <- outcome

(* Every answer is justified and fresh: get_quote with its two caches and  *)
(* its flights implements the contract of module AnswerContract.            *)
ImplementsContract == Contract!Spec

-----------------------------------------------------------------------------
(* A claim of the documentation that the code does not keep.               *)

(* README.md:345: a call that waited on another's flight gets the result   *)
(* of that flight.  Only asked of a waiter that began before its owner     *)
(* ended and decided after that, when the owner ended with a quote or with *)
(* an error of the kinds it shares.                                        *)
WaitersShareResult ==
  \A w, o \in Requests :
    (/\ w # o /\ inflight[w] = o
     /\ pc[w] = "done" /\ pc[o] = "done"
     /\ begun[w] < since[o] /\ since[o] < outcome[w].at
     /\ outcome[o].kind # "unexpected")
    => outcome[w] = outcome[o]

=============================================================================
