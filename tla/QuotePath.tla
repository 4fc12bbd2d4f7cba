------------------------------ MODULE QuotePath ------------------------------
(***************************************************************************)
(* get_quote all the way to the Trader Desk: what module QuoteService      *)
(* takes for two blocking calls, the resolution of the symbol and the      *)
(* fetch of its tick, is here what _resolve_symbol_info and                *)
(* _get_tick_with_select_retry do with the client.  Both end in            *)
(* symbol_info_tick, with a cache of its own under the same time to live,  *)
(* and queue for the one session the client has with the desk.             *)
(*                                                                         *)
(* The raw and the plain quote of a symbol are two keys of the quote cache *)
(* but share symbol, tick and session.  The session is module BtgClient's, *)
(* aliases and partial matches are module SymbolCatalog's: here a symbol   *)
(* goes by its own name, and the desk answers, has nothing or fails.       *)
(***************************************************************************)
EXTENDS QuoteService

CONSTANTS
  Symbols,
  SymbolOf,  \* the symbol of each key
  Catalog    \* the symbols the catalog file lists

(* A tick is the time the desk gave it at, until it is stored, and then    *)
(* the time it was stored at.                                              *)
TickEntries == [expires : Nat, tick : Nat]

ASSUME PathAssumption ==
  /\ SymbolOf \in [Keys -> Symbols]
  /\ Catalog \subseteq Symbols
  /\ None \notin Nat /\ None \notin TickEntries

VARIABLES
  call,       \* where each request is in symbol_info_tick
  called,     \* when its latest call of symbol_info_tick ended
  tries,      \* calls that brought no tick in this resolution or fetch
  tick,       \* the tick a call is about to store or return
  basis,      \* the tick the quote of each request was made of
  tickCache,  \* _tick_cache
  known,      \* symbols symbol_info finds without the desk: _symbol_cache
  rtdLock,    \* the request that holds _rtd_lock
  firstTick,  \* history: until when the tick a resolution asked for is live
  storedLast  \* history: whose tick was stored last

tickCalls == <<call, called, tries, tick>>
desk == <<tickCache, known, rtdLock>>
history == <<basis, firstTick, storedLast>>
pathVars == <<vars, tickCalls, desk, history>>

SymbolFor(r) == SymbolOf[KeyOf[r]]

Later(t, u) == IF t < u THEN u ELSE t

-----------------------------------------------------------------------------
(* symbol_info_tick, called by a resolution or a fetch.                    *)

Move(r, from, to) ==
  /\ call[r] = from
  /\ call' = [call EXCEPT ![r] = to]

EarlyMutant(entry, t) == entry # None /\ entry.expires > t

LateMutant(entry, t) == entry # None /\ entry.expires + QuoteTtl >= t

StillLive(entry, t) == entry # None /\ entry.expires >= t

FourthTryMutant(r) ==
  \/ pc[r] = "resolve" /\ SymbolFor(r) \notin known /\ tries[r] <= 3
  \/ pc[r] = "fetch" /\ tries[r] < 2

(* _resolve_symbol_info asks only for a symbol that symbol_info does not   *)
(* know, three times: by itself, for symbol_select, and once more.  The    *)
(* fetch asks twice; the symbol_select in between finds the symbol known.  *)
Calls(r) ==
  \/ pc[r] = "resolve" /\ SymbolFor(r) \notin known /\ tries[r] < 3
  \/ pc[r] = "fetch" /\ tries[r] < 2

LookUpTimes(r) == Later(since[r], called[r])..now

TickHit(r) ==
  /\ Calls(r) /\ QuoteTtl > 0
  /\ Move(r, "none", "return")
  /\ \E t \in LookUpTimes(r) : StillLive(tickCache[SymbolFor(r)], t)
  /\ tick' = [tick EXCEPT ![r] = tickCache[SymbolFor(r)].tick]
  /\ UNCHANGED <<vars, called, tries, desk, history>>

TickMiss(r) ==
  /\ Calls(r)
  /\ Move(r, "none", "rtd_lock")
  /\ \/ QuoteTtl = 0 /\ UNCHANGED tickCache
     \/ /\ QuoteTtl > 0
        /\ \E t \in LookUpTimes(r) : ~StillLive(tickCache[SymbolFor(r)], t)
        /\ tickCache' = [tickCache EXCEPT ![SymbolFor(r)] = None]
  /\ UNCHANGED <<vars, called, tries, tick, known, rtdLock, history>>

AcquireRtdLock(r) ==
  /\ Move(r, "rtd_lock", "desk")
  /\ rtdLock = None
  /\ rtdLock' = r
  /\ UNCHANGED <<vars, called, tries, tick, tickCache, known, history>>

DeskAnswers(r) ==
  /\ Move(r, "desk", "store")
  /\ rtdLock' = None
  /\ tick' = [tick EXCEPT ![r] = now]
  /\ UNCHANGED <<vars, called, tries, tickCache, known, history>>

(* The desk has no values for the symbol: symbol_info_tick returns None.   *)
DeskHasNothing(r) ==
  /\ Move(r, "desk", "none")
  /\ rtdLock' = None
  /\ tries' = [tries EXCEPT ![r] = @ + 1]
  /\ called' = [called EXCEPT ![r] = now]
  /\ UNCHANGED <<vars, tick, tickCache, known, history>>

StoreTick(r) ==
  /\ Move(r, "store", "return")
  /\ tick' = [tick EXCEPT ![r] = now]
  /\ \E t \in tick[r]..now :
       /\ tickCache' =
            IF QuoteTtl > 0
            THEN [tickCache EXCEPT ![SymbolFor(r)] = [expires |-> t + QuoteTtl, tick |-> now]]
            ELSE tickCache
       /\ firstTick' = IF pc[r] = "resolve"
                       THEN [firstTick EXCEPT ![r] = t + QuoteTtl] ELSE firstTick
  /\ storedLast' = [storedLast EXCEPT ![SymbolFor(r)] = r]
  /\ UNCHANGED <<vars, called, tries, known, rtdLock, basis>>

(* The locals of a resolution or a fetch that is over.                     *)
Return(r) ==
  /\ call' = [call EXCEPT ![r] = "none"]
  /\ called' = [called EXCEPT ![r] = 0]
  /\ tries' = [tries EXCEPT ![r] = 0]
  /\ tick' = [tick EXCEPT ![r] = None]

-----------------------------------------------------------------------------
(* The blocking calls of QuoteService, and how they end.                   *)

(* symbol_info finds the symbol in the catalog or in its cache.            *)
ResolveKnown(r) ==
  /\ ResolveSucceeds(r)
  /\ call[r] = "none" /\ SymbolFor(r) \in known
  /\ Return(r)
  /\ UNCHANGED <<desk, history>>

ResolveByTick(r) ==
  /\ ResolveSucceeds(r)
  /\ call[r] = "return"
  /\ known' = known \cup {SymbolFor(r)}
  /\ Return(r)
  /\ UNCHANGED <<tickCache, rtdLock, history>>

(* No candidate and no match, and the symbol is still unknown.             *)
NotFound(r) ==
  /\ ResolveFails(r) /\ outcome'[r].kind = "symbol_not_found"
  /\ call[r] = "none" /\ tries[r] = 3 /\ SymbolFor(r) \notin known
  /\ Return(r)
  /\ UNCHANGED <<desk, history>>

FetchByTick(r) ==
  /\ FetchSucceeds(r)
  /\ call[r] = "return"
  /\ basis' = [basis EXCEPT ![r] = tick[r]]
  /\ firstTick' = [firstTick EXCEPT ![r] = None]
  /\ Return(r)
  /\ UNCHANGED <<desk, storedLast>>

NoTick(r) ==
  /\ FetchFails(r) /\ outcome'[r].kind = "unavailable"
  /\ call[r] = "none" /\ tries[r] = 2
  /\ Return(r)
  /\ UNCHANGED <<desk, history>>

LockKeptMutant(r) ==
  /\ call[r] = "desk"
  /\ \/ ResolveFails(r) /\ outcome'[r].kind # "symbol_not_found"
     \/ FetchTimesOut(r)
     \/ FetchFails(r) /\ outcome'[r].kind # "unavailable"
  /\ Return(r)
  /\ UNCHANGED <<tickCache, known, rtdLock, history>>

(* The session raises: a timeout, a connection error, or what else.        *)
DeskFails(r) ==
  /\ call[r] = "desk"
  /\ \/ ResolveFails(r) /\ outcome'[r].kind # "symbol_not_found"
     \/ FetchTimesOut(r)
     \/ FetchFails(r) /\ outcome'[r].kind # "unavailable"
  /\ rtdLock' = None
  /\ Return(r)
  /\ UNCHANGED <<tickCache, known, history>>

PathStep(r) ==
  \/ TickHit(r) \/ TickMiss(r) \/ AcquireRtdLock(r)
  \/ DeskAnswers(r) \/ DeskHasNothing(r) \/ StoreTick(r)
  \/ ResolveKnown(r) \/ ResolveByTick(r) \/ NotFound(r)
  \/ FetchByTick(r) \/ NoTick(r) \/ DeskFails(r)

(* The steps of get_quote that have nothing to do with the client.         *)
ServiceStep(r) ==
  /\ \/ Lookup(r) \/ Wait(r) \/ OpenFlight(r)
     \/ StoreQuote(r) \/ StoreNegative(r) \/ Publish(r) \/ Release(r)
  /\ UNCHANGED <<tickCalls, desk, history>>

PathInit ==
  /\ Init
  /\ call = [r \in Requests |-> "none"]
  /\ called = [r \in Requests |-> 0]
  /\ tries = [r \in Requests |-> 0]
  /\ tick = [r \in Requests |-> None]
  /\ basis = [r \in Requests |-> None]
  /\ tickCache = [s \in Symbols |-> None]
  /\ known = Catalog
  /\ rtdLock = None
  /\ firstTick = [r \in Requests |-> None]
  /\ storedLast = [s \in Symbols |-> None]

PathNext ==
  \/ Tick /\ UNCHANGED <<tickCalls, desk, history>>
  \/ \E r \in Requests : PathStep(r) \/ ServiceStep(r)
  \/ AllReturned /\ UNCHANGED <<tickCalls, desk, history>>

PathSpec == PathInit /\ [][PathNext]_pathVars

-----------------------------------------------------------------------------
(* Properties.                                                             *)

PathTypeOK ==
  /\ call \in [Requests -> {"none", "rtd_lock", "desk", "store", "return"}]
  /\ called \in [Requests -> Nat]
  /\ tries \in [Requests -> 0..3]
  /\ tick \in [Requests -> Nat \cup {None}]
  /\ basis \in [Requests -> Nat \cup {None}]
  /\ tickCache \in [Symbols -> TickEntries \cup {None}]
  /\ known \subseteq Symbols
  /\ rtdLock \in Requests \cup {None}
  /\ firstTick \in [Requests -> Nat \cup {None}]
  /\ storedLast \in [Symbols -> Requests \cup {None}]

(* The age of a quote (_get_cached_tick under get_quote): the tick it was *)
(* made of had been stored at most quote_cache_ttl_ms before its maker     *)
(* began, be it by another call for another key, or before the maker       *)
(* queued, retried or resolved.                                            *)
AgeBounded ==
  \A r \in Requests :
    (pc[r] = "done" /\ outcome[r].kind = "quote") =>
      begun[outcome[r].by] <= basis[outcome[r].by] + QuoteTtl

(* The two caches together (_get_cached_quote over _get_cached_tick):      *)
(* whoever gets a quote, made, cached or handed over, the tick it was made *)
(* of had been stored at most twice quote_cache_ttl_ms, and the time its   *)
(* maker took, before the call began.                                      *)
QuotesAreFresh ==
  \A r \in Requests : (pc[r] = "done" /\ outcome[r].kind = "quote") =>
    LET maker == outcome[r].by IN
    pc[maker] = "done" =>
      begun[r] <= basis[maker] + 2 * QuoteTtl + (since[maker] - begun[maker])

(* No circle of waiting (_acquire_inflight, _rtd_lock): the flight a call  *)
(* waits for belongs to a call that waits for no flight, and the lock that *)
(* one may queue for, without a timeout, is held only during a session,    *)
(* whose sockets have timeouts.                                            *)
WaitsEndAtTheDesk ==
  \A r \in Requests :
    /\ pc[r] = "wait" => Working(inflight[r]) \/ pc[inflight[r]] = "done"
    /\ call[r] = "rtd_lock" => rtdLock = None \/ call[rtdLock] = "desk"

(* README.md:350-352: on the first access to a symbol the tick its         *)
(* resolution asked for is used for the quote, without a second query.     *)
(* That holds until that tick expires, as long as no other call puts its   *)
(* own tick in its place.                                                  *)
FirstAccessAsksOnce ==
  [][\A r \in Requests :
       (TickMiss(r) /\ pc[r] = "fetch" /\ firstTick[r] # None)
         => now > firstTick[r] \/ storedLast[SymbolFor(r)] # r]_pathVars

=============================================================================
