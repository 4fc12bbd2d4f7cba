------------------------- MODULE QuoteServiceProofs -------------------------
(* Theorems about QuoteService for any requests, keys, times to live and   *)
(* timeouts, and the invariants their proofs rest on.                      *)
EXTENDS QuoteService, TLAPS

-----------------------------------------------------------------------------
(* The inductive invariant.                                                *)

Early == {"idle", "lookup_quote", "lookup_negative", "acquire"}
Waiting == {"wait", "wait_store_negative", "wait_drop"}
Busy == {"resolve", "fetch", "store_quote", "store_negative", "publish", "release"}

(* Which flight a call holds, and by what route it is leaving.             *)
Flying ==
  \A r \in Requests :
    /\ pc[r] \in Early => inflight[r] = None
    /\ pc[r] \in Waiting =>
         inflight[r] \in Requests \ {r} /\ KeyOf[inflight[r]] = KeyOf[r]
    /\ pc[r] \in {"wait_store_negative", "wait_drop"} => route[r] = "wait_timeout"

(* What a call has decided, and that it is of its own making until handed  *)
(* over.                                                                   *)
Decided ==
  \A r \in Requests :
    /\ pc[r] \in {"wait_store_negative", "wait_drop", "store_quote", "store_negative",
                  "publish", "release"} =>
         outcome[r] \in Outcomes /\ outcome[r].by = r
    /\ pc[r] \in {"wait_store_negative", "store_negative"} => outcome[r].kind = "timeout"
    /\ pc[r] = "store_quote" => outcome[r].kind = "quote"

(* The table holds flights of their own keys, and none that is published   *)
(* and released.                                                           *)
Table ==
  \A k \in Keys : inflightQuotes[k] # None =>
    LET o == inflightQuotes[k] IN
    /\ KeyOf[o] = k
    /\ pc[o] \in Busy \cup {"done"}
    /\ event[o] => pc[o] = "release"

(* A flight whose event is set is shared as its owner decided it.          *)
Published ==
  \A o \in Requests : event[o] =>
    /\ pc[o] \in {"release", "done"}
    /\ shared[o] # None =>
         shared[o] = outcome[o] /\ outcome[o].by = o /\ outcome[o].kind # "unexpected"

(* Time goes on, and a waiter joined its flight before the owner left it.  *)
Timely ==
  \A r \in Requests :
    /\ begun[r] <= since[r] /\ since[r] <= now
    /\ (pc[r] = "wait" /\ event[inflight[r]] /\ pc[inflight[r]] = "done")
         => begun[r] <= since[inflight[r]]

(* A cache holds an outcome of the kind it is for, as its maker decided    *)
(* it, for at most the time to live after the maker's latest step.         *)
Backed(cache, kind, ttl) ==
  \A k \in Keys : cache[k] # None =>
    LET o == cache[k].outcome.by IN
    /\ KeyOf[o] = k
    /\ pc[o] \in {"publish", "release", "wait_drop", "done"}
    /\ cache[k].outcome = outcome[o]
    /\ outcome[o].kind = kind
    /\ cache[k].expires <= since[o] + ttl

CachesBacked == Backed(quoteCache, "quote", QuoteTtl) /\ Backed(negativeCache, "timeout", NegativeTtl)

IInv ==
  /\ TypeOK
  /\ Flying
  /\ Decided
  /\ Table
  /\ Published
  /\ Timely
  /\ CachesBacked
  /\ OneOwnerUnlessAbandoned

-----------------------------------------------------------------------------
(* Types.                                                                  *)

LEMMA MadeType ==
  ASSUME TypeOK, NEW r \in Requests, NEW kind \in Kinds
  PROVE  Made(kind, r) \in Outcomes
  BY DEF TypeOK, Made, Outcomes

LEMMA StoredType ==
  ASSUME NEW cache \in [Keys -> CacheEntries \cup {None}], NEW k \in Keys,
         NEW ttl \in Nat, NEW t \in Nat, NEW o \in Outcomes
  PROVE  Stored(cache, k, ttl, t, o) \in [Keys -> CacheEntries \cup {None}]
  BY DEF Stored, CacheEntries

LEMMA EvictedType ==
  ASSUME NEW cache \in [Keys -> CacheEntries \cup {None}], NEW k \in Keys, NEW ttl \in Nat
  PROVE  Evicted(cache, k, ttl) \in [Keys -> CacheEntries \cup {None}]
  BY DEF Evicted

LEMMA LiveType ==
  ASSUME NEW cache \in [Keys -> CacheEntries \cup {None}], NEW k \in Keys,
         NEW ttl, NEW t, Live(cache, k, ttl, t)
  PROVE  cache[k].outcome \in Outcomes /\ cache[k].expires \in Nat
  BY DEF Live, CacheEntries

(* A step of a request that goes to a known location leaves the clock and  *)
(* the locations well typed.                                               *)
LEMMA GoType ==
  ASSUME TypeOK, NEW r \in Requests, NEW from, NEW to \in Locations, Go(r, from, to)
  PROVE  now' \in Nat /\ pc' \in [Requests -> Locations] /\ since' \in [Requests -> Nat]
  BY DEF TypeOK, Go

LEMMA TypeLookup ==
  ASSUME TypeOK, NEW r \in Requests, Lookup(r)
  PROVE  TypeOK'
<1>0. KeyOf[r] \in Keys /\ QuoteTtl \in Nat /\ NegativeTtl \in Nat
  BY ConstantsAssumption
<1>1. now' \in Nat /\ pc' \in [Requests -> Locations] /\ since' \in [Requests -> Nat]
  BY GoType DEF Lookup, Start, QuoteHit, QuoteMiss, NegativeHit, NegativeMiss, Locations
<1> USE DEF TypeOK, Routes
<1>2. CASE Start(r)
  BY <1>1, <1>2 DEF Start, answers, caches, flights
<1>3. CASE QuoteHit(r)
  <2>1. quoteCache[KeyOf[r]].outcome \in Outcomes
    BY <1>0, <1>3, LiveType DEF QuoteHit
  <2> QED
    BY <1>1, <1>3, <2>1 DEF QuoteHit, Settle, caches, flights
<1>4. CASE QuoteMiss(r)
  BY <1>0, <1>1, <1>4, EvictedType DEF QuoteMiss, answers, flights
<1>5. CASE NegativeHit(r)
  <2>1. negativeCache[KeyOf[r]].outcome \in Outcomes
    BY <1>0, <1>5, LiveType DEF NegativeHit
  <2> QED
    BY <1>1, <1>5, <2>1 DEF NegativeHit, Settle, caches, flights
<1>6. CASE NegativeMiss(r)
  BY <1>0, <1>1, <1>6, EvictedType DEF NegativeMiss, answers, flights
<1> QED
  BY <1>2, <1>3, <1>4, <1>5, <1>6 DEF Lookup

LEMMA TypeWait ==
  ASSUME TypeOK, Flying, Decided, NEW r \in Requests, Wait(r)
  PROVE  TypeOK'
<1>0. KeyOf[r] \in Keys /\ NegativeTtl \in Nat
  BY ConstantsAssumption
<1>1. now' \in Nat /\ pc' \in [Requests -> Locations] /\ since' \in [Requests -> Nat]
  BY GoType DEF Wait, JoinFlight, WaitWoken, WaitExpired, WaitStoreNegative, DropStale, Locations
<1>2. CASE JoinFlight(r)
  <2>1. inflightQuotes[KeyOf[r]] \in Requests \cup {None}
    BY <1>0 DEF TypeOK
  <2> QED
    BY <1>1, <1>2, <2>1 DEF TypeOK, JoinFlight, answers, caches
<1>3. CASE WaitWoken(r)
  <2>1. inflight[r] \in Requests
    BY <1>3 DEF WaitWoken, Go, Flying, Waiting
  <2>2. outcome' \in [Requests -> Outcomes \cup {None}]
    BY <1>3, <2>1, MadeType DEF WaitWoken, Settle, TypeOK, Kinds
  <2> QED
    BY <1>1, <1>3, <2>2 DEF TypeOK, Routes, WaitWoken, Settle, caches, flights
<1>4. CASE WaitExpired(r)
  <2>1. Made("timeout", r) \in Outcomes
    BY MadeType DEF Kinds
  <2> QED
    BY <1>1, <1>4, <2>1 DEF TypeOK, Routes, WaitExpired, Settle, caches, flights
<1>5. CASE WaitStoreNegative(r)
  <2>1. outcome[r] \in Outcomes
    BY <1>5 DEF WaitStoreNegative, Go, Decided
  <2>2. negativeCache' \in [Keys -> CacheEntries \cup {None}]
    <3>1. PICK t \in ClockReadings(r) :
            negativeCache' = Stored(negativeCache, KeyOf[r], NegativeTtl, t, outcome[r])
      BY <1>5 DEF WaitStoreNegative
    <3>2. t \in Nat
      BY DEF ClockReadings, TypeOK
    <3> QED
      BY <1>0, <2>1, <3>1, <3>2, StoredType DEF TypeOK
  <2> QED
    BY <1>1, <1>5, <2>2 DEF TypeOK, WaitStoreNegative, answers, flights
<1>6. CASE DropStale(r)
  BY <1>0, <1>1, <1>6 DEF TypeOK, DropStale, answers, caches
<1> QED
  BY <1>2, <1>3, <1>4, <1>5, <1>6 DEF Wait

LEMMA TypeOwn ==
  ASSUME TypeOK, Decided, NEW r \in Requests, Own(r)
  PROVE  TypeOK'
<1>0. KeyOf[r] \in Keys /\ QuoteTtl \in Nat /\ NegativeTtl \in Nat
  BY ConstantsAssumption
<1>1. now' \in Nat /\ pc' \in [Requests -> Locations] /\ since' \in [Requests -> Nat]
  BY GoType DEF Own, OpenFlight, ResolveSucceeds, ResolveFails, FetchSucceeds, FetchTimesOut,
     FetchFails, StoreQuote, StoreNegative, Publish, Release, Locations
<1>2. CASE OpenFlight(r)
  BY <1>0, <1>1, <1>2 DEF TypeOK, OpenFlight, answers, caches
<1>3. CASE ResolveSucceeds(r)
  BY <1>1, <1>3 DEF TypeOK, ResolveSucceeds, answers, caches, flights
<1>4. CASE ResolveFails(r) \/ FetchSucceeds(r) \/ FetchTimesOut(r) \/ FetchFails(r)
  <2>1. PICK kind \in Kinds, how \in {"resolve", "fetch"} : Settle(r, Made(kind, r), how)
    BY <1>4 DEF ResolveFails, FetchSucceeds, FetchTimesOut, FetchFails, Kinds
  <2>2. Made(kind, r) \in Outcomes
    BY MadeType
  <2> QED
    BY <1>1, <1>4, <2>1, <2>2 DEF TypeOK, Routes, Settle, ResolveFails, FetchSucceeds,
       FetchTimesOut, FetchFails, caches, flights
<1>5. CASE StoreQuote(r)
  <2>1. PICK t \in ClockReadings(r) :
          quoteCache' = Stored(quoteCache, KeyOf[r], QuoteTtl, t, outcome[r])
    BY <1>5 DEF StoreQuote
  <2>2. t \in Nat /\ outcome[r] \in Outcomes
    BY <1>5 DEF ClockReadings, TypeOK, StoreQuote, Go, Decided
  <2>3. quoteCache' \in [Keys -> CacheEntries \cup {None}]
    BY <1>0, <2>1, <2>2, StoredType DEF TypeOK
  <2> QED
    BY <1>1, <1>5, <2>3 DEF TypeOK, StoreQuote, answers, flights
<1>6. CASE StoreNegative(r)
  <2>1. PICK t \in ClockReadings(r) :
          negativeCache' = Stored(negativeCache, KeyOf[r], NegativeTtl, t, outcome[r])
    BY <1>6 DEF StoreNegative
  <2>2. t \in Nat /\ outcome[r] \in Outcomes
    BY <1>6 DEF ClockReadings, TypeOK, StoreNegative, Go, Decided
  <2>3. negativeCache' \in [Keys -> CacheEntries \cup {None}]
    BY <1>0, <2>1, <2>2, StoredType DEF TypeOK
  <2> QED
    BY <1>1, <1>6, <2>3 DEF TypeOK, StoreNegative, answers, flights
<1>7. CASE Publish(r)
  BY <1>1, <1>7 DEF TypeOK, Publish, answers, caches
<1>8. CASE Release(r)
  BY <1>0, <1>1, <1>8 DEF TypeOK, Release, answers, caches
<1> QED
  BY <1>2, <1>3, <1>4, <1>5, <1>6, <1>7, <1>8 DEF Own

LEMMA TypeStep ==
  ASSUME TypeOK, Flying, Decided, NEW r \in Requests, GetQuote(r)
  PROVE  TypeOK'
  BY TypeLookup, TypeWait, TypeOwn DEF GetQuote

-----------------------------------------------------------------------------
(* What a step of a request does to each part of the invariant.            *)

LEMMA FlyingStep ==
  ASSUME TypeOK, Flying, Table, NEW r \in Requests, GetQuote(r)
  PROVE  Flying'
<1> USE DEF TypeOK, Flying, Early, Waiting, Go
<1>1. CASE Lookup(r)
  BY <1>1 DEF Lookup, Start, QuoteHit, QuoteMiss, NegativeHit, NegativeMiss, Settle, answers, flights
(* The flight joined is another's: its owner is past acquire.              *)
<1>2. CASE JoinFlight(r)
  <2>1. KeyOf[r] \in Keys /\ inflightQuotes[KeyOf[r]] \in Requests
    BY <1>2, ConstantsAssumption DEF JoinFlight
  <2>2. inflightQuotes[KeyOf[r]] # r /\ KeyOf[inflightQuotes[KeyOf[r]]] = KeyOf[r]
    BY <1>2, <2>1, ConstantsAssumption DEF JoinFlight, Table, Busy
  <2> QED
    BY <1>2, <2>1, <2>2 DEF JoinFlight, answers
<1>3. CASE WaitWoken(r) \/ WaitExpired(r) \/ WaitStoreNegative(r) \/ DropStale(r)
  BY <1>3 DEF WaitWoken, WaitExpired, WaitStoreNegative, DropStale, Settle, answers, flights
<1>4. CASE Own(r)
  BY <1>4 DEF Own, OpenFlight, ResolveSucceeds, ResolveFails, FetchSucceeds, FetchTimesOut,
     FetchFails, StoreQuote, StoreNegative, Publish, Release, Settle, answers, flights
<1> QED
  BY <1>1, <1>2, <1>3, <1>4 DEF GetQuote, Wait

LEMMA DecidedStep ==
  ASSUME TypeOK, Decided, NEW r \in Requests, GetQuote(r)
  PROVE  Decided'
<1> USE DEF TypeOK, Decided, Go
<1>1. CASE Lookup(r)
  BY <1>1 DEF Lookup, Start, QuoteHit, QuoteMiss, NegativeHit, NegativeMiss, Settle, answers
<1>2. CASE WaitExpired(r)
  BY <1>2, MadeType DEF WaitExpired, Settle, Made, Kinds
<1>3. CASE JoinFlight(r) \/ WaitWoken(r) \/ WaitStoreNegative(r) \/ DropStale(r)
  BY <1>3 DEF JoinFlight, WaitWoken, WaitStoreNegative, DropStale, Settle, answers
<1>4. CASE FetchSucceeds(r) \/ FetchTimesOut(r) \/ FetchFails(r)
  <2>1. PICK kind \in Kinds : Settle(r, Made(kind, r), "fetch")
    BY <1>4 DEF FetchSucceeds, FetchTimesOut, FetchFails, Kinds
  <2>2. Made(kind, r) \in Outcomes /\ Made(kind, r).by = r
    BY MadeType DEF Made
  <2>3. pc'[r] = "store_negative" => Made(kind, r).kind = "timeout"
    BY <1>4, <2>1 DEF FetchSucceeds, FetchTimesOut, FetchFails, Settle, Made
  <2>4. pc'[r] = "store_quote" => Made(kind, r).kind = "quote"
    BY <1>4, <2>1 DEF FetchSucceeds, FetchTimesOut, FetchFails, Settle, Made
  <2> QED
    BY <1>4, <2>1, <2>2, <2>3, <2>4 DEF FetchSucceeds, FetchTimesOut, FetchFails, Settle
<1>5. CASE \/ OpenFlight(r) \/ ResolveSucceeds(r) \/ ResolveFails(r) \/ StoreQuote(r)
           \/ StoreNegative(r) \/ Publish(r) \/ Release(r)
  BY <1>5 DEF OpenFlight, ResolveSucceeds, ResolveFails, StoreQuote, StoreNegative, Publish,
     Release, Settle, answers
<1> QED
  BY <1>1, <1>2, <1>3, <1>4, <1>5 DEF GetQuote, Wait, Own

LEMMA TableStep ==
  ASSUME TypeOK, Table, Published, NEW r \in Requests, GetQuote(r)
  PROVE  Table'
<1> USE DEF TypeOK, Table, Busy, Go
<1>1. CASE Lookup(r)
  BY <1>1 DEF Lookup, Start, QuoteHit, QuoteMiss, NegativeHit, NegativeMiss, flights
<1>2. CASE Wait(r)
  BY <1>2 DEF Wait, JoinFlight, WaitWoken, WaitExpired, WaitStoreNegative, DropStale, flights
<1>3. CASE OpenFlight(r)
  BY <1>3, ConstantsAssumption DEF OpenFlight, Published
<1>4. CASE ResolveSucceeds(r) \/ ResolveFails(r) \/ FetchSucceeds(r) \/ FetchTimesOut(r)
           \/ FetchFails(r) \/ StoreQuote(r) \/ StoreNegative(r)
  BY <1>4 DEF ResolveSucceeds, ResolveFails, FetchSucceeds, FetchTimesOut, FetchFails,
     StoreQuote, StoreNegative, flights, Published
<1>5. CASE Publish(r)
  BY <1>5 DEF Publish
<1>6. CASE Release(r)
  BY <1>6 DEF Release
<1> QED
  BY <1>1, <1>2, <1>3, <1>4, <1>5, <1>6 DEF GetQuote, Own

LEMMA PublishedStep ==
  ASSUME TypeOK, Decided, Published, NEW r \in Requests, GetQuote(r)
  PROVE  Published'
<1> USE DEF TypeOK, Published, Go
<1>1. CASE Lookup(r)
  BY <1>1 DEF Lookup, Start, QuoteHit, QuoteMiss, NegativeHit, NegativeMiss, Settle, answers, flights
<1>2. CASE Wait(r)
  BY <1>2 DEF Wait, JoinFlight, WaitWoken, WaitExpired, WaitStoreNegative, DropStale, Settle,
     answers, flights
<1>3. CASE Publish(r)
  BY <1>3 DEF Publish, Decided, answers
<1>4. CASE OpenFlight(r) \/ ResolveSucceeds(r) \/ ResolveFails(r) \/ FetchSucceeds(r)
           \/ FetchTimesOut(r) \/ FetchFails(r) \/ StoreQuote(r) \/ StoreNegative(r) \/ Release(r)
  BY <1>4 DEF OpenFlight, ResolveSucceeds, ResolveFails, FetchSucceeds, FetchTimesOut,
     FetchFails, StoreQuote, StoreNegative, Release, Settle, answers, flights
<1> QED
  BY <1>1, <1>2, <1>3, <1>4 DEF GetQuote, Own

LEMMA TimelyStep ==
  ASSUME TypeOK, Flying, Table, Published, Timely, NEW r \in Requests, GetQuote(r)
  PROVE  Timely'
<1>0. KeyOf[r] \in Keys
  BY ConstantsAssumption
<1> USE DEF TypeOK, Timely, Flying, Waiting, Published, Go
<1>1. CASE Lookup(r)
  BY <1>1 DEF Lookup, Start, QuoteHit, QuoteMiss, NegativeHit, NegativeMiss, flights
(* A flight in the table whose event is set has not been released yet.     *)
<1>2. CASE JoinFlight(r)
  <2>1. inflightQuotes[KeyOf[r]] \in Requests \ {r}
    BY <1>0, <1>2, ConstantsAssumption DEF JoinFlight, Table, Busy
  <2>2. event[inflightQuotes[KeyOf[r]]] => pc[inflightQuotes[KeyOf[r]]] = "release"
    BY <1>0, <1>2, <2>1 DEF JoinFlight, Table
  <2> QED
    BY <1>2, <2>1, <2>2 DEF JoinFlight
<1>3. CASE WaitWoken(r) \/ WaitExpired(r) \/ WaitStoreNegative(r) \/ DropStale(r)
  BY <1>3 DEF WaitWoken, WaitExpired, WaitStoreNegative, DropStale, flights
<1>4. CASE Own(r)
  BY <1>4 DEF Own, OpenFlight, ResolveSucceeds, ResolveFails, FetchSucceeds, FetchTimesOut,
     FetchFails, StoreQuote, StoreNegative, Publish, Release, flights
<1> QED
  BY <1>1, <1>2, <1>3, <1>4 DEF GetQuote, Wait

(* A call that has stored its outcome neither changes it nor goes back.    *)
LEMMA StoredStep ==
  ASSUME TypeOK, Timely, NEW r \in Requests, GetQuote(r), NEW o \in Requests,
         pc[o] \in {"publish", "release", "wait_drop", "done"}
  PROVE  /\ pc'[o] \in {"publish", "release", "wait_drop", "done"}
         /\ outcome'[o] = outcome[o]
         /\ since[o] <= since'[o]
<1> USE DEF TypeOK, Timely, Go
<1>1. CASE Lookup(r)
  BY <1>1 DEF Lookup, Start, QuoteHit, QuoteMiss, NegativeHit, NegativeMiss, Settle, answers
<1>2. CASE Wait(r)
  BY <1>2 DEF Wait, JoinFlight, WaitWoken, WaitExpired, WaitStoreNegative, DropStale, Settle, answers
<1>3. CASE Own(r)
  BY <1>3 DEF Own, OpenFlight, ResolveSucceeds, ResolveFails, FetchSucceeds, FetchTimesOut,
     FetchFails, StoreQuote, StoreNegative, Publish, Release, Settle, answers
<1> QED
  BY <1>1, <1>2, <1>3 DEF GetQuote

(* What a step of a request does to either cache: nothing, an eviction, or *)
(* the store of what the request has decided, with a reading of the clock  *)
(* no later than the step.                                                 *)
LEMMA QuoteCacheStep ==
  ASSUME TypeOK, Timely, Decided, NEW r \in Requests, GetQuote(r), NEW k \in Keys,
         quoteCache'[k] # None, quoteCache'[k] # quoteCache[k]
  PROVE  /\ pc[r] = "store_quote" /\ pc'[r] = "publish" /\ KeyOf[r] = k
         /\ quoteCache'[k].outcome = outcome[r] /\ outcome'[r] = outcome[r]
         /\ quoteCache'[k].expires <= since'[r] + QuoteTtl
<1>1. StoreQuote(r)
  BY DEF TypeOK, GetQuote, Lookup, Wait, Own, Start, QuoteHit, QuoteMiss, NegativeHit,
     NegativeMiss, JoinFlight, WaitWoken, WaitExpired, WaitStoreNegative, DropStale, OpenFlight,
     ResolveSucceeds, ResolveFails, FetchSucceeds, FetchTimesOut, FetchFails, StoreNegative,
     Publish, Release, Evicted, caches
<1>2. PICK t \in ClockReadings(r) :
        quoteCache' = Stored(quoteCache, KeyOf[r], QuoteTtl, t, outcome[r])
  BY <1>1 DEF StoreQuote
<1>3. t \in Nat /\ t <= now /\ since'[r] = now /\ QuoteTtl \in Nat
  BY <1>1, ConstantsAssumption DEF ClockReadings, TypeOK, StoreQuote, Go
<1>4. KeyOf[r] = k /\ quoteCache'[k] = [expires |-> t + QuoteTtl, outcome |-> outcome[r]]
  BY <1>2 DEF Stored, TypeOK
<1> QED
  BY <1>1, <1>3, <1>4 DEF StoreQuote, Go, TypeOK, answers

LEMMA NegativeCacheStep ==
  ASSUME TypeOK, Timely, Decided, NEW r \in Requests, GetQuote(r), NEW k \in Keys,
         negativeCache'[k] # None, negativeCache'[k] # negativeCache[k]
  PROVE  /\ pc[r] \in {"store_negative", "wait_store_negative"}
         /\ pc'[r] \in {"publish", "wait_drop"} /\ KeyOf[r] = k
         /\ negativeCache'[k].outcome = outcome[r] /\ outcome'[r] = outcome[r]
         /\ negativeCache'[k].expires <= since'[r] + NegativeTtl
<1>1. StoreNegative(r) \/ WaitStoreNegative(r)
  BY DEF TypeOK, GetQuote, Lookup, Wait, Own, Start, QuoteHit, QuoteMiss, NegativeHit,
     NegativeMiss, JoinFlight, WaitWoken, WaitExpired, DropStale, OpenFlight, ResolveSucceeds,
     ResolveFails, FetchSucceeds, FetchTimesOut, FetchFails, StoreQuote, Publish, Release,
     Evicted, caches
<1>2. PICK t \in ClockReadings(r) :
        negativeCache' = Stored(negativeCache, KeyOf[r], NegativeTtl, t, outcome[r])
  BY <1>1 DEF StoreNegative, WaitStoreNegative
<1>3. t \in Nat /\ t <= now /\ since'[r] = now /\ NegativeTtl \in Nat
  BY <1>1, ConstantsAssumption DEF ClockReadings, TypeOK, StoreNegative, WaitStoreNegative, Go
<1>4. KeyOf[r] = k /\ negativeCache'[k] = [expires |-> t + NegativeTtl, outcome |-> outcome[r]]
  BY <1>2 DEF Stored, TypeOK
<1> QED
  BY <1>1, <1>3, <1>4 DEF StoreNegative, WaitStoreNegative, Go, TypeOK, answers

LEMMA CachesStep ==
  ASSUME TypeOK, Timely, Decided, CachesBacked, NEW r \in Requests, GetQuote(r),
         TypeOK'
  PROVE  CachesBacked'
<1>0. QuoteTtl \in Nat /\ NegativeTtl \in Nat
  BY ConstantsAssumption
<1>1. ASSUME NEW k \in Keys, quoteCache'[k] # None
      PROVE  LET o == quoteCache'[k].outcome.by IN
             /\ KeyOf[o] = k
             /\ pc'[o] \in {"publish", "release", "wait_drop", "done"}
             /\ quoteCache'[k].outcome = outcome'[o]
             /\ outcome'[o].kind = "quote"
             /\ quoteCache'[k].expires <= since'[o] + QuoteTtl
  <2>1. CASE quoteCache'[k] = quoteCache[k]
    <3> DEFINE o == quoteCache[k].outcome.by
    <3>1. o \in Requests /\ quoteCache[k].expires \in Nat
      BY <1>1, <2>1 DEF TypeOK, CacheEntries, Outcomes
    <3>2. /\ KeyOf[o] = k /\ pc[o] \in {"publish", "release", "wait_drop", "done"}
          /\ quoteCache[k].outcome = outcome[o] /\ outcome[o].kind = "quote"
          /\ quoteCache[k].expires <= since[o] + QuoteTtl
      BY <1>1, <2>1 DEF CachesBacked, Backed
    <3>3. /\ pc'[o] \in {"publish", "release", "wait_drop", "done"}
          /\ outcome'[o] = outcome[o] /\ since[o] <= since'[o]
      BY <3>1, <3>2, StoredStep
    <3>4. since[o] \in Nat /\ since'[o] \in Nat
      BY <3>1 DEF TypeOK
    <3> HIDE DEF o
    <3>5. quoteCache[k].expires <= since'[o] + QuoteTtl
      BY <1>0, <3>1, <3>2, <3>3, <3>4
    <3> QED
      BY <2>1, <3>2, <3>3, <3>5 DEF o
  <2>2. CASE quoteCache'[k] # quoteCache[k]
    BY <1>1, <2>2, QuoteCacheStep DEF Decided
  <2> QED
    BY <2>1, <2>2
<1>2. ASSUME NEW k \in Keys, negativeCache'[k] # None
      PROVE  LET o == negativeCache'[k].outcome.by IN
             /\ KeyOf[o] = k
             /\ pc'[o] \in {"publish", "release", "wait_drop", "done"}
             /\ negativeCache'[k].outcome = outcome'[o]
             /\ outcome'[o].kind = "timeout"
             /\ negativeCache'[k].expires <= since'[o] + NegativeTtl
  <2>1. CASE negativeCache'[k] = negativeCache[k]
    <3> DEFINE o == negativeCache[k].outcome.by
    <3>1. o \in Requests /\ negativeCache[k].expires \in Nat
      BY <1>2, <2>1 DEF TypeOK, CacheEntries, Outcomes
    <3>2. /\ KeyOf[o] = k /\ pc[o] \in {"publish", "release", "wait_drop", "done"}
          /\ negativeCache[k].outcome = outcome[o] /\ outcome[o].kind = "timeout"
          /\ negativeCache[k].expires <= since[o] + NegativeTtl
      BY <1>2, <2>1 DEF CachesBacked, Backed
    <3>3. /\ pc'[o] \in {"publish", "release", "wait_drop", "done"}
          /\ outcome'[o] = outcome[o] /\ since[o] <= since'[o]
      BY <3>1, <3>2, StoredStep
    <3>4. since[o] \in Nat /\ since'[o] \in Nat
      BY <3>1 DEF TypeOK
    <3> HIDE DEF o
    <3>5. negativeCache[k].expires <= since'[o] + NegativeTtl
      BY <1>0, <3>1, <3>2, <3>3, <3>4
    <3> QED
      BY <2>1, <3>2, <3>3, <3>5 DEF o
  <2>2. CASE negativeCache'[k] # negativeCache[k]
    BY <1>2, <2>2, NegativeCacheStep DEF Decided
  <2> QED
    BY <2>1, <2>2
<1> QED
  BY <1>1, <1>2 DEF CachesBacked, Backed

(* A flight of a working call leaves the table only by DropStale, whose    *)
(* caller then has given up on it.  Release takes out its own flight only, *)
(* and OpenFlight finds no flight to replace.                              *)
LEMMA OneOwnerStep ==
  ASSUME TypeOK, Flying, OneOwnerUnlessAbandoned, NEW r \in Requests, GetQuote(r)
  PROVE  OneOwnerUnlessAbandoned'
<1> USE DEF TypeOK, OneOwnerUnlessAbandoned, Working, GivenUp, Go
<1>1. CASE Lookup(r)
  BY <1>1 DEF Lookup, Start, QuoteHit, QuoteMiss, NegativeHit, NegativeMiss, Settle, answers,
     flights, Flying, Early
<1>2. CASE JoinFlight(r) \/ WaitWoken(r) \/ WaitExpired(r) \/ WaitStoreNegative(r)
  BY <1>2 DEF JoinFlight, WaitWoken, WaitExpired, WaitStoreNegative, Settle, answers, flights,
     Flying, Waiting
<1>3. CASE DropStale(r)
  BY <1>3 DEF DropStale, answers, Flying, Waiting
<1>4. CASE OpenFlight(r)
  <2>1. ASSUME NEW s \in Requests, Working(s)' PROVE inflightQuotes'[KeyOf[s]] = s \/ GivenUp(s)'
    <3>1. CASE s = r
      BY <1>4, <3>1, ConstantsAssumption DEF OpenFlight
    <3>2. CASE s # r
      <4>1. Working(s)
        BY <1>4, <2>1, <3>2 DEF OpenFlight
      <4>2. CASE inflightQuotes[KeyOf[s]] = s
        <5>1. KeyOf[s] # KeyOf[r]
          BY <1>4, <4>2, ConstantsAssumption DEF OpenFlight
        <5> QED
          BY <1>4, <4>2, <5>1 DEF OpenFlight
      <4>3. CASE GivenUp(s)
        BY <1>4, <4>3 DEF OpenFlight, answers
      <4> QED
        BY <4>1, <4>2, <4>3
    <3> QED
      BY <3>1, <3>2
  <2> QED
    BY <2>1
<1>5. CASE \/ ResolveSucceeds(r) \/ ResolveFails(r) \/ FetchSucceeds(r) \/ FetchTimesOut(r)
           \/ FetchFails(r) \/ StoreQuote(r) \/ StoreNegative(r) \/ Publish(r)
  BY <1>5 DEF ResolveSucceeds, ResolveFails, FetchSucceeds, FetchTimesOut, FetchFails,
     StoreQuote, StoreNegative, Publish, Settle, answers, flights
<1>6. CASE Release(r)
  BY <1>6 DEF Release, answers
<1> QED
  BY <1>1, <1>2, <1>3, <1>4, <1>5, <1>6 DEF GetQuote, Wait, Own

-----------------------------------------------------------------------------
(* The invariant holds, and with it the properties.                        *)

LEMMA InvInit == Init => IInv
<1>1. Init => TypeOK
  BY ConstantsAssumption DEF Init, TypeOK, Locations, Routes
<1>2. Init => Flying /\ Decided /\ Table /\ Published /\ Timely
  BY DEF Init, Flying, Early, Waiting, Decided, Table, Published, Timely
<1>3. Init => CachesBacked /\ OneOwnerUnlessAbandoned
  BY DEF Init, CachesBacked, Backed, OneOwnerUnlessAbandoned, Working
<1> QED
  BY <1>1, <1>2, <1>3 DEF IInv

LEMMA InvStep == IInv /\ [Next]_vars => IInv'
<1> SUFFICES ASSUME IInv, [Next]_vars PROVE IInv'
  OBVIOUS
<1>1. CASE UNCHANGED vars \/ AllReturned
  BY <1>1 DEF AllReturned, vars, IInv, TypeOK, Flying, Decided, Table, Published, Timely,
     CachesBacked, Backed, OneOwnerUnlessAbandoned, Working, GivenUp
<1>2. CASE Tick
  <2> USE <1>2 DEF Tick, answers, caches, flights, IInv
  <2>1. TypeOK'
    BY DEF TypeOK
  <2>2. Flying' /\ Decided' /\ Table' /\ Published'
    BY DEF Flying, Decided, Table, Published
  <2>3. Timely'
    BY DEF Timely, TypeOK
  <2>4. CachesBacked' /\ OneOwnerUnlessAbandoned'
    BY DEF CachesBacked, Backed, OneOwnerUnlessAbandoned, Working, GivenUp
  <2> QED
    BY <2>1, <2>2, <2>3, <2>4
<1>3. ASSUME NEW r \in Requests, GetQuote(r) PROVE IInv'
  BY <1>3, TypeStep, FlyingStep, DecidedStep, TableStep, PublishedStep, TimelyStep, CachesStep,
     OneOwnerStep DEF IInv
<1> QED
  BY <1>1, <1>2, <1>3 DEF Next

(* IInv holds in every reachable state of get_quote: the base of the       *)
(* theorems below.                                                         *)
THEOREM Invariance == Spec => []IInv
  BY InvInit, InvStep, PTL DEF Spec

(* Every variable keeps its type, for any requests, keys and timeouts.     *)
THEOREM TypeCorrectness == Spec => []TypeOK
<1>1. IInv => TypeOK
  BY DEF IInv
<1> QED
  BY <1>1, Invariance, PTL

(* However many calls there are and however slow the provider is, a flight *)
(* whose owner still works on it is the one in the table, unless a waiter  *)
(* timed out on it: _release_inflight never takes out a successor's flight *)
(* and _acquire_inflight never displaces one.                              *)
THEOREM Coalescing == Spec => []OneOwnerUnlessAbandoned
<1>1. IInv => OneOwnerUnlessAbandoned
  BY DEF IInv
<1> QED
  BY <1>1, Invariance, PTL

-----------------------------------------------------------------------------
(* The negative cache does not forget a timeout: a second invariant, on    *)
(* top of IInv.                                                            *)

Undecided == {"idle", "lookup_quote", "lookup_negative", "acquire", "wait", "resolve", "fetch"}
AfterStore == {"wait_drop", "publish", "release", "done"}
OwnRoutes == {"fetch", "wait_timeout"}

(* A call decides once.  What it fetched, or its own timeout, is of its    *)
(* making and no later than the step after which it has it.                *)
Dated ==
  \A r \in Requests :
    /\ pc[r] \in Undecided => outcome[r] = None /\ route[r] = "none"
    /\ pc[r] \notin Undecided \cup {"done"} => route[r] \in OwnRoutes
    /\ route[r] \in OwnRoutes =>
         outcome[r] \in Outcomes /\ outcome[r].by = r /\ outcome[r].at <= since[r]

Current(r) == now <= outcome[r].at + NegativeTtl

(* The entry that has r's key will not expire before r's own would.        *)
Covered(r) ==
  /\ negativeCache[KeyOf[r]] # None
  /\ negativeCache[KeyOf[r]].expires >= outcome[r].at + NegativeTtl

(* From the moment a call has stored its timeout.                          *)
Remembered ==
  \A r \in Requests :
    (/\ NegativeTtl > 0
     /\ pc[r] \in AfterStore
     /\ route[r] \in OwnRoutes
     /\ outcome[r].kind = "timeout"
     /\ Current(r))
    => Covered(r) \/ \E o \in Requests : Overwrote(o, r)

LEMMA DatedStep ==
  ASSUME TypeOK, Timely, Dated, NEW r \in Requests, GetQuote(r)
  PROVE  Dated'
<1> USE DEF TypeOK, Timely, Dated, Undecided, OwnRoutes, Go
<1>0. \A s \in Requests : route[s] \in OwnRoutes => outcome[s].at \in Nat
  BY DEF Outcomes
<1>1. CASE Lookup(r)
  BY <1>1 DEF Lookup, Start, QuoteHit, QuoteMiss, NegativeHit, NegativeMiss, Settle, answers
<1>2. CASE WaitExpired(r) \/ FetchSucceeds(r) \/ FetchTimesOut(r) \/ FetchFails(r)
  <2>1. PICK kind \in Kinds, how \in OwnRoutes : Settle(r, Made(kind, r), how)
    BY <1>2 DEF WaitExpired, FetchSucceeds, FetchTimesOut, FetchFails, Kinds
  <2>2. Made(kind, r) \in Outcomes /\ Made(kind, r).by = r /\ Made(kind, r).at = now
    BY MadeType DEF Made
  <2>3. /\ outcome' = [outcome EXCEPT ![r] = Made(kind, r)] /\ route' = [route EXCEPT ![r] = how]
        /\ since' = [since EXCEPT ![r] = now]
        /\ pc'[r] \notin Undecided \cup {"done"} /\ \A s \in Requests \ {r} : pc'[s] = pc[s]
    BY <1>2, <2>1 DEF WaitExpired, FetchSucceeds, FetchTimesOut, FetchFails, Settle
  <2> QED
    BY <2>2, <2>3
<1>3. CASE JoinFlight(r) \/ WaitWoken(r) \/ WaitStoreNegative(r) \/ DropStale(r)
  BY <1>0, <1>3 DEF JoinFlight, WaitWoken, WaitStoreNegative, DropStale, Settle, answers
<1>4. CASE \/ OpenFlight(r) \/ ResolveSucceeds(r) \/ ResolveFails(r) \/ StoreQuote(r)
           \/ StoreNegative(r) \/ Publish(r) \/ Release(r)
  BY <1>0, <1>4 DEF OpenFlight, ResolveSucceeds, ResolveFails, StoreQuote, StoreNegative, Publish,
     Release, Settle, answers
<1> QED
  BY <1>1, <1>2, <1>3, <1>4 DEF GetQuote, Wait, Own

LEMMA DecidesOnce ==
  ASSUME TypeOK, Timely, Dated, NEW r \in Requests, GetQuote(r),
         NEW o \in Requests, outcome[o] # None
  PROVE  /\ outcome'[o] = outcome[o] /\ route'[o] = route[o]
         /\ since[o] <= since'[o]
<1> USE DEF TypeOK, Timely, Dated, Undecided, Go
<1>1. CASE Lookup(r)
  BY <1>1 DEF Lookup, Start, QuoteHit, QuoteMiss, NegativeHit, NegativeMiss, Settle, answers
<1>2. CASE Wait(r)
  BY <1>2 DEF Wait, JoinFlight, WaitWoken, WaitExpired, WaitStoreNegative, DropStale, Settle, answers
<1>3. CASE Own(r)
  BY <1>3 DEF Own, OpenFlight, ResolveSucceeds, ResolveFails, FetchSucceeds, FetchTimesOut,
     FetchFails, StoreQuote, StoreNegative, Publish, Release, Settle, answers
<1> QED
  BY <1>1, <1>2, <1>3 DEF GetQuote

(* A call has stored its timeout only by one of the two stores.            *)
LEMMA StoresItsTimeout ==
  ASSUME TypeOK, Decided, Dated, NEW r \in Requests, GetQuote(r),
         NEW q \in Requests, pc[q] \notin AfterStore, pc'[q] \in AfterStore,
         route'[q] \in OwnRoutes, outcome'[q].kind = "timeout"
  PROVE  q = r /\ (StoreNegative(r) \/ WaitStoreNegative(r))
<1> USE DEF TypeOK, Decided, Dated, Undecided, AfterStore, OwnRoutes, Go
<1>1. q = r
  BY DEF GetQuote, Lookup, Wait, Own, Start, QuoteHit, QuoteMiss, NegativeHit,
     NegativeMiss, JoinFlight, WaitWoken, WaitExpired, WaitStoreNegative, DropStale, OpenFlight,
     ResolveSucceeds, ResolveFails, FetchSucceeds, FetchTimesOut, FetchFails, StoreQuote,
     StoreNegative, Publish, Release
<1>2. CASE Lookup(r)
  BY <1>1, <1>2 DEF Lookup, Start, QuoteHit, QuoteMiss, NegativeHit, NegativeMiss, Settle, answers
<1>3. CASE JoinFlight(r) \/ WaitWoken(r) \/ WaitExpired(r) \/ DropStale(r)
  BY <1>1, <1>3 DEF JoinFlight, WaitWoken, WaitExpired, DropStale, Settle, answers
<1>4. CASE OpenFlight(r) \/ ResolveSucceeds(r) \/ ResolveFails(r) \/ FetchSucceeds(r)
           \/ FetchTimesOut(r) \/ StoreQuote(r) \/ Publish(r) \/ Release(r)
  BY <1>1, <1>4 DEF OpenFlight, ResolveSucceeds, ResolveFails, FetchSucceeds, FetchTimesOut,
     StoreQuote, Publish, Release, Settle, answers
<1>5. CASE FetchFails(r)
  <2>1. PICK kind \in {"unavailable", "connection_error", "unexpected"} :
          Settle(r, Made(kind, r), "fetch")
    BY <1>5 DEF FetchFails
  <2>2. outcome'[q].kind = kind
    BY <1>1, <2>1 DEF Settle, Made
  <2> QED
    BY <2>2
<1> QED
  BY <1>1, <1>2, <1>3, <1>4, <1>5 DEF GetQuote, Wait, Own

(* The negative cache only changes by a miss and by the two stores.        *)
LEMMA NegativeKept ==
  ASSUME NEW r \in Requests, GetQuote(r),
         ~NegativeMiss(r), ~StoreNegative(r), ~WaitStoreNegative(r)
  PROVE  negativeCache' = negativeCache
  BY DEF GetQuote, Lookup, Wait, Own, Start, QuoteHit, QuoteMiss, NegativeHit,
     JoinFlight, WaitWoken, WaitExpired, DropStale, OpenFlight,
     ResolveSucceeds, ResolveFails, FetchSucceeds, FetchTimesOut, FetchFails, StoreQuote,
     Publish, Release, caches

LEMMA NegativeStored ==
  ASSUME TypeOK, Timely, Decided, Dated, NEW r \in Requests, NegativeTtl > 0,
         StoreNegative(r) \/ WaitStoreNegative(r)
  PROVE  \E t \in Nat :
           /\ outcome[r].at <= t /\ t <= now /\ since'[r] = now
           /\ outcome[r].at \in Nat /\ outcome[r].kind = "timeout" /\ outcome[r].by = r
           /\ outcome[r] # None /\ outcome' = outcome
           /\ negativeCache'[KeyOf[r]] = [expires |-> t + NegativeTtl, outcome |-> outcome[r]]
           /\ \A k \in Keys \ {KeyOf[r]} : negativeCache'[k] = negativeCache[k]
<1> USE DEF TypeOK
<1>1. PICK t \in ClockReadings(r) :
        negativeCache' = Stored(negativeCache, KeyOf[r], NegativeTtl, t, outcome[r])
  BY DEF StoreNegative, WaitStoreNegative
<1>2. since[r] \in Nat /\ t \in Nat /\ since[r] <= t /\ t <= now
  BY <1>1 DEF ClockReadings
<1>3. pc[r] \in {"store_negative", "wait_store_negative"} /\ since'[r] = now /\ outcome' = outcome
  BY DEF StoreNegative, WaitStoreNegative, Go, answers
<1>4. /\ outcome[r] \in Outcomes /\ outcome[r].kind = "timeout" /\ outcome[r].by = r
      /\ outcome[r].at <= since[r]
  BY <1>3 DEF Decided, Dated, Undecided
<1>5. outcome[r].at \in Nat /\ outcome[r] # None
  BY <1>4, ConstantsAssumption DEF Outcomes
<1>6. KeyOf[r] \in Keys
  BY ConstantsAssumption
<1>7. /\ negativeCache'[KeyOf[r]] = [expires |-> t + NegativeTtl, outcome |-> outcome[r]]
      /\ \A k \in Keys \ {KeyOf[r]} : negativeCache'[k] = negativeCache[k]
  BY <1>1, <1>6 DEF Stored
<1>8. outcome[r].at <= t
  BY <1>2, <1>4, <1>5
<1> QED
  BY <1>2, <1>3, <1>4, <1>5, <1>7, <1>8

LEMMA RememberedStep ==
  ASSUME IInv, Dated, Remembered, TypeOK', NEW r \in Requests, GetQuote(r)
  PROVE  Remembered'
<1> USE DEF IInv
<1> SUFFICES ASSUME NEW q \in Requests, NegativeTtl > 0, pc'[q] \in AfterStore,
                    route'[q] \in OwnRoutes, outcome'[q].kind = "timeout", Current(q)'
             PROVE  Covered(q)' \/ \E o \in Requests : Overwrote(o, q)'
  BY DEF Remembered
<1>1. NegativeTtl \in Nat /\ KeyOf[q] \in Keys /\ KeyOf[r] \in Keys /\ None \notin CacheEntries
  BY ConstantsAssumption
<1>2. now \in Nat /\ now' = now
  BY DEF TypeOK, GetQuote, Lookup, Wait, Own, Start, QuoteHit, QuoteMiss,
     NegativeHit, NegativeMiss, JoinFlight, WaitWoken, WaitExpired, WaitStoreNegative, DropStale,
     OpenFlight, ResolveSucceeds, ResolveFails, FetchSucceeds, FetchTimesOut, FetchFails,
     StoreQuote, StoreNegative, Publish, Release, Go
<1>3. CASE pc[q] \notin AfterStore
  <2>1. q = r /\ (StoreNegative(r) \/ WaitStoreNegative(r))
    BY <1>3, StoresItsTimeout
  <2>2. PICK t \in Nat :
           /\ outcome[r].at <= t /\ outcome[r].at \in Nat /\ outcome' = outcome
           /\ negativeCache'[KeyOf[r]] = [expires |-> t + NegativeTtl, outcome |-> outcome[r]]
    BY <2>1, NegativeStored
  <2>3. negativeCache'[KeyOf[r]].expires = t + NegativeTtl
    BY <2>2
  <2>4. outcome[r] \in Outcomes
    BY <2>1 DEF StoreNegative, WaitStoreNegative, Go, Decided
  <2>5. negativeCache'[KeyOf[r]] # None
    BY <1>1, <2>2, <2>4 DEF CacheEntries
  <2> QED
    BY <1>1, <2>1, <2>2, <2>3, <2>5 DEF Covered
<1>4. CASE pc[q] \in AfterStore
  <2>1. pc[q] = "done" => outcome'[q] = outcome[q] /\ route'[q] = route[q]
    <3> SUFFICES ASSUME pc[q] = "done"
                 PROVE  outcome'[q] = outcome[q] /\ route'[q] = route[q]
      OBVIOUS
    <3> QED
      BY DEF TypeOK, GetQuote, Lookup, Wait, Own, Start, QuoteHit, QuoteMiss,
         NegativeHit, NegativeMiss, JoinFlight, WaitWoken, WaitExpired, WaitStoreNegative,
         DropStale, OpenFlight, ResolveSucceeds, ResolveFails, FetchSucceeds, FetchTimesOut,
         FetchFails, StoreQuote, StoreNegative, Publish, Release, Go, Settle, answers
  <2>2. pc[q] # "done" => outcome[q] \in Outcomes
    BY <1>4 DEF AfterStore, Decided
  <2>3. outcome'[q] = outcome[q] /\ route'[q] = route[q]
    BY <1>1, <2>1, <2>2, DecidesOnce, ConstantsAssumption
  <2>4. /\ outcome[q] \in Outcomes /\ outcome[q].at \in Nat
        /\ since[q] \in Nat /\ outcome[q].at <= since[q] /\ since[q] <= now
    BY <2>3 DEF Dated, Outcomes, TypeOK, Timely
  <2>5. now <= outcome[q].at + NegativeTtl
    BY <1>1, <1>2, <2>3, <2>4 DEF Current
  <2>6. Covered(q) \/ \E o \in Requests : Overwrote(o, q)
    BY <1>1, <1>2, <1>4, <2>3, <2>4, <2>5 DEF Remembered, Current
  <2>7. ASSUME NEW o \in Requests, Overwrote(o, q)
        PROVE  Overwrote(o, q)'
    <3>1. outcome'[o] = outcome[o] /\ since[o] <= since'[o]
      BY <2>7, DecidesOnce DEF Overwrote
    <3>2. since[o] \in Nat /\ since'[o] \in Nat
      BY DEF TypeOK
    <3> QED
      BY <2>3, <2>4, <2>7, <3>1, <3>2 DEF Overwrote
  <2>8. ASSUME Covered(q), NegativeMiss(r)
        PROVE  Covered(q)'
    <3>1. PICK t \in ClockReadings(r) : ~Live(negativeCache, KeyOf[r], NegativeTtl, t)
      BY <2>8 DEF NegativeMiss
    <3>2. t \in Int /\ t <= now
      BY <1>2, <3>1 DEF ClockReadings
    <3>3. KeyOf[q] # KeyOf[r]
      <4> SUFFICES ASSUME KeyOf[q] = KeyOf[r]
                   PROVE  FALSE
        OBVIOUS
      <4>1. negativeCache[KeyOf[q]].expires \in Nat
        BY <1>1, <2>8 DEF Covered, TypeOK, CacheEntries
      <4> QED
        BY <1>1, <1>2, <2>4, <2>5, <2>8, <3>1, <3>2, <4>1 DEF Covered, Live
    <3>4. negativeCache'[KeyOf[q]] = negativeCache[KeyOf[q]]
      BY <1>1, <2>8, <3>3 DEF NegativeMiss, Evicted, TypeOK
    <3> QED
      BY <2>3, <2>8, <3>4 DEF Covered
  <2>9. ASSUME Covered(q), StoreNegative(r) \/ WaitStoreNegative(r)
        PROVE  Covered(q)' \/ Overwrote(r, q)'
    <3>1. PICK t \in Nat :
             /\ outcome[r].at <= t /\ t <= now /\ since'[r] = now
             /\ outcome[r].at \in Nat /\ outcome[r].kind = "timeout" /\ outcome[r].by = r
             /\ outcome[r] # None /\ outcome' = outcome
             /\ negativeCache'[KeyOf[r]] = [expires |-> t + NegativeTtl, outcome |-> outcome[r]]
             /\ \A k \in Keys \ {KeyOf[r]} : negativeCache'[k] = negativeCache[k]
      BY <2>9, NegativeStored
    <3>2. CASE KeyOf[q] # KeyOf[r]
      <4>1. negativeCache'[KeyOf[q]] = negativeCache[KeyOf[q]]
        BY <1>1, <3>1, <3>2
      <4> QED
        BY <2>3, <2>9, <4>1 DEF Covered
    <3>3. CASE KeyOf[q] = KeyOf[r] /\ t >= outcome[q].at
      <4>1. negativeCache'[KeyOf[r]].expires = t + NegativeTtl
        BY <3>1
      <4>2. outcome[r] \in Outcomes
        BY <2>9 DEF StoreNegative, WaitStoreNegative, Go, Decided
      <4>3. negativeCache'[KeyOf[r]] # None
        BY <1>1, <3>1, <4>2 DEF CacheEntries
      <4> QED
        BY <1>1, <2>3, <2>4, <3>3, <4>1, <4>3 DEF Covered
    <3>4. CASE KeyOf[q] = KeyOf[r] /\ t < outcome[q].at
      BY <1>2, <2>3, <2>4, <3>1, <3>4 DEF Overwrote
    <3> QED
      BY <2>4, <3>1, <3>2, <3>3, <3>4
  <2>10. ASSUME Covered(q), ~NegativeMiss(r), ~StoreNegative(r), ~WaitStoreNegative(r)
         PROVE  Covered(q)'
    BY <2>3, <2>10, NegativeKept DEF Covered
  <2> QED
    BY <2>6, <2>7, <2>8, <2>9, <2>10
<1> QED
  BY <1>3, <1>4

LEMMA RememberedInvariant == Spec => []Remembered
<1>1. Init => Dated /\ Remembered
  BY DEF Init, Dated, Undecided, OwnRoutes, Remembered, AfterStore
<1>2. IInv /\ IInv' /\ Dated /\ Remembered /\ [Next]_vars => Dated' /\ Remembered'
  <2> SUFFICES ASSUME IInv, IInv', Dated, Remembered, [Next]_vars
               PROVE  Dated' /\ Remembered'
    OBVIOUS
  <2>1. CASE UNCHANGED vars \/ AllReturned
    BY <2>1 DEF AllReturned, vars, Dated, Remembered, Current, Covered, Overwrote
  <2>2. CASE Tick
    <3>1. now' = now + 1 /\ UNCHANGED <<pc, since, outcome, route, negativeCache>>
      BY <2>2 DEF Tick, answers, caches
    <3>2. Dated'
      BY <3>1 DEF Dated
    <3>3. now \in Nat /\ NegativeTtl \in Nat
      BY ConstantsAssumption DEF IInv, TypeOK
    <3>4. \A r \in Requests : route[r] \in OwnRoutes => outcome[r].at \in Nat
      BY DEF Dated, Outcomes
    <3>5. \A r \in Requests : route[r] \in OwnRoutes /\ Current(r)' => Current(r)
      BY <3>1, <3>3, <3>4 DEF Current
    <3>6. Remembered'
      BY <3>1, <3>5 DEF Remembered, Covered, Overwrote
    <3> QED
      BY <3>2, <3>6
  <2>3. ASSUME NEW r \in Requests, GetQuote(r)
        PROVE  Dated' /\ Remembered'
    BY <2>3, DatedStep, RememberedStep DEF IInv
  <2> QED
    BY <2>1, <2>2, <2>3 DEF Next
<1> QED
  BY <1>1, <1>2, Invariance, PTL DEF Spec

(* Once a call has reported a timeout, its key stays in the negative cache *)
(* for NegativeTtl from then on (_store_negative_quote), unless a slower   *)
(* call has stored an older timeout since: no lookup evicts it early, and  *)
(* no burst of calls of any number shortens its time.                      *)
THEOREM TimeoutsAreRemembered == Spec => []TimeoutRemembered
<1>1. TypeOK /\ Remembered => TimeoutRemembered
  <2> SUFFICES ASSUME TypeOK, Remembered, NEW r \in Requests, NegativeTtl > 0, pc[r] = "done",
                      route[r] \in {"fetch", "wait_timeout"}, outcome[r].kind = "timeout",
                      now <= outcome[r].at + NegativeTtl
               PROVE  negativeCache[KeyOf[r]] # None \/ \E o \in Requests : Overwrote(o, r)
    BY DEF TimeoutRemembered
  <2> QED
    BY DEF Remembered, AfterStore, OwnRoutes, Current, Covered
<1> QED
  BY <1>1, RememberedInvariant, TypeCorrectness, PTL

-----------------------------------------------------------------------------
(* get_quote implements AnswerContract.                                     *)

phaseBar == [r \in Requests |-> Phase(r)]
endedBar == [r \in Requests |-> IF pc[r] = "done" THEN since[r] ELSE 0]

(* Steps that the contract does not see.                                   *)
LEMMA HiddenStep ==
  ASSUME TypeOK, NEW r \in Requests, NEW from \in Locations \ {"done"}, NEW to \in Locations \ {"done"},
         Go(r, from, to), UNCHANGED <<begun, outcome>>, Phase(r)' = Phase(r)
  PROVE  UNCHANGED Contract!cvars
<1>1. \A s \in Requests : Phase(s)' = Phase(s)
  BY DEF TypeOK, Go, Phase
<1>2. phaseBar' = phaseBar
  BY <1>1 DEF phaseBar
<1>3. endedBar' = endedBar
  BY DEF endedBar, Go, TypeOK
<1> QED
  BY <1>2, <1>3 DEF Contract!cvars, phaseBar, endedBar, Go

(* Steps of r that leave it undone, and steps that end it.                 *)
LEMMA PhaseStep ==
  ASSUME TypeOK, NEW r \in Requests, NEW from \in Locations \ {"done"}, NEW to \in Locations,
         Go(r, from, to)
  PROVE  /\ phaseBar' = [phaseBar EXCEPT ![r] = Phase(r)']
         /\ endedBar' = IF to = "done" THEN [endedBar EXCEPT ![r] = now] ELSE endedBar
<1>1. \A s \in Requests \ {r} : Phase(s)' = Phase(s)
  BY DEF TypeOK, Go, Phase
<1>2. phaseBar' = [phaseBar EXCEPT ![r] = Phase(r)']
  BY <1>1 DEF phaseBar
<1>3. CASE to = "done"
  BY <1>2, <1>3 DEF endedBar, Go, TypeOK
<1>4. CASE to # "done"
  BY <1>2, <1>4 DEF endedBar, Go, TypeOK
<1> QED
  BY <1>3, <1>4

LEMMA ContractInit == Init => Contract!Init
  BY DEF Init, Contract!Init, Phase

(* A cache hit hands out the outcome of the call that stored it.           *)
LEMMA HitStep ==
  ASSUME IInv, NEW r \in Requests, NEW kind \in {"quote", "timeout"}, NEW ttl \in Nat,
         Grace[kind] = ttl,
         NEW cache \in [Keys -> CacheEntries \cup {None}], Backed(cache, kind, ttl),
         NEW from \in {"lookup_quote", "lookup_negative"}, Go(r, from, "done"),
         NEW t \in ClockReadings(r), Live(cache, KeyOf[r], ttl, t),
         outcome' = [outcome EXCEPT ![r] = cache[KeyOf[r]].outcome], UNCHANGED begun
  PROVE  \E o \in Requests : Contract!HandOut(r, o)
<1> DEFINE e == cache[KeyOf[r]]
           o == e.outcome.by
<1>1. KeyOf[r] \in Keys
  BY ConstantsAssumption
<1>2. e \in CacheEntries /\ o \in Requests /\ e.expires \in Nat
  BY <1>1, LiveType DEF Live, CacheEntries, Outcomes
<1>3. /\ KeyOf[o] = KeyOf[r] /\ pc[o] \in {"publish", "release", "wait_drop", "done"}
      /\ e.outcome = outcome[o] /\ outcome[o].kind = kind /\ e.expires <= since[o] + ttl
  BY <1>1 DEF Backed, Live
<1>4. begun[r] <= t /\ t <= e.expires
  <2>1. begun[r] <= since[r] /\ since[r] <= t /\ t \in Int
    BY DEF IInv, Timely, ClockReadings, TypeOK
  <2> QED
    BY <2>1 DEF Live, IInv, TypeOK
<1>5. Contract!Fresh(o, r)
  <2>1. CASE pc[o] = "done"
    <3>1. begun[r] <= since[o] + ttl
      BY <1>2, <1>3, <1>4 DEF IInv, TypeOK, ClockReadings
    <3> QED
      BY <1>2, <1>3, <2>1, <3>1 DEF Contract!Fresh, Phase, IInv, TypeOK
  <2>2. CASE pc[o] # "done"
    BY <1>2, <1>3, <2>2 DEF Contract!Fresh, Phase
  <2> QED
    BY <2>1, <2>2
<1>6. /\ phaseBar' = [phaseBar EXCEPT ![r] = "ended"]
      /\ endedBar' = [endedBar EXCEPT ![r] = now]
  BY PhaseStep DEF IInv, Locations, Phase, Go, TypeOK
<1>7. phaseBar[r] = "open" /\ now' = now
  BY DEF phaseBar, Phase, Go
<1>8. outcome[o].by = o /\ outcome[o].kind # "unexpected" /\ outcome' = [outcome EXCEPT ![r] = outcome[o]]
  BY <1>3
<1> HIDE DEF o, e
<1>9. Contract!HandOut(r, o)
  BY <1>2, <1>3, <1>5, <1>6, <1>7, <1>8 DEF Contract!HandOut, Contract!End, phaseBar, endedBar
<1> QED
  BY <1>2, <1>9

(* A step of r's own making, that ends it or leaves it decided.            *)
LEMMA DecideStep ==
  ASSUME TypeOK, NEW r \in Requests, NEW kind \in Kinds, NEW from, NEW to \in Locations,
         Go(r, from, to), from \in Locations \ {"done"}, phaseBar[r] = "open",
         Phase(r)' = "decided" \/ to = "done",
         outcome' = [outcome EXCEPT ![r] = Made(kind, r)], UNCHANGED begun
  PROVE  Contract!Decide(r)
<1>1. /\ phaseBar' = [phaseBar EXCEPT ![r] = Phase(r)']
      /\ endedBar' = IF to = "done" THEN [endedBar EXCEPT ![r] = now] ELSE endedBar
  BY PhaseStep
<1>2. to = "done" => Phase(r)' = "ended"
  BY DEF Phase, Go, TypeOK
<1>3. now' = now /\ outcome' = [outcome EXCEPT ![r] = [kind |-> kind, by |-> r, at |-> now]]
  BY DEF Go, Made
<1>4. CASE to = "done"
  BY <1>1, <1>2, <1>3, <1>4 DEF Contract!Decide, Contract!End, phaseBar, endedBar
<1>5. CASE to # "done"
  BY <1>1, <1>3, <1>5 DEF Contract!Decide, phaseBar, endedBar
<1> QED
  BY <1>4, <1>5

LEMMA FinishStep ==
  ASSUME TypeOK, NEW r \in Requests, NEW from \in {"wait_drop", "release"}, Go(r, from, "done"),
         UNCHANGED <<begun, outcome>>
  PROVE  Contract!Finish(r)
<1>1. /\ phaseBar' = [phaseBar EXCEPT ![r] = "ended"]
      /\ endedBar' = [endedBar EXCEPT ![r] = now]
  BY PhaseStep DEF Locations, Phase, Go, TypeOK
<1>2. phaseBar[r] = "decided" /\ now' = now
  BY DEF phaseBar, Phase, Go
<1> QED
  BY <1>1, <1>2 DEF Contract!Finish, Contract!End, phaseBar, endedBar

(* A woken waiter hands out what the flight's owner shared.                *)
LEMMA WokenStep ==
  ASSUME IInv, NEW r \in Requests, WaitWoken(r)
  PROVE  Contract!Decide(r) \/ \E o \in Requests : Contract!HandOut(r, o)
<1> DEFINE o == inflight[r]
<1>1. /\ o \in Requests \ {r} /\ KeyOf[o] = KeyOf[r] /\ event[o] /\ pc[r] = "wait"
  BY DEF IInv, Flying, Waiting, WaitWoken, Go
<1>2. Go(r, "wait", "done") /\ now' = now /\ UNCHANGED begun
  BY DEF WaitWoken, Go
<1>3. phaseBar[r] = "open"
  BY <1>1 DEF phaseBar, Phase
<1>4. CASE shared[o] = None
  <2>1. outcome' = [outcome EXCEPT ![r] = Made("unavailable", r)]
    BY <1>4 DEF WaitWoken, Settle
  <2> QED
    BY <1>2, <1>3, <2>1, DecideStep DEF IInv, Kinds, Locations
<1>5. CASE shared[o] # None
  <2>1. outcome' = [outcome EXCEPT ![r] = shared[o]]
    BY <1>5 DEF WaitWoken, Settle
  <2>2. /\ pc[o] \in {"release", "done"} /\ shared[o] = outcome[o]
        /\ outcome[o].by = o /\ outcome[o].kind # "unexpected"
    BY <1>1, <1>5 DEF IInv, Published
  <2>3. outcome[o] \in Outcomes /\ Grace[outcome[o].kind] \in Nat
    BY <1>1, <1>5, <2>2, ConstantsAssumption DEF IInv, TypeOK, Outcomes, Kinds, Grace
  <2>4. Contract!Fresh(o, r)
    <3>1. CASE pc[o] = "done"
      <4>1. begun[r] <= since[o]
        BY <1>1, <3>1 DEF IInv, Timely
      <4>2. begun[r] <= since[o] + Grace[outcome[o].kind]
        BY <1>1, <2>3, <4>1 DEF IInv, TypeOK
      <4> QED
        BY <1>1, <3>1, <4>2 DEF Contract!Fresh, Phase
    <3>2. CASE pc[o] = "release"
      BY <1>1, <3>2 DEF Contract!Fresh, Phase
    <3> QED
      BY <2>2, <3>1, <3>2
  <2>5. /\ phaseBar' = [phaseBar EXCEPT ![r] = "ended"]
        /\ endedBar' = [endedBar EXCEPT ![r] = now]
    BY <1>2, PhaseStep DEF IInv, Locations, Phase, Go, TypeOK
  <2> HIDE DEF o
  <2>6. Contract!HandOut(r, o)
    BY <1>1, <1>2, <1>3, <2>1, <2>2, <2>4, <2>5 DEF Contract!HandOut, Contract!End, phaseBar, endedBar
  <2> QED
    BY <1>1, <2>6
<1> QED
  BY <1>4, <1>5

LEMMA ContractStep == IInv /\ [Next]_vars => [Contract!Next]_Contract!cvars
<1> SUFFICES ASSUME IInv, [Next]_vars PROVE [Contract!Next]_Contract!cvars
  OBVIOUS
<1>0. TypeOK
  BY DEF IInv
<1>1. CASE UNCHANGED vars \/ AllReturned
  BY <1>1 DEF vars, AllReturned, Contract!cvars, Phase
<1>2. CASE Tick
  BY <1>2 DEF Tick, answers, Phase, Contract!Next, Contract!Advance
<1>3. ASSUME NEW r \in Requests, Lookup(r) PROVE [Contract!Next]_Contract!cvars
  <2>1. CASE Start(r)
    <3>1. /\ phaseBar' = [phaseBar EXCEPT ![r] = "open"] /\ endedBar' = endedBar
      BY <1>0, <2>1, PhaseStep DEF Start, Locations, Phase, Go, TypeOK
    <3>2. Contract!Begin(r)
      BY <2>1, <3>1 DEF Start, Go, answers, Contract!Begin, phaseBar, endedBar, Phase
    <3> QED
      BY <3>2 DEF Contract!Next
  <2>2. CASE QuoteHit(r)
    <3>1. \E o \in Requests : Contract!HandOut(r, o)
      BY <2>2, HitStep, ConstantsAssumption DEF QuoteHit, Settle, IInv, CachesBacked, Grace, Kinds, TypeOK
    <3> QED
      BY <3>1 DEF Contract!Next
  <2>3. CASE NegativeHit(r)
    <3>1. \E o \in Requests : Contract!HandOut(r, o)
      BY <2>3, HitStep, ConstantsAssumption DEF NegativeHit, Settle, IInv, CachesBacked, Grace, Kinds, TypeOK
    <3> QED
      BY <3>1 DEF Contract!Next
  <2>4. CASE QuoteMiss(r) \/ NegativeMiss(r)
    <3>1. Phase(r)' = Phase(r) /\ UNCHANGED <<begun, outcome>>
      BY <1>0, <2>4 DEF QuoteMiss, NegativeMiss, Go, Phase, TypeOK, answers
    <3> QED
      BY <1>0, <2>4, <3>1, HiddenStep DEF QuoteMiss, NegativeMiss, Locations
  <2> QED
    BY <1>3, <2>1, <2>2, <2>3, <2>4 DEF Lookup
<1>4. ASSUME NEW r \in Requests, Wait(r) PROVE [Contract!Next]_Contract!cvars
  <2>1. CASE JoinFlight(r) \/ WaitStoreNegative(r)
    <3>1. Phase(r)' = Phase(r) /\ UNCHANGED <<begun, outcome>>
      BY <1>0, <2>1 DEF JoinFlight, WaitStoreNegative, Go, Phase, TypeOK, answers
    <3> QED
      BY <1>0, <2>1, <3>1, HiddenStep DEF JoinFlight, WaitStoreNegative, Locations
  <2>2. CASE WaitWoken(r)
    BY <2>2, WokenStep DEF Contract!Next
  <2>3. CASE WaitExpired(r)
    <3>1. phaseBar[r] = "open" /\ Phase(r)' = "decided"
      BY <1>0, <2>3 DEF WaitExpired, Go, phaseBar, Phase, TypeOK
    <3>2. Contract!Decide(r)
      BY <1>0, <2>3, <3>1, DecideStep DEF WaitExpired, Settle, Kinds, Locations
    <3> QED
      BY <3>2 DEF Contract!Next
  <2>4. CASE DropStale(r)
    <3>1. Contract!Finish(r)
      BY <1>0, <2>4, FinishStep DEF DropStale, answers
    <3> QED
      BY <3>1 DEF Contract!Next
  <2> QED
    BY <1>4, <2>1, <2>2, <2>3, <2>4 DEF Wait
<1>5. ASSUME NEW r \in Requests, Own(r) PROVE [Contract!Next]_Contract!cvars
  <2>1. CASE OpenFlight(r) \/ ResolveSucceeds(r)
    <3>1. Phase(r)' = Phase(r) /\ UNCHANGED <<begun, outcome>>
      BY <1>0, <2>1 DEF OpenFlight, ResolveSucceeds, Go, Phase, TypeOK, answers
    <3> QED
      BY <1>0, <2>1, <3>1, HiddenStep DEF OpenFlight, ResolveSucceeds, Locations
  <2>2. CASE StoreQuote(r) \/ StoreNegative(r) \/ Publish(r)
    <3>1. Phase(r)' = Phase(r) /\ UNCHANGED <<begun, outcome>>
      BY <1>0, <2>2 DEF StoreQuote, StoreNegative, Publish, Go, Phase, TypeOK, answers
    <3> QED
      BY <1>0, <2>2, <3>1, HiddenStep DEF StoreQuote, StoreNegative, Publish, Locations
  <2>3. CASE ResolveFails(r)
    <3>1. phaseBar[r] = "open" /\ UNCHANGED begun
      BY <2>3 DEF ResolveFails, Go, phaseBar, Phase
    <3>2. PICK kind \in Kinds : outcome' = [outcome EXCEPT ![r] = Made(kind, r)]
      BY <2>3 DEF ResolveFails, Settle, Kinds
    <3>3. Contract!Decide(r)
      BY <1>0, <2>3, <3>1, <3>2, DecideStep DEF ResolveFails, Locations
    <3> QED
      BY <3>3 DEF Contract!Next
  <2>4. CASE FetchSucceeds(r) \/ FetchTimesOut(r) \/ FetchFails(r)
    <3>1. phaseBar[r] = "open" /\ Phase(r)' = "decided" /\ UNCHANGED begun
      BY <1>0, <2>4 DEF FetchSucceeds, FetchTimesOut, FetchFails, Go, phaseBar, Phase, TypeOK
    <3>2. PICK kind \in Kinds : outcome' = [outcome EXCEPT ![r] = Made(kind, r)]
      BY <2>4 DEF FetchSucceeds, FetchTimesOut, FetchFails, Settle, Kinds
    <3>3. PICK to \in Locations : Go(r, "fetch", to)
      BY <2>4 DEF FetchSucceeds, FetchTimesOut, FetchFails, Locations
    <3>4. Contract!Decide(r)
      BY <1>0, <3>1, <3>2, <3>3, DecideStep DEF Locations
    <3> QED
      BY <3>4 DEF Contract!Next
  <2>5. CASE Release(r)
    <3>1. Contract!Finish(r)
      BY <1>0, <2>5, FinishStep DEF Release, answers
    <3> QED
      BY <3>1 DEF Contract!Next
  <2> QED
    BY <1>5, <2>1, <2>2, <2>3, <2>4, <2>5 DEF Own
<1> QED
  BY <1>1, <1>2, <1>3, <1>4, <1>5 DEF Next, GetQuote

(* get_quote keeps its contract whatever the interleaving: an answer is of *)
(* the call's own making or that of a call for the same key which was      *)
(* still running, or had ended within the outcome's time to live, when     *)
(* this one began, and never an unexpected exception of another.           *)
THEOREM Refinement == Spec => ImplementsContract
<1>1. Spec => Contract!Init /\ [][Contract!Next]_Contract!cvars
  BY ContractInit, ContractStep, Invariance, PTL DEF Spec
<1> QED
  BY <1>1 DEF ImplementsContract, Contract!Spec

-----------------------------------------------------------------------------
(* What follows from the contract alone, for every answer in every state.  *)

(* What Justified says of one call, in terms of what stands for the        *)
(* contract's phases and ends.                                             *)
Decisive == {"decided", "ended"}

Fits(r) ==
  /\ outcome[r] # None <=> phaseBar[r] \in Decisive
  /\ outcome[r] # None =>
       /\ outcome[outcome[r].by] = outcome[r]
       /\ KeyOf[outcome[r].by] = KeyOf[r]
       /\ outcome[r].by # r => outcome[r].kind # "unexpected"
       /\ outcome[r].by # r /\ phaseBar[outcome[r].by] = "ended" =>
            begun[r] <= endedBar[outcome[r].by] + Grace[outcome[r].kind]

LEMMA JustifiedFits ==
  ASSUME TypeOK
  PROVE  Contract!Justified <=> \A r \in Requests : Fits(r)
  BY DEF Contract!Justified, Fits, Decisive, phaseBar, endedBar

LEMMA JustifiedInit == Init => Contract!Justified
<1> SUFFICES ASSUME Init
             PROVE  Contract!Justified
  OBVIOUS
<1>1. \A r \in Requests : outcome[r] = None /\ Phase(r) = "idle"
  BY DEF Init, Phase
<1> QED
  BY <1>1 DEF Contract!Justified

(* The maker of an answer, the time it may be handed out for, and where    *)
(* they come from.                                                         *)
LEMMA MakerType ==
  ASSUME TypeOK, NEW r \in Requests, outcome[r] # None
  PROVE  /\ outcome[r] \in Outcomes /\ outcome[r].by \in Requests
         /\ Grace[outcome[r].kind] \in Nat
  BY ConstantsAssumption DEF TypeOK, Outcomes, Grace

LEMMA FitsUnchanged ==
  ASSUME TypeOK, NEW r \in Requests, Fits(r), UNCHANGED outcome,
         begun'[r] = begun[r] \/ outcome[r] = None,
         \A s \in Requests : phaseBar'[s] \in Decisive <=> phaseBar[s] \in Decisive,
         \A s \in Requests : phaseBar'[s] = "ended" =>
           \/ phaseBar[s] = "ended" /\ endedBar'[s] = endedBar[s]
           \/ \A g \in Nat : begun[r] <= endedBar'[s] + g
  PROVE  Fits(r)'
<1>1. outcome'[r] # None <=> phaseBar'[r] \in Decisive
  BY DEF Fits
<1>2. CASE outcome[r] # None
  <2> DEFINE maker == outcome[r].by
  <2>1. maker \in Requests /\ Grace[outcome[r].kind] \in Nat
    BY <1>2, MakerType
  <2>2. maker # r /\ phaseBar'[maker] = "ended" =>
          begun[r] <= endedBar'[maker] + Grace[outcome[r].kind]
    BY <1>2, <2>1 DEF Fits
  <2> QED
    BY <1>1, <1>2, <2>1, <2>2 DEF Fits
<1> QED
  BY <1>1, <1>2 DEF Fits

LEMMA JustifiedStep ==
  ASSUME IInv, IInv', Contract!Justified, [Contract!Next]_Contract!cvars
  PROVE  Contract!Justified'
<1>0. /\ TypeOK /\ TypeOK' /\ \A r \in Requests : Fits(r)
      /\ now \in Nat /\ begun \in [Requests -> Nat] /\ outcome \in [Requests -> Outcomes \cup {None}]
      /\ \A r \in Requests : begun[r] <= now
  BY JustifiedFits DEF IInv, Timely, TypeOK
<1>1. phaseBar \in [Requests -> {"idle", "open", "decided", "ended"}] /\ endedBar \in [Requests -> Nat]
  BY <1>0 DEF phaseBar, endedBar, Phase, TypeOK
<1>2. SUFFICES \A r \in Requests : Fits(r)'
  BY <1>0 DEF Contract!Justified, Fits, Decisive, phaseBar, endedBar
<1>3. CASE UNCHANGED Contract!cvars \/ Contract!Advance
  <2>1. UNCHANGED <<phaseBar, endedBar, begun, outcome>>
    BY <1>3 DEF Contract!cvars, Contract!Advance, phaseBar, endedBar
  <2> QED
    BY <1>0, <2>1, FitsUnchanged
<1>4. ASSUME NEW r \in Requests, Contract!Begin(r)
      PROVE  \A s \in Requests : Fits(s)'
  <2>1. /\ phaseBar[r] = "idle" /\ phaseBar' = [phaseBar EXCEPT ![r] = "open"]
        /\ begun' = [begun EXCEPT ![r] = now] /\ UNCHANGED <<endedBar, outcome>>
    BY <1>4 DEF Contract!Begin, phaseBar, endedBar
  <2>2. outcome[r] = None
    BY <1>0, <2>1 DEF Fits, Decisive
  <2> QED
    BY <1>0, <1>1, <2>1, <2>2, FitsUnchanged DEF Decisive
<1>5. ASSUME NEW r \in Requests, Contract!Finish(r)
      PROVE  \A s \in Requests : Fits(s)'
  <2>1. /\ phaseBar[r] = "decided" /\ phaseBar' = [phaseBar EXCEPT ![r] = "ended"]
        /\ endedBar' = [endedBar EXCEPT ![r] = now] /\ UNCHANGED <<begun, outcome>>
    BY <1>5 DEF Contract!Finish, Contract!End, phaseBar, endedBar
  <2>2. endedBar'[r] = now /\ \A s \in Requests \ {r} : endedBar'[s] = endedBar[s]
    BY <1>1, <2>1
  <2>3. \A s \in Requests : \A g \in Nat : begun[s] <= endedBar'[r] + g
    BY <1>0, <2>2
  <2> QED
    BY <1>0, <1>1, <2>1, <2>2, <2>3, FitsUnchanged DEF Decisive
(* Nobody can have had the answer of a call that had none.                 *)
<1>6. ASSUME NEW r \in Requests, Contract!Decide(r)
      PROVE  \A s \in Requests : Fits(s)'
  <2>1. PICK kind \in Kinds :
          outcome' = [outcome EXCEPT ![r] = [kind |-> kind, by |-> r, at |-> now]]
    BY <1>6 DEF Contract!Decide
  <2>2. /\ phaseBar[r] = "open" /\ begun' = begun
        /\ \/ phaseBar' = [phaseBar EXCEPT ![r] = "ended"]
           \/ phaseBar' = [phaseBar EXCEPT ![r] = "decided"]
        /\ endedBar' = endedBar \/ endedBar' = [endedBar EXCEPT ![r] = now]
    BY <1>6 DEF Contract!Decide, Contract!End, phaseBar, endedBar
  <2>3. outcome[r] = None /\ outcome'[r] # None /\ outcome'[r].by = r
    BY <1>0, <2>1, <2>2, ConstantsAssumption DEF Fits, Decisive, Outcomes
  <2>4. Fits(r)'
    BY <1>1, <2>2, <2>3 DEF Fits, Decisive
  <2>5. ASSUME NEW s \in Requests \ {r}
        PROVE  Fits(s)'
    <3>1. /\ outcome'[s] = outcome[s] /\ phaseBar'[s] = phaseBar[s] /\ endedBar'[s] = endedBar[s]
      BY <1>0, <1>1, <2>1, <2>2
    <3>2. CASE outcome[s] # None
      <4> DEFINE maker == outcome[s].by
      <4>1. maker \in Requests /\ maker # r
        BY <1>0, <2>3, <3>2, MakerType DEF Fits
      <4>2. /\ outcome'[maker] = outcome[maker] /\ phaseBar'[maker] = phaseBar[maker]
            /\ endedBar'[maker] = endedBar[maker]
        BY <1>0, <1>1, <2>1, <2>2, <4>1
      <4> QED
        BY <1>0, <2>2, <3>1, <3>2, <4>1, <4>2 DEF Fits
    <3>3. CASE outcome[s] = None
      BY <1>0, <3>1, <3>3 DEF Fits
    <3> QED
      BY <3>2, <3>3
  <2> QED
    BY <2>4, <2>5
<1>7. ASSUME NEW r \in Requests, NEW o \in Requests, Contract!HandOut(r, o)
      PROVE  \A s \in Requests : Fits(s)'
  <2>1. /\ phaseBar[r] = "open" /\ KeyOf[o] = KeyOf[r] /\ Contract!Fresh(o, r)
        /\ outcome[o].by = o /\ outcome[o].kind # "unexpected"
        /\ outcome' = [outcome EXCEPT ![r] = outcome[o]] /\ begun' = begun
        /\ phaseBar' = [phaseBar EXCEPT ![r] = "ended"]
        /\ endedBar' = [endedBar EXCEPT ![r] = now]
    BY <1>7 DEF Contract!HandOut, Contract!End, phaseBar, endedBar
  <2>2. \/ phaseBar[o] = "decided"
        \/ phaseBar[o] = "ended" /\ endedBar[o] + Grace[outcome[o].kind] >= begun[r]
    BY <2>1 DEF Contract!Fresh, phaseBar, endedBar
  <2>3. outcome[r] = None /\ outcome[o] # None /\ o # r
    BY <1>0, <2>1, <2>2 DEF Fits, Decisive
  <2>4. /\ \A s \in Requests \ {r} : outcome'[s] = outcome[s] /\ phaseBar'[s] = phaseBar[s]
                                     /\ endedBar'[s] = endedBar[s]
        /\ outcome'[r] = outcome[o] /\ phaseBar'[r] = "ended"
    BY <1>0, <1>1, <2>1
  <2>5. Fits(r)'
    <3>1. phaseBar[o] = "ended" => begun[r] <= endedBar[o] + Grace[outcome[o].kind]
      BY <1>0, <1>1, <2>2, <2>3, MakerType
    <3> QED
      BY <2>1, <2>3, <2>4, <3>1 DEF Fits, Decisive
  <2>6. ASSUME NEW s \in Requests \ {r}
        PROVE  Fits(s)'
    <3>1. CASE outcome[s] # None
      <4> DEFINE maker == outcome[s].by
      <4>1. maker \in Requests /\ maker # r
        BY <1>0, <2>3, <3>1, MakerType DEF Fits
      <4> QED
        BY <1>0, <2>1, <2>4, <3>1, <4>1 DEF Fits
    <3>2. CASE outcome[s] = None
      BY <1>0, <2>4, <3>2 DEF Fits
    <3> QED
      BY <3>1, <3>2
  <2> QED
    BY <2>5, <2>6
<1> QED
  BY <1>3, <1>4, <1>5, <1>6, <1>7 DEF Contract!Next

(* What a caller may conclude from the contract, and so from get_quote: an *)
(* answer that is not the call's own was made for the same key by a call   *)
(* that answered the same, is no unexpected exception, and its maker had   *)
(* not ended longer than the time to live before this call began.          *)
THEOREM AnswersAreJustified == Spec => []Contract!Justified
<1>1. Contract!Justified /\ IInv /\ IInv' /\ [Next]_vars => Contract!Justified'
  BY ContractStep, JustifiedStep
<1> QED
  BY <1>1, JustifiedInit, Invariance, PTL DEF Spec

=============================================================================
