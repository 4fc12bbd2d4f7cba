--------------------------- MODULE QuotePathProofs ---------------------------
(* Theorems about QuotePath for any requests, keys, symbols, times to live *)
(* and timeouts: with the client under it get_quote is still the get_quote *)
(* of module QuoteService, and what the second cache adds to a quote's age *)
(* and spares in queries is bounded.                                       *)
EXTENDS QuotePath, QuoteServiceProofs

-----------------------------------------------------------------------------
(* The inductive invariant, on top of that of QuoteService.                *)

(* A call of symbol_info_tick belongs to a resolution or a fetch, and the  *)
(* tick it returns was live when get_quote began, or came later.           *)
Placed ==
  \A r \in Requests :
    /\ call[r] # "none" => pc[r] \in {"resolve", "fetch"} /\ tries[r] \in 0..2
    /\ call[r] \in {"store", "return"} => tick[r] # None
    /\ call[r] = "return" => begun[r] <= tick[r] + QuoteTtl
    /\ pc[r] \in Early => firstTick[r] = None

(* No entry outlives its tick by more than the time to live.               *)
TicksExpire ==
  \A s \in Symbols : tickCache[s] # None =>
    tickCache[s].expires <= tickCache[s].tick + QuoteTtl

(* Whoever made a quote made it of such a tick.                            *)
OfAge(o) == pc[o] # "idle" /\ basis[o] # None /\ begun[o] <= basis[o] + QuoteTtl

QuotesOfAge ==
  \A r \in Requests :
    (outcome[r] # None /\ outcome[r].kind = "quote") => OfAge(outcome[r].by)

(* Who is done has an answer.                                              *)
Answered == \A r \in Requests : pc[r] = "done" => outcome[r] \in Outcomes

(* The tick of a resolution is in the cache as long as it is live and no   *)
(* other was put in its place.                                             *)
Holds(r) ==
  /\ firstTick[r] # None
  /\ pc[r] \in {"resolve", "fetch"} /\ ~(pc[r] = "fetch" /\ call[r] = "return")
  /\ storedLast[SymbolFor(r)] = r
  /\ now <= firstTick[r]

FirstKept ==
  \A r \in Requests : Holds(r) =>
    tickCache[SymbolFor(r)] # None /\ tickCache[SymbolFor(r)].expires = firstTick[r]

(* The lock is held by a call that is in its session with the desk.        *)
LockHeld == rtdLock # None => call[rtdLock] = "desk"

(* The flight a call waits for was opened by a call that works on it or is *)
(* done.                                                                   *)
OwnersWork ==
  \A r \in Requests : pc[r] = "wait" => pc[inflight[r]] \in Busy \cup {"done"}

PathIInv ==
  /\ IInv
  /\ PathTypeOK
  /\ Placed
  /\ TicksExpire
  /\ QuotesOfAge /\ Answered
  /\ LockHeld /\ OwnersWork
  /\ QuoteTtl > 0 => FirstKept

-----------------------------------------------------------------------------
(* To QuoteService every step is one of its own, or none.                  *)

DeskStep(r) ==
  \/ TickHit(r) \/ TickMiss(r) \/ AcquireRtdLock(r)
  \/ DeskAnswers(r) \/ DeskHasNothing(r) \/ StoreTick(r)

EndStep(r) ==
  \/ ResolveKnown(r) \/ ResolveByTick(r) \/ NotFound(r)
  \/ FetchByTick(r) \/ NoTick(r) \/ DeskFails(r)

LEMMA ServiceOf ==
  ASSUME [PathNext]_pathVars
  PROVE  [Next]_vars
<1>1. ASSUME NEW r \in Requests, PathStep(r)
      PROVE  [Next]_vars
  <2>1. CASE DeskStep(r)
    BY <2>1 DEF DeskStep, TickHit, TickMiss, AcquireRtdLock, DeskAnswers, DeskHasNothing, StoreTick
  <2>2. CASE EndStep(r)
    <3>1. Own(r)
      BY <2>2 DEF EndStep, ResolveKnown, ResolveByTick, NotFound, FetchByTick, NoTick,
         DeskFails, Own
    <3> QED
      BY <3>1 DEF Next, GetQuote
  <2> QED
    BY <1>1, <2>1, <2>2 DEF PathStep, DeskStep, EndStep
<1>2. ASSUME NEW r \in Requests, ServiceStep(r)
      PROVE  [Next]_vars
  <2>1. GetQuote(r)
    BY <1>2 DEF ServiceStep, GetQuote, Own
  <2> QED
    BY <2>1 DEF Next
<1>3. CASE Tick \/ AllReturned \/ UNCHANGED pathVars
  BY <1>3 DEF Next, pathVars
<1> QED
  BY <1>1, <1>2, <1>3 DEF PathNext

-----------------------------------------------------------------------------
(* What the steps do to a request.                                         *)

(* In the client get_quote stands still.                                   *)
LEMMA DeskFrame ==
  ASSUME PathTypeOK, NEW r \in Requests, DeskStep(r)
  PROVE  /\ UNCHANGED vars /\ basis' = basis
         /\ \A q \in Requests \ {r} :
              call'[q] = call[q] /\ tries'[q] = tries[q] /\ tick'[q] = tick[q]
         /\ firstTick' = firstTick \/ StoreTick(r)
         /\ storedLast' = storedLast \/ StoreTick(r)
         /\ tickCache' = tickCache \/ TickMiss(r) \/ StoreTick(r)
  BY DEF DeskStep, TickHit, TickMiss, AcquireRtdLock, DeskAnswers, DeskHasNothing, StoreTick,
     Move, PathTypeOK, desk, history

(* A call that goes to another location of get_quote, with nothing decided *)
(* of it but by itself.                                                    *)
LEMMA ServiceFrame ==
  ASSUME TypeOK, NEW r \in Requests, GetQuote(r)
  PROVE  /\ now' = now
         /\ \A q \in Requests \ {r} :
              pc'[q] = pc[q] /\ begun'[q] = begun[q] /\ outcome'[q] = outcome[q]
         /\ pc'[r] # "idle"
         /\ pc'[r] \in Early => pc[r] \in Early
         /\ begun' = begun \/ Start(r)
<1> USE DEF TypeOK, Go, Settle, Early
<1>1. CASE Lookup(r)
  BY <1>1 DEF Lookup, Start, QuoteHit, QuoteMiss, NegativeHit, NegativeMiss, answers
<1>2. CASE Wait(r)
  BY <1>2 DEF Wait, JoinFlight, WaitWoken, WaitExpired, WaitStoreNegative, DropStale, answers
<1>3. CASE Own(r)
  BY <1>3 DEF Own, OpenFlight, ResolveSucceeds, ResolveFails, FetchSucceeds, FetchTimesOut,
     FetchFails, StoreQuote, StoreNegative, Publish, Release, answers
<1> QED
  BY <1>1, <1>2, <1>3 DEF GetQuote

(* The end of a resolution or a fetch.                                     *)
LEMMA EndFrame ==
  ASSUME TypeOK, PathTypeOK, NEW r \in Requests, EndStep(r)
  PROVE  /\ Own(r) /\ pc[r] \in {"resolve", "fetch"}
         /\ UNCHANGED <<tickCache, storedLast>>
         /\ Return(r)
         /\ pc'[r] = "fetch" => pc[r] = "resolve"
         /\ pc'[r] # "resolve"
         /\ (basis' = basis /\ firstTick' = firstTick) \/ FetchByTick(r)
<1> USE DEF EndStep
<1>1. Own(r) /\ UNCHANGED <<tickCache, storedLast>> /\ Return(r)
  BY DEF ResolveKnown, ResolveByTick, NotFound, FetchByTick, NoTick,
     DeskFails, Own, desk, history
<1>2. /\ pc[r] \in {"resolve", "fetch"} /\ pc'[r] # "resolve"
      /\ pc'[r] = "fetch" => pc[r] = "resolve"
  BY DEF ResolveKnown, ResolveByTick, NotFound, FetchByTick, NoTick, DeskFails,
     ResolveSucceeds, ResolveFails, FetchSucceeds, FetchFails, FetchTimesOut, Go, TypeOK
<1>3. (basis' = basis /\ firstTick' = firstTick) \/ FetchByTick(r)
  BY DEF ResolveKnown, ResolveByTick, NotFound, NoTick, DeskFails, history
<1> QED
  BY <1>1, <1>2, <1>3

LEMMA ServiceStepFrame ==
  ASSUME TypeOK, NEW r \in Requests, ServiceStep(r)
  PROVE  /\ GetQuote(r) /\ UNCHANGED <<tickCalls, desk, history>>
         /\ pc[r] \notin {"resolve", "fetch"} /\ pc'[r] # "fetch" /\ ~FetchSucceeds(r)
<1>1. GetQuote(r) /\ UNCHANGED <<tickCalls, desk, history>>
  BY DEF ServiceStep, GetQuote, Own
<1>2. pc[r] \notin {"resolve", "fetch"} /\ pc'[r] # "fetch" /\ ~FetchSucceeds(r)
  BY DEF ServiceStep, Lookup, Start, QuoteHit, QuoteMiss, NegativeHit, NegativeMiss, Wait,
     JoinFlight, WaitWoken, WaitExpired, WaitStoreNegative, DropStale, OpenFlight, StoreQuote,
     StoreNegative, Publish, Release, FetchSucceeds, Go, TypeOK
<1> QED
  BY <1>1, <1>2

-----------------------------------------------------------------------------
(* Types.                                                                  *)

LEMMA CachedTick ==
  ASSUME PathTypeOK, NEW s \in Symbols, tickCache[s] # None
  PROVE  tickCache[s].expires \in Nat /\ tickCache[s].tick \in Nat
  BY DEF PathTypeOK, TickEntries

LEMMA DeskTypeStep ==
  ASSUME TypeOK, PathTypeOK, Placed, NEW r \in Requests, DeskStep(r)
  PROVE  PathTypeOK'
<1> USE PathAssumption, ConstantsAssumption DEF PathTypeOK, Move
<1>1. CASE TickHit(r)
  <2>1. tickCache[SymbolFor(r)].tick \in Nat
    BY <1>1, CachedTick DEF TickHit, StillLive, SymbolFor
  <2> QED
    BY <1>1, <2>1 DEF TickHit, desk, history
<1>2. CASE TickMiss(r) \/ AcquireRtdLock(r)
  BY <1>2 DEF TickMiss, AcquireRtdLock, history
<1>3. CASE DeskAnswers(r)
  BY <1>3 DEF DeskAnswers, TypeOK, history
<1>4. CASE DeskHasNothing(r)
  <2> DEFINE n == tries[r] + 1
  <2>1. n \in 0..3
    BY <1>4 DEF DeskHasNothing, Placed
  <2>2. tries' = [tries EXCEPT ![r] = n]
    BY <1>4 DEF DeskHasNothing
  <2> HIDE DEF n
  <2> QED
    BY <1>4, <2>1, <2>2 DEF DeskHasNothing, TypeOK, history
<1>5. CASE StoreTick(r)
  <2>1. tick[r] \in Nat /\ now \in Nat
    BY <1>5 DEF StoreTick, Placed, TypeOK
  <2>2. PICK t \in tick[r]..now :
          /\ tickCache' =
               IF QuoteTtl > 0
               THEN [tickCache EXCEPT ![SymbolFor(r)] = [expires |-> t + QuoteTtl, tick |-> now]]
               ELSE tickCache
          /\ firstTick' = IF pc[r] = "resolve"
                          THEN [firstTick EXCEPT ![r] = t + QuoteTtl] ELSE firstTick
    BY <1>5 DEF StoreTick
  <2> DEFINE x == t + QuoteTtl
             entry == [expires |-> x, tick |-> now]
  <2>3. x \in Nat
    BY <2>1, <2>2
  <2>4. entry \in TickEntries
    BY <2>1, <2>3 DEF TickEntries
  <2>5. /\ tickCache' = IF QuoteTtl > 0 THEN [tickCache EXCEPT ![SymbolFor(r)] = entry]
                                        ELSE tickCache
        /\ firstTick' = IF pc[r] = "resolve" THEN [firstTick EXCEPT ![r] = x] ELSE firstTick
    BY <2>2
  <2> HIDE DEF x, entry
  <2>6. tickCache' \in [Symbols -> TickEntries \cup {None}]
        /\ firstTick' \in [Requests -> Nat \cup {None}]
    BY <2>3, <2>4, <2>5
  <2>7. storedLast' \in [Symbols -> Requests \cup {None}]
    BY <1>5 DEF StoreTick
  <2> QED
    BY <1>5, <2>1, <2>6, <2>7 DEF StoreTick
<1> QED
  BY <1>1, <1>2, <1>3, <1>4, <1>5 DEF DeskStep

LEMMA PathTypeStep ==
  ASSUME TypeOK, PathTypeOK, Placed, [PathNext]_pathVars
  PROVE  PathTypeOK'
<1>1. ASSUME NEW r \in Requests, EndStep(r)
      PROVE  PathTypeOK'
  <2>1. Return(r) /\ UNCHANGED <<tickCache, storedLast>>
    BY <1>1, EndFrame
  <2>2. known' \subseteq Symbols /\ rtdLock' \in Requests \cup {None}
    <3>1. \/ UNCHANGED <<known, rtdLock>>
          \/ known' = known \cup {SymbolFor(r)} /\ rtdLock' = rtdLock
          \/ known' = known /\ rtdLock' = None
      BY <1>1 DEF EndStep, ResolveKnown, ResolveByTick, NotFound, FetchByTick, NoTick,
         DeskFails, desk
    <3>2. SymbolFor(r) \in Symbols
      BY PathAssumption, ConstantsAssumption DEF SymbolFor
    <3> QED
      BY <3>1, <3>2 DEF PathTypeOK
  <2>3. basis' \in [Requests -> Nat \cup {None}] /\ firstTick' \in [Requests -> Nat \cup {None}]
    BY <1>1, EndFrame DEF FetchByTick, PathTypeOK
  <2>4. /\ call' \in [Requests -> {"none", "rtd_lock", "desk", "store", "return"}]
        /\ called' \in [Requests -> Nat] /\ tries' \in [Requests -> 0..3]
        /\ tick' \in [Requests -> Nat \cup {None}]
    BY <2>1 DEF Return, PathTypeOK
  <2> QED
    BY <2>1, <2>2, <2>3, <2>4 DEF PathTypeOK
<1>2. ASSUME NEW r \in Requests, ServiceStep(r)
      PROVE  PathTypeOK'
  BY <1>2 DEF ServiceStep, tickCalls, desk, history, PathTypeOK
<1>3. CASE UNCHANGED <<tickCalls, desk, history>>
  BY <1>3 DEF tickCalls, desk, history, PathTypeOK
<1> QED
  BY <1>1, <1>2, <1>3, DeskTypeStep DEF PathNext, PathStep, DeskStep, EndStep, pathVars

-----------------------------------------------------------------------------
(* The age of ticks and quotes.                                            *)

LEMMA PlacedStep ==
  ASSUME TypeOK, Timely, PathTypeOK, Placed, TicksExpire, [PathNext]_pathVars
  PROVE  Placed'
<1>0. \A r \in Requests : begun[r] \in Nat /\ since[r] \in Nat /\ begun[r] <= since[r]
                          /\ since[r] <= now /\ called[r] \in Nat
  BY DEF TypeOK, Timely, PathTypeOK
<1>1. ASSUME NEW r \in Requests, DeskStep(r)
      PROVE  Placed'
  <2>1. /\ UNCHANGED vars
        /\ \A q \in Requests \ {r} :
             call'[q] = call[q] /\ tries'[q] = tries[q] /\ tick'[q] = tick[q]
    BY <1>1, DeskFrame
  <2>2. SUFFICES /\ call'[r] # "none" => pc[r] \in {"resolve", "fetch"} /\ tries'[r] \in 0..2
                 /\ call'[r] \in {"store", "return"} => tick'[r] # None
                 /\ call'[r] = "return" => begun[r] <= tick'[r] + QuoteTtl
    <3>1. \A q \in Requests : pc[q] \in Early => firstTick'[q] = firstTick[q]
      BY <1>1, DeskFrame DEF StoreTick, Move, Placed, Early, PathTypeOK
    <3> QED
      BY <2>1, <3>1 DEF Placed, vars
  <2>3. Calls(r) => pc[r] \in {"resolve", "fetch"} /\ tries[r] \in 0..2
    BY DEF Calls, PathTypeOK
  <2>4. CASE TickHit(r)
    <3>1. /\ call'[r] = "return" /\ tries' = tries /\ tick'[r] = tickCache[SymbolFor(r)].tick
          /\ Calls(r)
      BY <2>4 DEF TickHit, Move, PathTypeOK
    <3>2. PICK t \in LookUpTimes(r) : StillLive(tickCache[SymbolFor(r)], t)
      BY <2>4 DEF TickHit
    <3>3. t >= since[r] /\ t \in Int
      BY <1>0, <3>2 DEF LookUpTimes, Later, TypeOK
    <3>4. /\ tickCache[SymbolFor(r)].expires >= t
          /\ tickCache[SymbolFor(r)].expires <= tickCache[SymbolFor(r)].tick + QuoteTtl
          /\ tickCache[SymbolFor(r)].expires \in Nat /\ tickCache[SymbolFor(r)].tick \in Nat
      BY <3>2, CachedTick, PathAssumption, ConstantsAssumption DEF StillLive, TicksExpire, SymbolFor
    <3>5. tick'[r] # None
      BY <3>1, <3>4, PathAssumption
    <3>6. begun[r] <= tick'[r] + QuoteTtl
      BY <1>0, <3>1, <3>3, <3>4, ConstantsAssumption
    <3> QED
      BY <2>3, <3>1, <3>5, <3>6
  <2>5. CASE TickMiss(r) \/ AcquireRtdLock(r)
    BY <2>3, <2>5 DEF TickMiss, AcquireRtdLock, Move, PathTypeOK, Placed
  <2>6. CASE DeskAnswers(r)
    <3>1. now # None
      BY PathAssumption DEF TypeOK
    <3> QED
      BY <2>6, <3>1 DEF DeskAnswers, Move, PathTypeOK, Placed
  <2>7. CASE DeskHasNothing(r)
    BY <2>7 DEF DeskHasNothing, Move, PathTypeOK
  <2>8. CASE StoreTick(r)
    <3>1. call'[r] = "return" /\ tick'[r] = now /\ tries' = tries /\ call[r] = "store"
      BY <2>8 DEF StoreTick, Move, PathTypeOK
    <3>2. now # None /\ begun[r] <= now + QuoteTtl
      BY <1>0, PathAssumption, ConstantsAssumption DEF TypeOK
    <3> QED
      BY <3>1, <3>2 DEF Placed
  <2> QED
    BY <1>1, <2>4, <2>5, <2>6, <2>7, <2>8 DEF DeskStep
<1>2. ASSUME NEW r \in Requests, EndStep(r)
      PROVE  Placed'
  <2>1. GetQuote(r) /\ pc[r] # "idle" /\ Return(r)
    BY <1>2, EndFrame DEF GetQuote
  <2>2. \A q \in Requests \ {r} : pc'[q] = pc[q] /\ begun'[q] = begun[q]
    BY <2>1, ServiceFrame
  <2>3. \A q \in Requests : pc'[q] \in Early => pc[q] \in Early
    BY <2>1, <2>2, ServiceFrame
  <2>4. \A q \in Requests : firstTick'[q] = firstTick[q] \/ firstTick'[q] = None
    BY <1>2, EndFrame DEF FetchByTick, PathTypeOK
  <2>5. /\ call'[r] = "none"
        /\ \A q \in Requests \ {r} :
             call'[q] = call[q] /\ tries'[q] = tries[q] /\ tick'[q] = tick[q]
    BY <2>1 DEF Return, PathTypeOK
  <2> QED
    BY <2>2, <2>3, <2>4, <2>5 DEF Placed
<1>3. ASSUME NEW r \in Requests, ServiceStep(r)
      PROVE  Placed'
  <2>1. call[r] = "none" /\ UNCHANGED tickCalls
    BY <1>3, ServiceStepFrame DEF Placed
  <2>2. \A q \in Requests \ {r} : pc'[q] = pc[q] /\ begun'[q] = begun[q]
    BY <1>3, ServiceStepFrame, ServiceFrame
  <2>3. \A q \in Requests : pc'[q] \in Early => pc[q] \in Early /\ firstTick' = firstTick
    BY <1>3, <2>2, ServiceStepFrame, ServiceFrame DEF history
  <2> QED
    BY <2>1, <2>2, <2>3 DEF Placed, tickCalls
<1>4. CASE (Tick \/ AllReturned \/ UNCHANGED vars) /\ UNCHANGED <<tickCalls, history>>
  BY <1>4 DEF Tick, AllReturned, vars, tickCalls, history, Placed
<1> QED
  BY <1>1, <1>2, <1>3, <1>4 DEF PathNext, PathStep, DeskStep, EndStep, pathVars

LEMMA TicksExpireStep ==
  ASSUME TypeOK, PathTypeOK, Placed, TicksExpire, [PathNext]_pathVars
  PROVE  TicksExpire'
<1>1. CASE UNCHANGED tickCache
  BY <1>1 DEF TicksExpire
<1>2. ASSUME NEW r \in Requests, TickMiss(r)
      PROVE  TicksExpire'
  BY <1>2 DEF TickMiss, PathTypeOK, TicksExpire
<1>3. ASSUME NEW r \in Requests, StoreTick(r)
      PROVE  TicksExpire'
  <2>1. PICK t \in tick[r]..now :
          tickCache' =
            IF QuoteTtl > 0
            THEN [tickCache EXCEPT ![SymbolFor(r)] = [expires |-> t + QuoteTtl, tick |-> now]]
            ELSE tickCache
    BY <1>3 DEF StoreTick
  <2>2. tick[r] \in Nat /\ now \in Nat
    BY <1>3 DEF StoreTick, Move, Placed, TypeOK, PathTypeOK
  <2> DEFINE x == t + QuoteTtl
             entry == [expires |-> x, tick |-> now]
  <2>3. entry.expires <= entry.tick + QuoteTtl
    BY <2>1, <2>2, ConstantsAssumption
  <2> HIDE DEF entry
  <2>4. \A s \in Symbols : tickCache'[s] = tickCache[s] \/ tickCache'[s] = entry
    BY <2>1 DEF PathTypeOK, entry
  <2> QED
    BY <2>3, <2>4 DEF TicksExpire
<1>4. UNCHANGED tickCache \/ \E r \in Requests : TickMiss(r) \/ StoreTick(r)
  <2>1. ASSUME NEW r \in Requests, DeskStep(r)
        PROVE  UNCHANGED tickCache \/ TickMiss(r) \/ StoreTick(r)
    BY <2>1, DeskFrame
  <2>2. ASSUME NEW r \in Requests, EndStep(r) \/ ServiceStep(r)
        PROVE  UNCHANGED tickCache
    BY <2>2, EndFrame, ServiceStepFrame DEF desk
  <2> QED
    BY <2>1, <2>2 DEF PathNext, PathStep, DeskStep, EndStep, pathVars, desk
<1> QED
  BY <1>1, <1>2, <1>3, <1>4

(* A quote is either made by the call that fetched it or handed on as it   *)
(* was made.                                                               *)
LEMMA QuoteMade ==
  ASSUME IInv, NEW r \in Requests, GetQuote(r)
  PROVE  \/ outcome'[r] = outcome[r]
         \/ \E o \in Requests : outcome'[r] = outcome[o]
         \/ outcome'[r].kind # "quote"
         \/ FetchSucceeds(r) /\ outcome'[r].by = r
<1> USE DEF Settle
<1>0. TypeOK /\ Flying /\ Published /\ CachesBacked
  BY DEF IInv
<1>1. ASSUME NEW o, NEW how, Settle(r, o, how)
      PROVE  outcome'[r] = o
  BY <1>0, <1>1 DEF TypeOK
<1>2. ASSUME NEW kind \in Kinds \ {"quote"}, NEW how, Settle(r, Made(kind, r), how)
      PROVE  outcome'[r].kind # "quote"
  BY <1>1, <1>2 DEF Made
<1>3. CASE Lookup(r)
  <2>1. CASE QuoteHit(r)
    <3>1. PICK t : Live(quoteCache, KeyOf[r], QuoteTtl, t)
      BY <2>1 DEF QuoteHit
    <3>2. quoteCache[KeyOf[r]].outcome \in Outcomes /\ quoteCache[KeyOf[r]] # None
      BY <1>0, <3>1, LiveType, ConstantsAssumption DEF TypeOK, Live
    <3>3. quoteCache[KeyOf[r]].outcome.by \in Requests
      BY <3>2 DEF Outcomes
    <3>4. quoteCache[KeyOf[r]].outcome = outcome[quoteCache[KeyOf[r]].outcome.by]
      BY <1>0, <3>2, ConstantsAssumption DEF CachesBacked, Backed
    <3>5. outcome'[r] = quoteCache[KeyOf[r]].outcome
      BY <1>1, <2>1 DEF QuoteHit
    <3> QED
      BY <3>3, <3>4, <3>5
  <2>2. CASE NegativeHit(r)
    <3>1. PICK t : Live(negativeCache, KeyOf[r], NegativeTtl, t)
      BY <2>2 DEF NegativeHit
    <3>2. negativeCache[KeyOf[r]].outcome \in Outcomes /\ negativeCache[KeyOf[r]] # None
      BY <1>0, <3>1, LiveType, ConstantsAssumption DEF TypeOK, Live
    <3>3. negativeCache[KeyOf[r]].outcome.by \in Requests
      BY <3>2 DEF Outcomes
    <3>4. negativeCache[KeyOf[r]].outcome = outcome[negativeCache[KeyOf[r]].outcome.by]
      BY <1>0, <3>2, ConstantsAssumption DEF CachesBacked, Backed
    <3>5. outcome'[r] = negativeCache[KeyOf[r]].outcome
      BY <1>1, <2>2 DEF NegativeHit
    <3> QED
      BY <3>3, <3>4, <3>5
  <2>3. CASE Start(r) \/ QuoteMiss(r) \/ NegativeMiss(r)
    BY <2>3 DEF Start, QuoteMiss, NegativeMiss, answers
  <2> QED
    BY <1>3, <2>1, <2>2, <2>3 DEF Lookup
<1>4. CASE Wait(r)
  <2>1. CASE WaitWoken(r)
    <3> DEFINE o == inflight[r]
    <3>1. o \in Requests /\ event[o]
      BY <1>0, <2>1 DEF WaitWoken, Go, Flying, Waiting
    <3>2. CASE shared[o] # None
      <4>1. shared[o] = outcome[o]
        BY <1>0, <3>1, <3>2 DEF Published
      <4>2. outcome'[r] = shared[o]
        BY <1>1, <2>1, <3>2 DEF WaitWoken
      <4> QED
        BY <3>1, <4>1, <4>2
    <3>3. CASE shared[o] = None
      <4>1. Settle(r, Made("unavailable", r), "flight")
        BY <2>1, <3>3 DEF WaitWoken
      <4> QED
        BY <1>2, <4>1 DEF Kinds
    <3> QED
      BY <3>2, <3>3
  <2>2. CASE WaitExpired(r)
    BY <1>2, <2>2 DEF WaitExpired, Kinds
  <2>3. CASE JoinFlight(r) \/ WaitStoreNegative(r) \/ DropStale(r)
    BY <2>3 DEF JoinFlight, WaitStoreNegative, DropStale, answers
  <2> QED
    BY <1>4, <2>1, <2>2, <2>3 DEF Wait
<1>5. CASE Own(r)
  <2>1. CASE ResolveFails(r) \/ FetchFails(r)
    <3>1. PICK kind \in Kinds \ {"quote"}, how \in {"resolve", "fetch"} :
            Settle(r, Made(kind, r), how)
      <4> HIDE DEF Settle
      <4> QED
        BY <2>1 DEF ResolveFails, FetchFails, Kinds
    <3> QED
      BY <1>2, <3>1
  <2>2. CASE FetchTimesOut(r)
    BY <1>2, <2>2 DEF FetchTimesOut, Kinds
  <2>3. CASE FetchSucceeds(r)
    BY <1>1, <2>3 DEF FetchSucceeds, Made
  <2>4. CASE OpenFlight(r) \/ ResolveSucceeds(r) \/ StoreQuote(r) \/ StoreNegative(r)
             \/ Publish(r) \/ Release(r)
    BY <2>4 DEF OpenFlight, ResolveSucceeds, StoreQuote, StoreNegative, Publish, Release, answers
  <2> QED
    BY <1>5, <2>1, <2>2, <2>3, <2>4 DEF Own
<1> QED
  BY <1>3, <1>4, <1>5 DEF GetQuote

LEMMA QuotesOfAgeStep ==
  ASSUME IInv, PathTypeOK, Placed, QuotesOfAge, [PathNext]_pathVars
  PROVE  QuotesOfAge'
<1>0. TypeOK /\ TypeOK'
  BY ServiceOf, InvStep DEF IInv
<1>1. ASSUME UNCHANGED <<pc, begun, outcome, basis>>
      PROVE  QuotesOfAge'
  BY <1>1 DEF QuotesOfAge, OfAge
<1>2. ASSUME NEW r \in Requests, GetQuote(r), basis' = basis \/ FetchByTick(r),
             FetchSucceeds(r) => FetchByTick(r)
      PROVE  QuotesOfAge'
  <2>1. /\ \A q \in Requests \ {r} :
             pc'[q] = pc[q] /\ begun'[q] = begun[q] /\ outcome'[q] = outcome[q]
        /\ pc'[r] # "idle" /\ (begun' = begun \/ Start(r))
    BY <1>0, <1>2, ServiceFrame
  <2>2. FetchByTick(r) => OfAge(r)'
    <3>1. SUFFICES ASSUME FetchByTick(r) PROVE OfAge(r)'
      OBVIOUS
    <3>2. call[r] = "return" /\ basis'[r] = tick[r] /\ begun' = begun
      BY <3>1 DEF FetchByTick, FetchSucceeds, PathTypeOK
    <3> QED
      BY <2>1, <3>2 DEF Placed, OfAge
  <2>3. \A o \in Requests : OfAge(o) => OfAge(o)'
    <3>1. SUFFICES ASSUME NEW o \in Requests, OfAge(o) PROVE OfAge(o)'
      OBVIOUS
    <3>2. begun'[o] = begun[o] /\ pc'[o] # "idle"
      BY <2>1, <3>1 DEF OfAge, Start, Go
    <3>3. basis'[o] = basis[o] \/ (o = r /\ FetchByTick(r))
      BY <1>2 DEF FetchByTick, PathTypeOK
    <3> QED
      BY <2>2, <3>1, <3>2, <3>3 DEF OfAge
  <2>4. SUFFICES ASSUME NEW q \in Requests, outcome'[q] # None, outcome'[q].kind = "quote"
                 PROVE  OfAge(outcome[q].by)'
    BY DEF QuotesOfAge
  <2>5. ASSUME NEW o \in Requests, outcome'[q] = outcome[o]
        PROVE  OfAge(outcome[q].by)'
    <3>1. PICK m \in Requests : m = outcome[o].by
      BY <1>0, <2>4, <2>5 DEF TypeOK, Outcomes
    <3>2. OfAge(m)
      BY <2>4, <2>5, <3>1 DEF QuotesOfAge
    <3>3. OfAge(m)' /\ outcome'[q].by = m
      BY <2>3, <2>5, <3>1, <3>2
    <3> QED
      BY <3>3 DEF OfAge
  <2>6. CASE q = r /\ FetchSucceeds(r) /\ outcome'[r].by = r
    BY <1>2, <2>2, <2>6 DEF OfAge
  <2> QED
    BY <1>2, <2>1, <2>4, <2>5, <2>6, QuoteMade
<1>3. ASSUME NEW r \in Requests, DeskStep(r)
      PROVE  QuotesOfAge'
  BY <1>1, <1>3, DeskFrame DEF vars
<1>4. ASSUME NEW r \in Requests, EndStep(r)
      PROVE  QuotesOfAge'
  <2>1. FetchSucceeds(r) => FetchByTick(r)
    BY <1>0, <1>4 DEF EndStep, ResolveKnown, ResolveByTick, NotFound, NoTick, DeskFails,
       ResolveSucceeds, ResolveFails, FetchSucceeds, FetchFails, FetchTimesOut, Go, TypeOK
  <2> QED
    BY <1>0, <1>2, <1>4, <2>1, EndFrame DEF GetQuote
<1>5. ASSUME NEW r \in Requests, ServiceStep(r)
      PROVE  QuotesOfAge'
  BY <1>0, <1>2, <1>5, ServiceStepFrame DEF history
<1>6. CASE (Tick \/ AllReturned \/ UNCHANGED vars) /\ UNCHANGED history
  BY <1>1, <1>6 DEF Tick, AllReturned, vars, answers, history
<1> QED
  BY <1>3, <1>4, <1>5, <1>6 DEF PathNext, PathStep, DeskStep, EndStep, pathVars

-----------------------------------------------------------------------------
(* The tick of the resolution.                                             *)

LEMMA ResolveFromAcquire ==
  ASSUME TypeOK, NEW r \in Requests, ServiceStep(r), pc'[r] = "resolve"
  PROVE  pc[r] \in Early
  BY DEF ServiceStep, Lookup, Start, QuoteHit, QuoteMiss, NegativeHit, NegativeMiss, Wait,
     JoinFlight, WaitWoken, WaitExpired, WaitStoreNegative, DropStale, OpenFlight, StoreQuote,
     StoreNegative, Publish, Release, Go, TypeOK, Early

LEMMA FirstKeptStep ==
  ASSUME QuoteTtl > 0, TypeOK, PathTypeOK, Placed, FirstKept, [PathNext]_pathVars
  PROVE  FirstKept'
<1>0. \A r \in Requests : SymbolFor(r) \in Symbols
  BY PathAssumption, ConstantsAssumption DEF SymbolFor
<1>1. ASSUME UNCHANGED <<tickCache, storedLast>>, now' \in Nat, now <= now',
             \A r \in Requests : Holds(r)' => firstTick'[r] = firstTick[r] /\ Holds(r)
      PROVE  FirstKept'
  BY <1>1 DEF FirstKept, SymbolFor
<1>2. ASSUME NEW r \in Requests, StoreTick(r)
      PROVE  FirstKept'
  <2>1. UNCHANGED vars /\ call[r] = "store" /\ call'[r] = "return"
        /\ storedLast' = [storedLast EXCEPT ![SymbolFor(r)] = r]
    BY <1>2 DEF StoreTick, Move, PathTypeOK
  <2>2. PICK t \in tick[r]..now :
          /\ tickCache' = [tickCache EXCEPT ![SymbolFor(r)] = [expires |-> t + QuoteTtl, tick |-> now]]
          /\ firstTick' = IF pc[r] = "resolve"
                          THEN [firstTick EXCEPT ![r] = t + QuoteTtl] ELSE firstTick
    BY <1>2 DEF StoreTick
  <2> DEFINE entry == [expires |-> t + QuoteTtl, tick |-> now]
  <2>3. entry \in TickEntries
    BY <1>2, <2>1, ConstantsAssumption DEF TickEntries, TypeOK, PathTypeOK, Placed
  <2>4. entry # None /\ entry.expires = t + QuoteTtl
    BY <2>3, PathAssumption
  <2> HIDE DEF entry
  <2>5. SUFFICES ASSUME NEW q \in Requests, Holds(q)'
                 PROVE  tickCache'[SymbolFor(q)] # None
                        /\ tickCache'[SymbolFor(q)].expires = firstTick'[q]
    BY DEF FirstKept, SymbolFor
  <2>6. CASE q = r
    <3>1. pc[r] = "resolve"
      BY <2>1, <2>5, <2>6 DEF Holds, vars
    <3>2. tickCache'[SymbolFor(r)] = entry /\ firstTick'[r] = t + QuoteTtl
      BY <1>0, <2>2, <3>1 DEF PathTypeOK, entry
    <3> QED
      BY <2>4, <2>6, <3>2
  <2>7. CASE q # r
    <3>1. SymbolFor(q) # SymbolFor(r)
      BY <1>0, <2>1, <2>5, <2>7 DEF Holds, PathTypeOK, SymbolFor
    <3>2. /\ tickCache'[SymbolFor(q)] = tickCache[SymbolFor(q)] /\ firstTick'[q] = firstTick[q]
          /\ storedLast'[SymbolFor(q)] = storedLast[SymbolFor(q)] /\ call'[q] = call[q]
      BY <1>0, <1>2, <2>1, <2>2, <2>7, <3>1 DEF PathTypeOK, StoreTick, Move
    <3>3. Holds(q)
      BY <2>1, <2>5, <3>2 DEF Holds, vars, SymbolFor
    <3> QED
      BY <3>2, <3>3 DEF FirstKept
  <2> QED
    BY <2>6, <2>7
(* A lookup that finds an entry expired finds it so after its time.        *)
<1>3. ASSUME NEW r \in Requests, TickMiss(r)
      PROVE  FirstKept'
  <2>1. PICK t \in LookUpTimes(r) : ~StillLive(tickCache[SymbolFor(r)], t)
    BY <1>3 DEF TickMiss
  <2>2. tickCache' = [tickCache EXCEPT ![SymbolFor(r)] = None] /\ UNCHANGED <<vars, history>>
    BY <1>3, ConstantsAssumption DEF TickMiss
  <2>3. SUFFICES ASSUME NEW q \in Requests, Holds(q)'
                 PROVE  tickCache'[SymbolFor(q)] # None
                        /\ tickCache'[SymbolFor(q)].expires = firstTick'[q]
    BY DEF FirstKept, SymbolFor
  <2>4. Holds(q) /\ firstTick'[q] = firstTick[q]
    BY <1>3, <2>2, <2>3 DEF Holds, vars, history, TickMiss, Move, PathTypeOK, SymbolFor
  <2>5. tickCache[SymbolFor(q)] # None /\ tickCache[SymbolFor(q)].expires = firstTick[q]
    BY <2>4 DEF FirstKept
  <2>6. t <= now /\ now <= firstTick[q] /\ t \in Int /\ firstTick[q] \in Nat
    BY <2>1, <2>4 DEF LookUpTimes, Later, Holds, PathTypeOK, TypeOK
  <2>7. SymbolFor(q) # SymbolFor(r)
    BY <2>1, <2>5, <2>6 DEF StillLive, TypeOK
  <2> QED
    BY <1>0, <2>2, <2>4, <2>5, <2>7 DEF PathTypeOK
<1>4. ASSUME NEW r \in Requests, DeskStep(r), ~StoreTick(r), ~TickMiss(r)
      PROVE  FirstKept'
  <2>1. /\ UNCHANGED <<vars, firstTick, storedLast, tickCache>>
        /\ \A q \in Requests \ {r} : call'[q] = call[q]
    BY <1>4, DeskFrame
  <2>2. pc[r] = "fetch" /\ call'[r] # "return" => call[r] # "return"
    BY <1>4 DEF DeskStep, TickHit, AcquireRtdLock, DeskAnswers, DeskHasNothing, Move, PathTypeOK
  <2>3. \A q \in Requests : Holds(q)' => Holds(q)
    BY <2>1, <2>2 DEF Holds, vars, SymbolFor
  <2> QED
    BY <1>1, <2>1, <2>3 DEF vars, TypeOK
<1>5. ASSUME NEW r \in Requests, EndStep(r)
      PROVE  FirstKept'
  <2>1. /\ GetQuote(r) /\ UNCHANGED <<tickCache, storedLast>> /\ Return(r)
        /\ pc[r] \in {"resolve", "fetch"} /\ (pc'[r] = "fetch" => pc[r] = "resolve")
        /\ pc'[r] # "resolve"
        /\ (firstTick' = firstTick \/ FetchByTick(r))
    BY <1>5, EndFrame DEF GetQuote
  <2>2. now' = now /\ \A q \in Requests \ {r} : pc'[q] = pc[q] /\ call'[q] = call[q]
    BY <2>1, ServiceFrame DEF Return, PathTypeOK
  <2>3. \A q \in Requests : firstTick'[q] = firstTick[q] \/ firstTick'[q] = None
    BY <2>1 DEF FetchByTick, PathTypeOK
  <2>4. \A q \in Requests : Holds(q)' => firstTick'[q] = firstTick[q] /\ Holds(q)
    BY <2>1, <2>2, <2>3 DEF Holds, SymbolFor
  <2> QED
    BY <1>1, <2>1, <2>2, <2>4 DEF TypeOK
<1>6. ASSUME NEW r \in Requests, ServiceStep(r)
      PROVE  FirstKept'
  <2>1. /\ GetQuote(r) /\ UNCHANGED <<tickCalls, desk, history>>
        /\ pc[r] \notin {"resolve", "fetch"} /\ pc'[r] # "fetch" /\ now' = now
    BY <1>6, ServiceStepFrame, ServiceFrame
  <2>2. \A q \in Requests \ {r} : pc'[q] = pc[q]
    BY <2>1, ServiceFrame
  <2>3. ~Holds(r)'
    BY <1>6, <2>1, ResolveFromAcquire DEF Holds, Placed, history
  <2>4. \A q \in Requests : Holds(q)' => firstTick'[q] = firstTick[q] /\ Holds(q)
    BY <2>1, <2>2, <2>3 DEF Holds, SymbolFor, tickCalls, history
  <2> QED
    BY <1>1, <2>1, <2>4 DEF desk, history, TypeOK
<1>7. CASE (Tick \/ AllReturned \/ UNCHANGED vars) /\ UNCHANGED <<tickCalls, desk, history>>
  <2>1. now' \in Nat /\ now <= now' /\ pc' = pc
    BY <1>7 DEF Tick, AllReturned, vars, TypeOK
  <2>2. \A r \in Requests : Holds(r)' => firstTick'[r] = firstTick[r] /\ Holds(r)
    BY <1>7, <2>1, PathAssumption DEF Holds, SymbolFor, tickCalls, desk, history, TypeOK, PathTypeOK
  <2> QED
    BY <1>1, <1>7, <2>1, <2>2 DEF desk, history
<1> QED
  BY <1>2, <1>3, <1>4, <1>5, <1>6, <1>7 DEF PathNext, PathStep, DeskStep, EndStep, pathVars

-----------------------------------------------------------------------------
(* Who waits for whom.                                                     *)

LEMMA LockHeldStep ==
  ASSUME TypeOK, PathTypeOK, LockHeld, [PathNext]_pathVars
  PROVE  LockHeld'
<1>1. ASSUME NEW r \in Requests, DeskStep(r)
      PROVE  LockHeld'
  <2>1. CASE AcquireRtdLock(r)
    BY <2>1 DEF AcquireRtdLock, Move, PathTypeOK, LockHeld
  <2>2. CASE DeskAnswers(r) \/ DeskHasNothing(r)
    BY <2>2 DEF DeskAnswers, DeskHasNothing, LockHeld
  <2>3. CASE TickHit(r) \/ TickMiss(r) \/ StoreTick(r)
    <3>1. rtdLock' = rtdLock /\ call[r] # "desk" /\ \A q \in Requests \ {r} : call'[q] = call[q]
      BY <2>3 DEF TickHit, TickMiss, StoreTick, Move, desk, PathTypeOK
    <3> QED
      BY <3>1 DEF PathTypeOK, LockHeld
  <2> QED
    BY <1>1, <2>1, <2>2, <2>3 DEF DeskStep
<1>2. ASSUME NEW r \in Requests, EndStep(r)
      PROVE  LockHeld'
  <2>1. rtdLock' = None \/ (rtdLock' = rtdLock /\ call[r] # "desk")
    BY <1>2 DEF EndStep, ResolveKnown, ResolveByTick, NotFound, FetchByTick, NoTick, DeskFails, desk
  <2>2. \A q \in Requests \ {r} : call'[q] = call[q]
    BY <1>2, EndFrame DEF Return, PathTypeOK
  <2> QED
    BY <2>1, <2>2 DEF PathTypeOK, LockHeld
<1>3. CASE UNCHANGED <<tickCalls, desk, history>>
  BY <1>3 DEF tickCalls, desk, LockHeld
<1> QED
  BY <1>1, <1>2, <1>3, ServiceStepFrame DEF PathNext, PathStep, DeskStep, EndStep, pathVars

LEMMA OwnersWorkStep ==
  ASSUME IInv, OwnersWork, [Next]_vars
  PROVE  OwnersWork'
<1>0. TypeOK /\ Flying /\ Table
  BY DEF IInv
<1>1. ASSUME NEW r \in Requests, GetQuote(r)
      PROVE  OwnersWork'
  <2>1. \A q \in Requests \ {r} : pc'[q] = pc[q] /\ inflight'[q] = inflight[q]
    <3> USE DEF TypeOK, Go
    <3>1. CASE Lookup(r)
      BY <1>0, <3>1 DEF Lookup, Start, QuoteHit, QuoteMiss, NegativeHit, NegativeMiss, flights
    <3>2. CASE Wait(r)
      BY <1>0, <3>2 DEF Wait, JoinFlight, WaitWoken, WaitExpired, WaitStoreNegative, DropStale, flights
    <3>3. CASE Own(r)
      BY <1>0, <3>3 DEF Own, OpenFlight, ResolveSucceeds, ResolveFails, FetchSucceeds, FetchTimesOut,
         FetchFails, StoreQuote, StoreNegative, Publish, Release, flights
    <3> QED
      BY <1>1, <3>1, <3>2, <3>3 DEF GetQuote
  <2>2. pc[r] # "done" /\ (pc[r] \in Busy => pc'[r] \in Busy \cup {"done"})
    BY <1>0, <1>1 DEF GetQuote, Lookup, Start, QuoteHit, QuoteMiss, NegativeHit, NegativeMiss, Wait,
       JoinFlight, WaitWoken, WaitExpired, WaitStoreNegative, DropStale, Own, OpenFlight,
       ResolveSucceeds, ResolveFails, FetchSucceeds, FetchTimesOut, FetchFails, StoreQuote,
       StoreNegative, Publish, Release, Go, TypeOK, Busy
  <2>3. pc'[r] = "wait" => JoinFlight(r)
    BY <1>0, <1>1 DEF GetQuote, Lookup, Start, QuoteHit, QuoteMiss, NegativeHit, NegativeMiss, Wait,
       WaitWoken, WaitExpired, WaitStoreNegative, DropStale, Own, OpenFlight,
       ResolveSucceeds, ResolveFails, FetchSucceeds, FetchTimesOut, FetchFails, StoreQuote,
       StoreNegative, Publish, Release, Go, TypeOK
  <2>4. \A o \in Requests : pc[o] \in Busy \cup {"done"} => pc'[o] \in Busy \cup {"done"}
    BY <2>1, <2>2
  <2>5. SUFFICES ASSUME NEW q \in Requests, pc'[q] = "wait"
                 PROVE  pc'[inflight'[q]] \in Busy \cup {"done"}
    BY DEF OwnersWork
  <2>6. CASE q = r
    <3>1. JoinFlight(r) /\ inflight'[r] = inflightQuotes[KeyOf[r]]
          /\ inflightQuotes[KeyOf[r]] \in Requests
      BY <1>0, <2>3, <2>5, <2>6, ConstantsAssumption DEF JoinFlight, TypeOK
    <3>2. pc[inflightQuotes[KeyOf[r]]] \in Busy \cup {"done"}
      BY <1>0, <3>1, ConstantsAssumption DEF Table
    <3> QED
      BY <2>4, <2>6, <3>1, <3>2
  <2>7. CASE q # r
    <3>1. pc[q] = "wait" /\ inflight'[q] = inflight[q] /\ inflight[q] \in Requests
      BY <1>0, <2>1, <2>5, <2>7 DEF Flying, Waiting
    <3> QED
      BY <2>4, <3>1 DEF OwnersWork
  <2> QED
    BY <2>6, <2>7
<1>2. CASE UNCHANGED <<pc, inflight>>
  BY <1>2 DEF OwnersWork
<1> QED
  BY <1>1, <1>2 DEF Next, Tick, AllReturned, vars, flights

-----------------------------------------------------------------------------
(* The invariant and what follows from it.                                 *)

LEMMA AnsweredStep ==
  ASSUME IInv, Answered, [PathNext]_pathVars
  PROVE  Answered'
<1>0. /\ TypeOK /\ TypeOK' /\ Decided /\ CachesBacked /\ Flying /\ Published
      /\ [Next]_vars
  BY ServiceOf, InvStep DEF IInv
<1>1. ASSUME NEW r \in Requests, GetQuote(r), pc'[r] = "done"
      PROVE  outcome'[r] \in Outcomes
  <2> USE DEF TypeOK, Go, Settle
  <2>1. CASE QuoteHit(r)
    BY <1>0, <2>1, LiveType, ConstantsAssumption DEF QuoteHit
  <2>2. CASE NegativeHit(r)
    BY <1>0, <2>2, LiveType, ConstantsAssumption DEF NegativeHit
  <2>3. CASE WaitWoken(r)
    <3>1. inflight[r] \in Requests
      BY <1>0, <2>3 DEF WaitWoken, Flying, Waiting
    <3>2. Made("unavailable", r) \in Outcomes
      BY <1>0, MadeType DEF Kinds
    <3>3. outcome'[r] = IF shared[inflight[r]] # None THEN shared[inflight[r]]
                                                      ELSE Made("unavailable", r)
      BY <1>0, <2>3 DEF WaitWoken
    <3>4. shared[inflight[r]] \in Outcomes \cup {None}
      BY <1>0, <3>1
    <3> QED
      BY <3>2, <3>3, <3>4
  <2>4. CASE ResolveFails(r)
    <3>1. PICK kind \in Kinds : Settle(r, Made(kind, r), "resolve")
      <4> HIDE DEF Settle
      <4> QED
        BY <2>4 DEF ResolveFails, Kinds
    <3> QED
      BY <1>0, <3>1, MadeType
  <2>5. CASE DropStale(r) \/ Release(r)
    BY <1>0, <2>5 DEF DropStale, Release, Decided, answers
  <2>6. pc'[r] = "done" =>
          QuoteHit(r) \/ NegativeHit(r) \/ WaitWoken(r) \/ ResolveFails(r)
          \/ DropStale(r) \/ Release(r)
    BY <1>0, <1>1 DEF GetQuote, Lookup, Start, QuoteMiss, NegativeMiss, Wait, JoinFlight,
       WaitExpired, WaitStoreNegative, Own, OpenFlight, ResolveSucceeds, FetchSucceeds,
       FetchTimesOut, FetchFails, StoreQuote, StoreNegative, Publish
  <2> QED
    BY <1>1, <2>1, <2>2, <2>3, <2>4, <2>5, <2>6
<1>2. ASSUME NEW r \in Requests, GetQuote(r)
      PROVE  Answered'
  BY <1>0, <1>1, <1>2, ServiceFrame DEF Answered
<1>3. CASE Tick \/ AllReturned \/ UNCHANGED vars
  BY <1>3 DEF Tick, AllReturned, vars, answers, Answered
<1> QED
  BY <1>0, <1>2, <1>3 DEF Next

LEMMA PathInvInit == PathInit => PathIInv
<1> SUFFICES ASSUME PathInit
             PROVE  PathIInv
  OBVIOUS
<1>1. IInv
  BY InvInit DEF PathInit
<1>2. PathTypeOK /\ TicksExpire
  BY PathAssumption DEF PathInit, PathTypeOK, TicksExpire
<1>3. Placed /\ QuotesOfAge /\ Answered /\ FirstKept /\ LockHeld /\ OwnersWork
  BY DEF PathInit, Init, Placed, QuotesOfAge, Answered, FirstKept, Holds, LockHeld, OwnersWork
<1> QED
  BY <1>1, <1>2, <1>3 DEF PathIInv

LEMMA PathInvStep == PathIInv /\ [PathNext]_pathVars => PathIInv'
<1> SUFFICES ASSUME PathIInv, [PathNext]_pathVars
             PROVE  PathIInv'
  OBVIOUS
<1>1. /\ IInv /\ TypeOK /\ Timely /\ PathTypeOK /\ Placed /\ TicksExpire
      /\ QuotesOfAge /\ Answered /\ LockHeld /\ OwnersWork /\ (QuoteTtl > 0 => FirstKept)
  BY DEF PathIInv, IInv
<1>2. IInv' /\ OwnersWork'
  BY <1>1, ServiceOf, InvStep, OwnersWorkStep
<1> QED
  BY <1>1, <1>2, PathTypeStep, PlacedStep, TicksExpireStep, QuotesOfAgeStep, AnsweredStep,
     LockHeldStep, FirstKeptStep DEF PathIInv

(* PathIInv holds in every reachable state of get_quote over its client:   *)
(* the base of the theorems below.                                         *)
THEOREM PathInvariance == PathSpec => []PathIInv
  BY PathInvInit, PathInvStep, PTL DEF PathSpec

(* Resolving and fetching through symbol_info_tick, its cache, its retries *)
(* and its lock is what QuoteService takes for two blocking calls: every   *)
(* run of the whole path is one of get_quote.                              *)
THEOREM PathIsQuoteService == PathSpec => Spec
<1>1. [PathNext]_pathVars => [Next]_vars
  BY ServiceOf
<1>2. PathInit => Init
  BY DEF PathInit
<1> QED
  BY <1>1, <1>2, PTL DEF PathSpec, Spec

(* So on the whole path, too, every answer is justified and fresh.         *)
THEOREM PathKeepsContract == PathSpec => ImplementsContract
  BY PathIsQuoteService, Refinement

(* And two calls work for one key only after a waiter's timeout.           *)
THEOREM PathCoalesces == PathSpec => []OneOwnerUnlessAbandoned
  BY PathIsQuoteService, Coalescing

(* And a timeout the path reported is not forgotten early.                 *)
THEOREM PathRemembersTimeouts == PathSpec => []TimeoutRemembered
  BY PathIsQuoteService, TimeoutsAreRemembered

(* The calls of symbol_info_tick, its cache and its lock keep their types: *)
(* a resolution asks at most three times, and no tick is lost on the way   *)
(* from the desk to its caller.                                            *)
THEOREM PathTypeCorrectness == PathSpec => []PathTypeOK
<1>1. PathIInv => PathTypeOK
  BY DEF PathIInv
<1> QED
  BY <1>1, PathInvariance, PTL

(* A quote is made of a tick stored at most quote_cache_ttl_ms before its  *)
(* maker began, whatever the two caches, the retries and the other calls   *)
(* for the symbol do.                                                      *)
THEOREM AgeOfQuotes == PathSpec => []AgeBounded
<1>1. PathIInv => AgeBounded
  <2> SUFFICES ASSUME PathIInv, NEW r \in Requests, pc[r] = "done", outcome[r].kind = "quote"
               PROVE  begun[outcome[r].by] <= basis[outcome[r].by] + QuoteTtl
    BY DEF AgeBounded
  <2>1. outcome[r] # None
    BY ConstantsAssumption DEF PathIInv, Answered
  <2> QED
    BY <2>1 DEF PathIInv, QuotesOfAge, OfAge
<1> QED
  BY <1>1, PathInvariance, PTL

(* A call whose answer was made by a call that has ended gets a tick no    *)
(* older than the two times to live and the work of its maker: the second  *)
(* cache never stretches the first by more than its own time to live.      *)
THEOREM AgeOfAnswers == PathSpec => []QuotesAreFresh
<1>1. PathIInv /\ Contract!Justified => QuotesAreFresh
  <2> SUFFICES ASSUME PathIInv, Contract!Justified, NEW r \in Requests, pc[r] = "done",
                      outcome[r].kind = "quote", pc[outcome[r].by] = "done"
               PROVE  begun[r] <= basis[outcome[r].by] + 2 * QuoteTtl
                                    + (since[outcome[r].by] - begun[outcome[r].by])
    BY DEF QuotesAreFresh
  <2>1. /\ TypeOK /\ Timely /\ PathTypeOK /\ outcome[r] # None /\ outcome[r] \in Outcomes
        /\ Fits(r)
    BY ConstantsAssumption, JustifiedFits DEF PathIInv, IInv, Answered
  <2>2. PICK maker \in Requests : maker = outcome[r].by
    BY <2>1 DEF Outcomes
  <2>3. /\ begun[maker] <= basis[maker] + QuoteTtl /\ basis[maker] \in Nat
        /\ begun[maker] \in Nat /\ since[maker] \in Nat /\ begun[r] \in Nat /\ QuoteTtl \in Nat
        /\ begun[maker] <= since[maker]
    BY <2>1, <2>2, ConstantsAssumption DEF PathIInv, QuotesOfAge, OfAge, PathTypeOK, TypeOK, Timely
  <2>4. CASE maker = r
    BY <2>2, <2>3, <2>4
  <2>5. CASE maker # r
    <3>1. phaseBar[maker] = "ended" /\ endedBar[maker] = since[maker]
      BY <2>2 DEF phaseBar, endedBar, Phase
    <3>2. Grace["quote"] = QuoteTtl
      BY DEF Grace, Kinds
    <3>3. begun[r] <= since[maker] + QuoteTtl
      BY <2>1, <2>2, <2>5, <3>1, <3>2 DEF Fits
    <3> QED
      BY <2>2, <2>3, <3>3
  <2> QED
    BY <2>4, <2>5
<1> QED
  BY <1>1, PathInvariance, PathIsQuoteService, AnswersAreJustified, PTL

(* Nobody waits in a circle: a waiter waits for a call that works, and     *)
(* that call, if it queues for the lock, for one in its session.           *)
THEOREM NoCircularWait == PathSpec => []WaitsEndAtTheDesk
<1>1. PathIInv => WaitsEndAtTheDesk
  BY DEF PathIInv, OwnersWork, LockHeld, WaitsEndAtTheDesk, Working, Busy
<1> QED
  BY <1>1, PathInvariance, PTL

(* The fetch uses the tick of its resolution as long as that tick is live  *)
(* and in its place.  With a time to live of 0 there is no tick cache, and *)
(* every fetch asks the desk.                                              *)
THEOREM AsksOnce == QuoteTtl > 0 => (PathSpec => FirstAccessAsksOnce)
<1> SUFFICES ASSUME QuoteTtl > 0
             PROVE  PathSpec => FirstAccessAsksOnce
  OBVIOUS
<1> DEFINE Once ==
      \A r \in Requests :
        (TickMiss(r) /\ pc[r] = "fetch" /\ firstTick[r] # None)
          => now > firstTick[r] \/ storedLast[SymbolFor(r)] # r
<1>1. PathIInv /\ [PathNext]_pathVars => [Once]_pathVars
  <2> SUFFICES ASSUME PathIInv, NEW r \in Requests, TickMiss(r), pc[r] = "fetch",
                      firstTick[r] # None
               PROVE  now > firstTick[r] \/ storedLast[SymbolFor(r)] # r
    OBVIOUS
  <2>0. now \in Nat /\ firstTick[r] \in Nat
    BY DEF PathIInv, IInv, TypeOK, PathTypeOK
  <2> SUFFICES ASSUME storedLast[SymbolFor(r)] = r, now <= firstTick[r]
               PROVE  FALSE
    BY <2>0
  <2>1. Holds(r) /\ FirstKept
    BY DEF Holds, TickMiss, Move, PathIInv
  <2>2. PICK t \in LookUpTimes(r) : ~StillLive(tickCache[SymbolFor(r)], t)
    BY DEF TickMiss
  <2>3. t \in Int /\ t <= now
    BY <2>0, <2>2 DEF LookUpTimes, Later, PathIInv, IInv, TypeOK, PathTypeOK
  <2> QED
    BY <2>0, <2>1, <2>2, <2>3 DEF FirstKept, StillLive
<1> QED
  BY <1>1, PathInvariance, PTL DEF PathSpec, FirstAccessAsksOnce

=============================================================================
