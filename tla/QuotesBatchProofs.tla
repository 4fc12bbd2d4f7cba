-------------------------- MODULE QuotesBatchProofs --------------------------
(* Theorems about QuotesBatch for any names, symbols and lists: one call   *)
(* per symbol, every item of the symbol at its place, and totals that      *)
(* count the items.                                                        *)
EXTENDS QuotesBatch, FiniteSetTheorems, TLAPS

-----------------------------------------------------------------------------
(* The inductive invariant.                                                *)

Ok == {i \in DOMAIN items : items[i].ok}
Failed == DOMAIN items \ Ok

(* What is remembered of a symbol came from a call for that symbol.        *)
Remembers ==
  \A s \in Symbols : resolved_items[s] # None =>
    resolved_items[s].call \in DOMAIN calls /\ calls[resolved_items[s].call] = s

(* Until the batch is over every symbol asked for is remembered, whatever  *)
(* its call came to.                                                       *)
NothingForgotten ==
  response = None => \A i \in DOMAIN calls : resolved_items[calls[i]] # None

(* Each item repeats what is remembered of the symbol at its place.        *)
ItemsRepeat ==
  /\ Len(items) = pos
  /\ \A i \in DOMAIN items :
       LET s == Normalize[symbols[i]] IN
       /\ resolved_items[s] # None
       /\ items[i] = [requested_symbol |-> s, ok |-> resolved_items[s].kind = "quote",
                      result |-> resolved_items[s]]

(* The running totals count the items.                                     *)
Tallied == success_count = Cardinality(Ok) /\ error_count = Cardinality(Failed)

IInv ==
  /\ TypeOK
  /\ Remembers
  /\ NothingForgotten
  /\ OneCallPerSymbol
  /\ ItemsRepeat
  /\ Tallied
  /\ CountsAgree

-----------------------------------------------------------------------------

LEMMA TurnType ==
  ASSUME TypeOK, Working
  PROVE  /\ Turn \in Symbols /\ pos + 1 \in 1..Len(symbols) /\ pos \in Nat
         /\ Len(symbols) \in Nat /\ DOMAIN symbols = 1..Len(symbols)
<1>1. PICK n \in 1..MaxSymbols : symbols \in [1..n -> Names]
  BY DEF TypeOK, Requests
<1>2. n \in Nat /\ DOMAIN symbols = 1..n /\ symbols \in Seq(Names)
  BY <1>1, ConstantsAssumption
<1>3. Len(symbols) = n
  BY <1>2
<1>4. pos \in Nat /\ pos < n
  BY <1>2, <1>3 DEF TypeOK, Working
<1>5. pos + 1 \in 1..n
  BY <1>2, <1>4
<1>6. symbols[pos + 1] \in Names
  BY <1>1, <1>5
<1> QED
  BY <1>2, <1>3, <1>4, <1>5, <1>6, ConstantsAssumption DEF Turn

LEMMA ItemSymbols ==
  ASSUME TypeOK
  PROVE  \A i \in DOMAIN items : items[i].requested_symbol \in Symbols
<1>1. \A i \in DOMAIN items : items[i] \in Items
  BY DEF TypeOK
<1> QED
  BY <1>1 DEF Items

LEMMA ItemType ==
  ASSUME TypeOK, Working, NEW result \in Results
  PROVE  Item(result) \in Items
  BY TurnType DEF Item, Items

(* An item is added at the end, and in the total it belongs to.            *)
LEMMA Added ==
  ASSUME TypeOK, Working, Tallied, Len(items) = pos, NEW result \in Results, Answer(result)
  PROVE  /\ items' \in Seq(Items) /\ pos' = pos + 1 /\ Len(items') = pos'
         /\ items'[pos + 1] = Item(result)
         /\ DOMAIN items' = DOMAIN items \cup {pos + 1} /\ pos + 1 \notin DOMAIN items
         /\ \A i \in DOMAIN items : items'[i] = items[i]
         /\ success_count' \in Nat /\ error_count' \in Nat /\ Tallied'
<1>1. /\ pos \in Nat /\ items \in Seq(Items) /\ Item(result) \in Items
      /\ items' = Append(items, Item(result)) /\ pos' = pos + 1
  BY TurnType, ItemType DEF TypeOK, Answer
<1>2. /\ items' \in Seq(Items) /\ Len(items') = pos'
      /\ items'[pos + 1] = Item(result)
      /\ DOMAIN items' = DOMAIN items \cup {pos + 1} /\ pos + 1 \notin DOMAIN items
      /\ \A i \in DOMAIN items : items'[i] = items[i]
  BY <1>1
<1>3. IsFiniteSet(Ok) /\ IsFiniteSet(Failed) /\ pos + 1 \notin Ok /\ pos + 1 \notin Failed
  <2>1. DOMAIN items = 1..pos
    BY <1>1
  <2>2. IsFiniteSet(DOMAIN items)
    BY <1>1, <2>1, FS_Interval
  <2> QED
    BY <1>2, <2>2, FS_Subset DEF Ok, Failed
<1>4. success_count \in Nat /\ error_count \in Nat
  BY DEF TypeOK
<1>5. items'[pos + 1].ok <=> result.kind = "quote"
  <2>1. Item(result).ok <=> result.kind = "quote"
    BY Zenon DEF Item
  <2> QED
    BY <1>2, <2>1, Zenon
<1>6. CASE result.kind = "quote"
  <2>1. Ok' = Ok \cup {pos + 1} /\ Failed' = Failed
    BY <1>2, <1>5, <1>6 DEF Ok, Failed
  <2>2. success_count' = success_count + 1 /\ error_count' = error_count
    BY <1>6 DEF Answer
  <2>3. Cardinality(Ok \cup {pos + 1}) = Cardinality(Ok) + 1
    BY <1>3, FS_AddElement
  <2>4. Tallied'
    BY <2>1, <2>2, <2>3 DEF Tallied
  <2> QED
    BY <1>1, <1>2, <1>4, <2>2, <2>4
<1>7. CASE result.kind # "quote"
  <2>1. Failed' = Failed \cup {pos + 1} /\ Ok' = Ok
    BY <1>2, <1>5, <1>7 DEF Ok, Failed
  <2>2. error_count' = error_count + 1 /\ success_count' = success_count
    BY <1>7 DEF Answer
  <2>3. Cardinality(Failed \cup {pos + 1}) = Cardinality(Failed) + 1
    BY <1>3, FS_AddElement
  <2>4. Tallied'
    BY <2>1, <2>2, <2>3 DEF Tallied
  <2> QED
    BY <1>1, <1>2, <1>4, <2>2, <2>4
<1> QED
  BY <1>6, <1>7

LEMMA ReuseStep ==
  ASSUME IInv, ReuseResult
  PROVE  IInv'
<1> DEFINE result == resolved_items[Turn]
<1>1. Working /\ result # None /\ Answer(result)
      /\ UNCHANGED <<symbols, calls, resolved_items, response>>
  BY DEF ReuseResult
<1>2. /\ Turn \in Symbols /\ pos + 1 \in 1..Len(symbols) /\ pos \in Nat
      /\ Len(symbols) \in Nat
  BY <1>1, TurnType DEF IInv
<1>3. result \in Results
  BY <1>1, <1>2 DEF IInv, TypeOK
<1> HIDE DEF result
<1>4. /\ items' \in Seq(Items) /\ pos' = pos + 1 /\ Len(items') = pos'
      /\ items'[pos + 1] = Item(result)
      /\ DOMAIN items' = DOMAIN items \cup {pos + 1} /\ pos + 1 \notin DOMAIN items
      /\ \A i \in DOMAIN items : items'[i] = items[i]
      /\ success_count' \in Nat /\ error_count' \in Nat /\ Tallied'
  BY <1>1, <1>3, Added DEF IInv, ItemsRepeat
<1>5. TypeOK'
  BY <1>1, <1>2, <1>4 DEF IInv, TypeOK
<1>6. ItemsRepeat'
  BY <1>1, <1>4 DEF IInv, ItemsRepeat, Item, Turn, result
<1>7. CountsAgree'
  BY <1>1 DEF Working, CountsAgree
<1> QED
  BY <1>1, <1>4, <1>5, <1>6, <1>7 DEF IInv, Remembers, NothingForgotten, OneCallPerSymbol

(* The symbol was not asked for before: it would be remembered.            *)
LEMMA AskStep ==
  ASSUME IInv, Working, resolved_items[Turn] = None, calls' = Append(calls, Turn)
  PROVE  /\ calls' \in Seq(Symbols) /\ Len(calls') = Len(calls) + 1
         /\ DOMAIN calls' = DOMAIN calls \cup {Len(calls) + 1}
         /\ calls'[Len(calls) + 1] = Turn
         /\ \A i \in DOMAIN calls : calls'[i] = calls[i] /\ calls[i] \in Symbols
         /\ OneCallPerSymbol'
<1>1. Turn \in Symbols /\ calls \in Seq(Symbols)
  BY TurnType DEF IInv, TypeOK
<1>2. /\ calls' \in Seq(Symbols) /\ Len(calls') = Len(calls) + 1
      /\ DOMAIN calls' = DOMAIN calls \cup {Len(calls) + 1}
      /\ calls'[Len(calls) + 1] = Turn
      /\ \A i \in DOMAIN calls : calls'[i] = calls[i] /\ calls[i] \in Symbols
  BY <1>1
<1>3. \A i \in DOMAIN calls : calls[i] # Turn
  BY DEF IInv, NothingForgotten, Working
<1> QED
  BY <1>2, <1>3 DEF IInv, OneCallPerSymbol

LEMMA CallStep ==
  ASSUME IInv, CallGetQuote
  PROVE  IInv'
<1>1. Working /\ resolved_items[Turn] = None /\ calls' = Append(calls, Turn)
      /\ UNCHANGED <<symbols, response>>
  BY DEF CallGetQuote
<1>2. PICK kind \in Kinds :
        LET result == [kind |-> kind, call |-> Len(calls) + 1] IN
        Answer(result) /\ resolved_items' = Remembered(result)
  BY DEF CallGetQuote
<1> DEFINE result == [kind |-> kind, call |-> Len(calls) + 1]
<1>3. /\ Turn \in Symbols /\ pos + 1 \in 1..Len(symbols) /\ pos \in Nat
      /\ Len(symbols) \in Nat
  BY <1>1, TurnType DEF IInv
<1>4. result \in Results /\ result # None /\ result.call = Len(calls) + 1
  <2>1. Len(calls) \in Nat
    BY DEF IInv, TypeOK
  <2>2. result \in Results
    BY <2>1 DEF Results
  <2> QED
    BY <2>2, ConstantsAssumption
<1>5. Answer(result) /\ resolved_items' = [resolved_items EXCEPT ![Turn] = result]
  BY <1>2 DEF Remembered
<1> HIDE DEF result
<1>6. /\ items' \in Seq(Items) /\ pos' = pos + 1 /\ Len(items') = pos'
      /\ items'[pos + 1] = Item(result)
      /\ DOMAIN items' = DOMAIN items \cup {pos + 1} /\ pos + 1 \notin DOMAIN items
      /\ \A i \in DOMAIN items : items'[i] = items[i]
      /\ success_count' \in Nat /\ error_count' \in Nat /\ Tallied'
  BY <1>1, <1>4, <1>5, Added DEF IInv, ItemsRepeat
<1>7. /\ calls' \in Seq(Symbols)
      /\ DOMAIN calls' = DOMAIN calls \cup {Len(calls) + 1}
      /\ calls'[Len(calls) + 1] = Turn
      /\ \A i \in DOMAIN calls : calls'[i] = calls[i] /\ calls[i] \in Symbols
      /\ OneCallPerSymbol'
  BY <1>1, AskStep
<1>8. resolved_items'[Turn] = result
      /\ \A s \in Symbols \ {Turn} : resolved_items'[s] = resolved_items[s]
  BY <1>3, <1>5 DEF IInv, TypeOK
<1>9. TypeOK'
  BY <1>1, <1>3, <1>4, <1>5, <1>6, <1>7 DEF IInv, TypeOK
<1>10. Remembers'
  BY <1>4, <1>7, <1>8 DEF IInv, Remembers
<1>11. NothingForgotten'
  BY <1>1, <1>4, <1>7, <1>8 DEF IInv, NothingForgotten
(* No earlier item is for this symbol: what it repeats stays as it is.     *)
<1>12. ItemsRepeat'
  <2>1. \A i \in DOMAIN items : Normalize[symbols[i]] # Turn
    BY <1>1 DEF IInv, ItemsRepeat
  <2>2. \A i \in DOMAIN items : Normalize[symbols[i]] \in Symbols
    <3>1. \A i \in DOMAIN items : items[i].requested_symbol \in Symbols
      BY ItemSymbols DEF IInv
    <3> QED
      BY <3>1 DEF IInv, ItemsRepeat
  <2> QED
    BY <1>1, <1>4, <1>6, <1>8, <2>1, <2>2 DEF IInv, ItemsRepeat, Item, Turn
<1>13. CountsAgree'
  BY <1>1 DEF Working, CountsAgree
<1> QED
  BY <1>6, <1>7, <1>9, <1>10, <1>11, <1>12, <1>13 DEF IInv

LEMMA RaiseStep ==
  ASSUME IInv, GetQuoteRaises
  PROVE  IInv'
<1>1. /\ Working /\ resolved_items[Turn] = None /\ calls' = Append(calls, Turn)
      /\ response' = Raised
      /\ UNCHANGED <<symbols, pos, resolved_items, items, success_count, error_count>>
  BY DEF GetQuoteRaises
<1>2. /\ calls' \in Seq(Symbols)
      /\ DOMAIN calls' = DOMAIN calls \cup {Len(calls) + 1}
      /\ \A i \in DOMAIN calls : calls'[i] = calls[i]
      /\ OneCallPerSymbol'
  BY <1>1, AskStep
<1>3. Raised # None /\ Raised \in Responses
  BY ConstantsAssumption DEF Responses
<1>4. TypeOK'
  BY <1>1, <1>2, <1>3 DEF IInv, TypeOK
<1>5. Remembers' /\ NothingForgotten'
  BY <1>1, <1>2, <1>3 DEF IInv, Remembers, NothingForgotten
<1>6. ItemsRepeat' /\ Tallied' /\ CountsAgree'
  BY <1>1 DEF IInv, ItemsRepeat, Tallied, Ok, Failed, CountsAgree
<1> QED
  BY <1>2, <1>4, <1>5, <1>6 DEF IInv

LEMMA RespondStep ==
  ASSUME IInv, Respond
  PROVE  IInv'
<1> DEFINE answer == [count_total |-> Len(items),
                      count_success |-> success_count,
                      count_error |-> error_count,
                      partial |-> success_count > 0 /\ error_count > 0]
<1>1. /\ response' = answer /\ pos = Len(symbols)
      /\ UNCHANGED <<symbols, pos, calls, resolved_items, items, success_count, error_count>>
  BY DEF Respond
<1>2. answer \in Responses /\ answer # None
  <2>1. Len(items) \in Nat /\ success_count \in Nat /\ error_count \in Nat
    BY DEF IInv, TypeOK
  <2>2. answer \in Responses
    BY <2>1 DEF Responses
  <2> QED
    BY <2>2, ConstantsAssumption
<1>3. TypeOK'
  BY <1>1, <1>2 DEF IInv, TypeOK
<1>4. Remembers' /\ NothingForgotten' /\ OneCallPerSymbol' /\ ItemsRepeat' /\ Tallied'
  BY <1>1, <1>2 DEF IInv, Remembers, NothingForgotten, OneCallPerSymbol, ItemsRepeat, Tallied,
     Ok, Failed
<1>5. IsFiniteSet(Ok) /\ IsFiniteSet(Failed)
  <2>1. DOMAIN items = 1..Len(items) /\ Len(items) \in Nat
    BY DEF IInv, TypeOK
  <2>2. IsFiniteSet(DOMAIN items)
    BY <2>1, FS_Interval
  <2> QED
    BY <2>2, FS_Subset DEF Ok, Failed
<1>6. /\ Cardinality(Ok) > 0 <=> Ok # {}
      /\ Cardinality(Failed) > 0 <=> Failed # {}
  BY <1>5, FS_EmptySet, FS_CardinalityType
<1>7. CountsAgree'
  BY <1>1, <1>6 DEF IInv, ItemsRepeat, Tallied, CountsAgree, Ok, Failed
<1> QED
  BY <1>3, <1>4, <1>7 DEF IInv

-----------------------------------------------------------------------------
(* The invariant and what follows from it.                                 *)

LEMMA InvInit == Init => IInv
<1> SUFFICES ASSUME Init
             PROVE  IInv
  OBVIOUS
<1>1. TypeOK
  <2>1. PICK n \in 1..MaxSymbols : symbols \in [1..n -> Names]
    BY DEF Init, Requests
  <2>2. Len(symbols) \in Nat
    BY <2>1, ConstantsAssumption
  <2> QED
    BY <2>2 DEF Init, TypeOK
<1>2. Remembers /\ NothingForgotten /\ OneCallPerSymbol /\ ItemsRepeat /\ CountsAgree
  BY DEF Init, Remembers, NothingForgotten, OneCallPerSymbol, ItemsRepeat, CountsAgree
<1>3. Tallied
  <2>1. Ok = {} /\ Failed = {}
    BY DEF Init, Ok, Failed
  <2> QED
    BY <2>1, FS_EmptySet DEF Init, Tallied
<1> QED
  BY <1>1, <1>2, <1>3 DEF IInv

LEMMA InvStep == IInv /\ [Next]_vars => IInv'
<1> SUFFICES ASSUME IInv, [Next]_vars
             PROVE  IInv'
  OBVIOUS
<1>1. CASE UNCHANGED vars
  BY <1>1 DEF vars, IInv, TypeOK, Remembers, NothingForgotten, OneCallPerSymbol, ItemsRepeat,
     Tallied, Ok, Failed, CountsAgree
<1> QED
  BY <1>1, ReuseStep, CallStep, RaiseStep, RespondStep DEF Next, Returned

(* IInv holds in every reachable state of a batch: the base of the         *)
(* theorems below.                                                         *)
THEOREM Invariance == Spec => []IInv
  BY InvInit, InvStep, PTL DEF Spec

(* The list, the items and what is remembered keep their types.            *)
THEOREM TypeCorrectness == Spec => []TypeOK
<1>1. IInv => TypeOK
  BY DEF IInv
<1> QED
  BY <1>1, Invariance, PTL

(* A batch asks get_quote for a symbol at most once, however often and     *)
(* however written the list repeats it, errors included.                   *)
THEOREM AskedOnce == Spec => []OneCallPerSymbol
<1>1. IInv => OneCallPerSymbol
  BY DEF IInv
<1> QED
  BY <1>1, Invariance, PTL

(* Every item is for the element at its place, from a call for its symbol, *)
(* and equal to every other item for that symbol.                          *)
THEOREM Matched == Spec => []ItemsAnswerSymbols
<1>1. IInv => ItemsAnswerSymbols
  <2> SUFFICES ASSUME IInv
               PROVE  ItemsAnswerSymbols
    OBVIOUS
  <2>1. Len(items) = pos
    BY DEF IInv, ItemsRepeat
  <2>2. ASSUME NEW i \in DOMAIN items
        PROVE  /\ items[i].requested_symbol = Normalize[symbols[i]]
               /\ calls[items[i].result.call] = items[i].requested_symbol
               /\ \A j \in DOMAIN items :
                    items[i].requested_symbol = items[j].requested_symbol => items[i] = items[j]
    <3>1. items[i].requested_symbol \in Symbols
      BY ItemSymbols DEF IInv
    <3>2. /\ items[i].requested_symbol = Normalize[symbols[i]]
          /\ items[i].result = resolved_items[items[i].requested_symbol]
          /\ resolved_items[items[i].requested_symbol] # None
      BY DEF IInv, ItemsRepeat
    <3>3. \A j \in DOMAIN items :
            items[i].requested_symbol = items[j].requested_symbol => items[i] = items[j]
      BY DEF IInv, ItemsRepeat
    <3> QED
      BY <3>1, <3>2, <3>3 DEF IInv, Remembers
  <2> QED
    BY <2>1, <2>2 DEF ItemsAnswerSymbols
<1> QED
  BY <1>1, Invariance, PTL

(* The totals of the response count its items: all, those with a quote,    *)
(* those with an error; and it is partial exactly when it has both.        *)
THEOREM CountsCorrect == Spec => []CountsAgree
<1>1. IInv => CountsAgree
  BY DEF IInv
<1> QED
  BY <1>1, Invariance, PTL

=============================================================================
