----------------------------- MODULE QuotesBatch -----------------------------
(***************************************************************************)
(* MarketDataService.get_quotes_batch: one call that asks get_quote for    *)
(* each symbol of a list in turn, keeps what it got per normalised symbol  *)
(* and answers with one item per element of the list.                      *)
(*                                                                         *)
(* get_quote is abstracted to its outcome, made by the n-th call of it:    *)
(* other threads, the caches and the clock decide which, so two calls for  *)
(* one symbol need not agree.                                              *)
(***************************************************************************)
EXTENDS Integers, Sequences, FiniteSets

CONSTANTS
  Names,        \* symbols as the caller writes them
  Symbols,      \* normalised symbols
  Normalize,    \* _normalize_symbol on Names
  MaxSymbols,   \* the most symbols BatchQuoteRequest takes
  None,
  Raised        \* the response of a call that raised

Kinds == {"quote", "app_error"}

Results == [kind : Kinds, call : Nat \ {0}]

Items == [requested_symbol : Symbols, ok : BOOLEAN, result : Results]

Requests == UNION {[1..n -> Names] : n \in 1..MaxSymbols}

Responses ==
  [count_total : Nat, count_success : Nat, count_error : Nat, partial : BOOLEAN]
    \cup {Raised}

ASSUME ConstantsAssumption ==
  /\ Normalize \in [Names -> Symbols]
  /\ MaxSymbols \in Nat
  /\ None \notin Results /\ None \notin Responses

VARIABLES
  symbols,         \* the list of the call
  pos,             \* how many of them are through
  calls,           \* history: the symbol of each call of get_quote, in order
  resolved_items,  \* what each symbol came to, None for not yet
  items,
  success_count,
  error_count,
  response         \* what the call returned or raised

vars == <<symbols, pos, calls, resolved_items, items, success_count,
          error_count, response>>

-----------------------------------------------------------------------------

(* The symbol whose turn it is.                                            *)
Turn == Normalize[symbols[pos + 1]]

(* Operators named ...Mutant are plausible bugs, not part of the model: the *)
(* properties are shown to fail when one of them replaces its original.    *)
RawItemMutant(result) ==
  [requested_symbol |-> symbols[pos + 1], ok |-> result.kind = "quote", result |-> result]

Item(result) ==
  [requested_symbol |-> Turn, ok |-> result.kind = "quote", result |-> result]

AnswerMutant(result) ==
  /\ pos' = pos + 1
  /\ items' = IF result.kind = "quote" THEN Append(items, Item(result))
              ELSE <<Item(result)>> \o items
  /\ IF result.kind = "quote"
     THEN success_count' = success_count + 1 /\ UNCHANGED error_count
     ELSE error_count' = error_count + 1 /\ UNCHANGED success_count

UncountedMutant(result) ==
  /\ pos' = pos + 1
  /\ items' = Append(items, Item(result))
  /\ IF result.kind = "quote"
     THEN success_count' = success_count + 1 /\ UNCHANGED error_count
     ELSE /\ error_count' = IF result \in {items[i].result : i \in DOMAIN items}
                            THEN error_count ELSE error_count + 1
          /\ UNCHANGED success_count

(* An item is added and counted.                                           *)
Answer(result) ==
  /\ pos' = pos + 1
  /\ items' = Append(items, Item(result))
  /\ IF result.kind = "quote"
     THEN success_count' = success_count + 1 /\ UNCHANGED error_count
     ELSE error_count' = error_count + 1 /\ UNCHANGED success_count

Working == response = None /\ pos < Len(symbols)

ReuseResult ==
  /\ Working
  /\ resolved_items[Turn] # None
  /\ Answer(resolved_items[Turn])
  /\ UNCHANGED <<symbols, calls, resolved_items, response>>

ForgetErrorsMutant(result) ==
  IF result.kind = "quote"
  THEN [resolved_items EXCEPT ![Turn] = result] ELSE resolved_items

Remembered(result) == [resolved_items EXCEPT ![Turn] = result]

CallGetQuote ==
  /\ Working
  /\ resolved_items[Turn] = None
  /\ calls' = Append(calls, Turn)
  /\ \E kind \in Kinds :
       LET result == [kind |-> kind, call |-> Len(calls) + 1] IN
       /\ Answer(result)
       /\ resolved_items' = Remembered(result)
  /\ UNCHANGED <<symbols, response>>

(* What is not an AppError leaves get_quotes_batch with all it has done.   *)
GetQuoteRaises ==
  /\ Working
  /\ resolved_items[Turn] = None
  /\ calls' = Append(calls, Turn)
  /\ response' = Raised
  /\ UNCHANGED <<symbols, pos, resolved_items, items, success_count, error_count>>

Respond ==
  /\ response = None
  /\ pos = Len(symbols)
  /\ response' = [count_total |-> Len(items),
                  count_success |-> success_count,
                  count_error |-> error_count,
                  partial |-> success_count > 0 /\ error_count > 0]
  /\ UNCHANGED <<symbols, pos, calls, resolved_items, items, success_count, error_count>>

Returned == response # None /\ UNCHANGED vars

Init ==
  /\ symbols \in Requests
  /\ pos = 0
  /\ calls = << >>
  /\ resolved_items = [s \in Symbols |-> None]
  /\ items = << >>
  /\ success_count = 0
  /\ error_count = 0
  /\ response = None

Next == ReuseResult \/ CallGetQuote \/ GetQuoteRaises \/ Respond \/ Returned

Spec == Init /\ [][Next]_vars

-----------------------------------------------------------------------------
(* Properties.                                                             *)

TypeOK ==
  /\ symbols \in Requests
  /\ pos \in 0..Len(symbols)
  /\ calls \in Seq(Symbols)
  /\ resolved_items \in [Symbols -> Results \cup {None}]
  /\ items \in Seq(Items)
  /\ success_count \in Nat
  /\ error_count \in Nat
  /\ response \in Responses \cup {None}

(* README.md:348: a symbol that is repeated in a batch, however it is      *)
(* written, is asked for once, and once only when the first try failed.    *)
OneCallPerSymbol ==
  \A i, j \in DOMAIN calls : calls[i] = calls[j] => i = j

(* What the caller relies on to match answers to its list: one item per    *)
(* element, in its order, for its symbol, from a call that asked for that  *)
(* symbol, and the same answer for every repetition.                       *)
ItemsAnswerSymbols ==
  /\ Len(items) = pos
  /\ \A i \in DOMAIN items :
       /\ items[i].requested_symbol = Normalize[symbols[i]]
       /\ calls[items[i].result.call] = items[i].requested_symbol
       /\ \A j \in DOMAIN items :
            items[i].requested_symbol = items[j].requested_symbol => items[i] = items[j]

(* The totals of the response agree with its items, repeated symbols and   *)
(* repeated errors included, and it is partial when it has both.           *)
CountsAgree ==
  LET ok == {i \in DOMAIN items : items[i].ok}
      failed == DOMAIN items \ ok
  IN response \notin {None, Raised} =>
       /\ response.count_total = Len(symbols)
       /\ response.count_success = Cardinality(ok)
       /\ response.count_error = Cardinality(failed)
       /\ response.partial <=> (ok # {} /\ failed # {})

=============================================================================
