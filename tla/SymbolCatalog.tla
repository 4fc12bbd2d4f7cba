---------------------------- MODULE SymbolCatalog ----------------------------
(***************************************************************************)
(* Which symbol a request is about.  _resolve_symbol_info and              *)
(* search_symbols run on the worker threads and share two unlocked fields  *)
(* of BtgTraderDeskClient: the catalog, loaded from a file by whoever      *)
(* needs it first, and the cache of symbols that once had a tick.          *)
(*                                                                         *)
(* symbol_info_tick (module BtgClient) is abstracted to its outcomes: a    *)
(* tick, none, or an exception.  A step reads or writes shared state once, *)
(* or makes one such call.                                                 *)
(***************************************************************************)
EXTENDS Integers, Sequences, FiniteSets

CONSTANTS
  Resolutions,   \* calls of _resolve_symbol_info, each made once
  Searches,      \* calls of search_symbols, each made once
  Symbols,       \* normalised symbols
  Asked,         \* the symbol or query of each call
  Alias,         \* symbol_alias_map, None where there is no alias
  Matches,       \* the symbols *query* matches, for each query
  Starts,        \* those of them that begin with it
  Place,         \* the place of each symbol in the order of names
  Limit,         \* the limit of each search
  Contents,      \* what the catalog file may list; no file lists nothing
  None,
  MaxRewrites    \* bound of the model: how often the file is replaced

Calls == Resolutions \cup Searches

ASSUME ConstantsAssumption ==
  /\ Resolutions \cap Searches = {}
  /\ Asked \in [Calls -> Symbols]
  /\ Alias \in [Symbols -> Symbols \cup {None}]
  /\ Matches \in [Symbols -> SUBSET Symbols]
  /\ Starts \in [Symbols -> SUBSET Symbols]
  /\ Place \in [Symbols -> Nat]
  /\ \A a, b \in Symbols : Place[a] = Place[b] => a = b
  /\ Limit \in [Searches -> Nat \ {0}]
  /\ Contents \subseteq SUBSET Symbols
  /\ None \notin Symbols /\ None \notin Contents
  /\ MaxRewrites \in Nat

VARIABLES
  file,           \* what btg_trader_desk_symbols_file lists
  rewrites,       \* how often it was replaced
  catalog,        \* _catalog_cache
  symbolCache,    \* the keys of _symbol_cache
  pc,             \* where each call is
  loading,        \* the rows a call has read from the file but not stored
  candidates,     \* the symbols a resolution has still to try, in order
  tries,          \* what is left of the symbol_info calls for the first one
  searched,       \* whether its candidate is what the search came up with
  answer,         \* the resolved symbol, or the symbols found by a search
  listed,         \* history: everything a loaded catalog ever listed
  ticked,         \* history: every symbol that ever had a tick
  before          \* history: when each call began, the symbols cached, the
                  \* catalog if nobody was loading one, the calls over

files == <<file, rewrites>>
position == <<candidates, tries, searched>>
histories == <<listed, ticked, before>>
vars == <<files, catalog, symbolCache, pc, loading, position, answer, histories>>

Locations == {"idle", "info", "tick", "search", "found", "not_found", "raised"}

Finished == {"found", "not_found", "raised"}

(* symbol_info is called for a candidate, then by symbol_select, then for  *)
(* it again; for the best match by symbol_select and then again.  Nobody   *)
(* looks at the result of symbol_select, which is the last but one.        *)
CandidateTries == 3
BestTries == 2

-----------------------------------------------------------------------------

(* Operators named ...Mutant are plausible bugs, not part of the model: the *)
(* properties are shown to fail when one of them replaces its original.    *)
EmptyIsUnloadedMutant == catalog \notin {None, {}}

Loaded == catalog # None

ChainedAliasMutant(s) == <<Alias[Alias[s]], s>>

AskedFirstMutant(s) ==
  IF Alias[s] \in {None, s} THEN <<s>> ELSE <<s, Alias[s]>>

(* The alias comes before the symbol itself.                               *)
CandidatesOf(s) ==
  IF Alias[s] \in {None, s} THEN <<s>> ELSE <<Alias[s], s>>

Begin(c) ==
  /\ pc[c] = "idle"
  /\ before' = [before EXCEPT ![c] =
       [cached |-> symbolCache,
        catalog |-> IF \A d \in Calls : loading[d] = None THEN catalog ELSE None,
        done |-> {d \in Calls : pc[d] \in Finished}]]
  /\ \/ /\ c \in Resolutions
        /\ pc' = [pc EXCEPT ![c] = "info"]
        /\ candidates' = [candidates EXCEPT ![c] = CandidatesOf(Asked[c])]
        /\ tries' = [tries EXCEPT ![c] = CandidateTries]
     \/ /\ c \in Searches
        /\ pc' = [pc EXCEPT ![c] = "search"]
        /\ UNCHANGED <<candidates, tries>>
  /\ UNCHANGED <<files, catalog, symbolCache, loading, searched, answer,
                 listed, ticked>>

-----------------------------------------------------------------------------
(* _catalog_rows, called first by symbol_info and symbols_get.             *)

NeedsCatalog(c) == pc[c] \in {"info", "search"}

ReadFile(c) ==
  /\ NeedsCatalog(c)
  /\ ~Loaded
  /\ loading[c] = None
  /\ loading' = [loading EXCEPT ![c] = file]
  /\ UNCHANGED <<files, catalog, symbolCache, pc, position, answer, histories>>

(* The file cannot be opened or decoded.                                   *)
ReadFails(c) ==
  /\ NeedsCatalog(c)
  /\ ~Loaded
  /\ loading[c] = None
  /\ pc' = [pc EXCEPT ![c] = "raised"]
  /\ UNCHANGED <<files, catalog, symbolCache, loading, position, answer, histories>>

StoreCatalog(c) ==
  /\ loading[c] # None
  /\ catalog' = loading[c]
  /\ listed' = listed \cup loading[c]
  /\ loading' = [loading EXCEPT ![c] = None]
  /\ UNCHANGED <<files, symbolCache, pc, position, answer, ticked, before>>

-----------------------------------------------------------------------------
(* symbol_info for the first candidate.                                    *)

Retry(c) ==
  /\ pc' = [pc EXCEPT ![c] = "info"]
  /\ tries' = [tries EXCEPT ![c] = @ - 1]

Hit(c) ==
  \/ /\ tries[c] = 2
     /\ Retry(c)
     /\ UNCHANGED <<candidates, searched, answer>>
  \/ /\ tries[c] # 2
     /\ pc' = [pc EXCEPT ![c] = "found"]
     /\ answer' = [answer EXCEPT ![c] = {Head(candidates[c])}]
     /\ UNCHANGED position

Miss(c) ==
  /\ \/ /\ tries[c] > 1
        /\ Retry(c)
        /\ UNCHANGED <<candidates, searched>>
     \/ /\ tries[c] = 1 /\ Len(candidates[c]) > 1
        /\ pc' = [pc EXCEPT ![c] = "info"]
        /\ candidates' = [candidates EXCEPT ![c] = Tail(@)]
        /\ tries' = [tries EXCEPT ![c] = CandidateTries]
        /\ UNCHANGED searched
     \/ /\ tries[c] = 1 /\ Len(candidates[c]) = 1
        /\ pc' = [pc EXCEPT ![c] = IF searched[c] THEN "not_found" ELSE "search"]
        /\ UNCHANGED position
  /\ UNCHANGED answer

(* What symbol_info finds without asking the Trader Desk.                  *)
LookUpHits(c) ==
  /\ pc[c] = "info"
  /\ Loaded /\ loading[c] = None
  /\ Head(candidates[c]) \in catalog \cup symbolCache
  /\ Hit(c)
  /\ UNCHANGED <<files, catalog, symbolCache, loading, histories>>

LookUpMisses(c) ==
  /\ pc[c] = "info"
  /\ Loaded /\ loading[c] = None
  /\ Head(candidates[c]) \notin catalog \cup symbolCache
  /\ pc' = [pc EXCEPT ![c] = "tick"]
  /\ UNCHANGED <<files, catalog, symbolCache, loading, position, answer, histories>>

EvictingMutant(c) ==
  /\ pc[c] = "tick"
  /\ symbolCache' = {Head(candidates[c])}
  /\ ticked' = ticked \cup {Head(candidates[c])}
  /\ Hit(c)
  /\ UNCHANGED <<files, catalog, loading, listed, before>>

TickArrives(c) ==
  /\ pc[c] = "tick"
  /\ symbolCache' = symbolCache \cup {Head(candidates[c])}
  /\ ticked' = ticked \cup {Head(candidates[c])}
  /\ Hit(c)
  /\ UNCHANGED <<files, catalog, loading, listed, before>>

CacheMissMutant(c) ==
  /\ pc[c] = "tick"
  /\ symbolCache' = symbolCache \cup {Head(candidates[c])}
  /\ Miss(c)
  /\ UNCHANGED <<files, catalog, loading, histories>>

NoTick(c) ==
  /\ pc[c] = "tick"
  /\ Miss(c)
  /\ UNCHANGED <<files, catalog, symbolCache, loading, histories>>

TickRaises(c) ==
  /\ pc[c] = "tick"
  /\ pc' = [pc EXCEPT ![c] = "raised"]
  /\ UNCHANGED <<files, catalog, symbolCache, loading, position, answer, histories>>

-----------------------------------------------------------------------------
(* symbols_get: the rows of the catalog in the file's order, then symbols  *)
(* of the cache.  The order within each is left open; search_symbols sorts *)
(* them anyway.                                                            *)

InCatalog(c) == catalog \cap Matches[Asked[c]]
InCache(c) == symbolCache \cap Matches[Asked[c]]

(* The key search_symbols sorts by, compared: the name asked for, then the *)
(* names that begin with it, each by name.                                 *)
SortsBefore(q, a, b) ==
  \/ a = q /\ b # q
  \/ /\ a = q <=> b = q
     /\ \/ a \in Starts[q] /\ b \notin Starts[q]
        \/ (a \in Starts[q] <=> b \in Starts[q]) /\ Place[a] < Place[b]

CutBeforeSortMutant(c, rows) ==
  {first \in SUBSET rows :
     IF Cardinality(rows) <= Limit[c] THEN first = rows ELSE Cardinality(first) = Limit[c]}

(* sorted(rows)[:limit], a set of one element.                             *)
SortedAndCut(c, rows) ==
  {first \in SUBSET rows :
     /\ IF Cardinality(rows) <= Limit[c] THEN first = rows ELSE Cardinality(first) = Limit[c]
     /\ \A a \in first, b \in rows \ first : SortsBefore(Asked[c], a, b)}

ListMatches(c) ==
  /\ c \in Searches
  /\ pc[c] = "search"
  /\ Loaded /\ loading[c] = None
  /\ pc' = [pc EXCEPT ![c] = "found"]
  /\ \E first \in SortedAndCut(c, InCatalog(c) \cup InCache(c)) :
       answer' = [answer EXCEPT ![c] = first]
  /\ UNCHANGED <<files, catalog, symbolCache, loading, position, histories>>

TakeBestMatch(c) ==
  /\ c \in Resolutions
  /\ pc[c] = "search"
  /\ Loaded /\ loading[c] = None
  /\ \E best \in IF InCatalog(c) # {} THEN InCatalog(c) ELSE InCache(c) :
       candidates' = [candidates EXCEPT ![c] = <<best>>]
  /\ pc' = [pc EXCEPT ![c] = "info"]
  /\ tries' = [tries EXCEPT ![c] = BestTries]
  /\ searched' = [searched EXCEPT ![c] = TRUE]
  /\ UNCHANGED <<files, catalog, symbolCache, loading, answer, histories>>

NoMatch(c) ==
  /\ c \in Resolutions
  /\ pc[c] = "search"
  /\ Loaded /\ loading[c] = None
  /\ InCatalog(c) \cup InCache(c) = {}
  /\ pc' = [pc EXCEPT ![c] = "not_found"]
  /\ UNCHANGED <<files, catalog, symbolCache, loading, position, answer, histories>>

-----------------------------------------------------------------------------

(* Somebody deploys another catalog file.                                  *)
ReplaceFile ==
  /\ rewrites < MaxRewrites
  /\ file' \in Contents \ {file}
  /\ rewrites' = rewrites + 1
  /\ UNCHANGED <<catalog, symbolCache, pc, loading, position, answer, histories>>

Init ==
  /\ file \in Contents
  /\ rewrites = 0
  /\ catalog = None
  /\ symbolCache = {}
  /\ pc = [c \in Calls |-> "idle"]
  /\ loading = [c \in Calls |-> None]
  /\ candidates = [c \in Calls |-> << >>]
  /\ tries = [c \in Calls |-> 0]
  /\ searched = [c \in Calls |-> FALSE]
  /\ answer = [c \in Calls |-> None]
  /\ listed = {}
  /\ ticked = {}
  /\ before = [c \in Calls |-> [cached |-> {}, catalog |-> None, done |-> {}]]

LoadCatalog(c) == ReadFile(c) \/ ReadFails(c) \/ StoreCatalog(c)

SymbolInfo(c) ==
  LookUpHits(c) \/ LookUpMisses(c) \/ TickArrives(c) \/ NoTick(c) \/ TickRaises(c)

SymbolsGet(c) == ListMatches(c) \/ TakeBestMatch(c) \/ NoMatch(c)

AllReturned == (\A c \in Calls : pc[c] \in Finished) /\ UNCHANGED vars

Next ==
  \/ \E c \in Calls : Begin(c) \/ LoadCatalog(c) \/ SymbolInfo(c) \/ SymbolsGet(c)
  \/ ReplaceFile
  \/ AllReturned

Spec == Init /\ [][Next]_vars

-----------------------------------------------------------------------------
(* Properties.                                                             *)

TypeOK ==
  /\ file \in Contents
  /\ rewrites \in 0..MaxRewrites
  /\ catalog \in Contents \cup {None}
  /\ symbolCache \subseteq Symbols
  /\ pc \in [Calls -> Locations]
  /\ loading \in [Calls -> Contents \cup {None}]
  /\ candidates \in [Calls -> Seq(Symbols)]
  /\ tries \in [Calls -> 0..CandidateTries]
  /\ searched \in [Calls -> BOOLEAN]
  /\ answer \in [Calls -> (SUBSET Symbols) \cup {None}]
  /\ listed \subseteq Symbols
  /\ ticked \subseteq Symbols
  /\ before \in [Calls -> [cached : SUBSET Symbols, catalog : Contents \cup {None},
                        done : SUBSET Calls]]

(* No symbol is made up (symbol_info, symbols_get): what a request is      *)
(* resolved to, and what a search lists, was in a catalog file that was    *)
(* loaded or once had a tick, whoever asked for it.                        *)
AnswersAreReal ==
  \A c \in Calls : pc[c] = "found" => answer[c] \subseteq listed \cup ticked

(* The order of _resolve_symbol_info, whatever other calls add to the      *)
(* shared cache meanwhile: the alias when the gateway already had it when  *)
(* the call began, else the symbol itself when the gateway had that, and   *)
(* never a partial match in the place of either.                           *)
OwnNameFirst ==
  \A c \in Resolutions :
    LET s == Asked[c] IN
    pc[c] = "found" =>
      /\ Alias[s] \in before[c].cached => answer[c] = {Alias[s]}
      /\ s \in before[c].cached => answer[c] \in {{Alias[s]}, {s}}

(* The catalog is loaded once, an empty or missing file included, although *)
(* nothing locks it (_catalog_rows): a call that began when a catalog was  *)
(* loaded and nobody was loading another works with that one to its end,   *)
(* and it stays for good, whatever becomes of the file.                    *)
CatalogSettles ==
  \A c \in Calls : before[c].catalog # None => catalog = before[c].catalog

(* While the file stays the same, what a search has listed can be missing  *)
(* from a later one for the same query only because the limit cuts it off: *)
(* the later one's list is full, of symbols that all sort before it        *)
(* (search_symbols, over a catalog and a cache that others fill meanwhile).*)
OnlyTheLimitHides ==
  \A s, t \in Searches :
    (/\ rewrites = 0 /\ Asked[s] = Asked[t]
     /\ pc[s] = "found" /\ pc[t] = "found" /\ s \in before[t].done)
    => \A hidden \in answer[s] \ answer[t] :
         /\ Cardinality(answer[t]) = Limit[t]
         /\ \A a \in answer[t] : SortsBefore(Asked[t], a, hidden)

-----------------------------------------------------------------------------
(* A claim of the documentation that the code does not keep.               *)

(* README.md:83: without a local catalog, search finds the symbols in the  *)
(* cache of the gateway and the configured aliases.  A list that is full   *)
(* proves nothing.                                                         *)
AliasesAreListed ==
  \A s \in Searches : \A a \in Matches[Asked[s]] :
    (/\ pc[s] = "found" /\ catalog = {} /\ Alias[a] # None
     /\ Cardinality(answer[s]) < Limit[s])
    => answer[s] \cap {a, Alias[a]} # {}

=============================================================================
