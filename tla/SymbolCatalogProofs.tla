------------------------ MODULE SymbolCatalogProofs ------------------------
(* Theorems about SymbolCatalog for any calls, symbols, aliases and files:  *)
(* nothing is made up, the name asked for comes first, the catalog settles, *)
(* and only its limit takes from a search what an earlier one listed.      *)
EXTENDS SymbolCatalog, TLAPS

-----------------------------------------------------------------------------
(* The inductive invariant.                                                *)

(* A call that is about to look at a candidate has one, and is allowed to. *)
Poised ==
  \A c \in Calls : pc[c] \in {"info", "tick"} =>
    c \in Resolutions /\ candidates[c] # << >> /\ tries[c] \in 1..CandidateTries

(* What the gateway holds is what the histories say it once got, and it    *)
(* forgets no symbol.                                                      *)
Known ==
  /\ catalog # None => catalog \subseteq listed
  /\ symbolCache \subseteq ticked
  /\ \A c \in Calls : before[c].cached \subseteq symbolCache

(* Once a catalog was seen with no load under way, none ever is.           *)
Settled ==
  \A c \in Calls : before[c].catalog # None =>
    catalog = before[c].catalog /\ \A d \in Calls : loading[d] = None

(* A resolution whose alias was known never gets beyond its first try, and *)
(* one whose own symbol was known never beyond the first try for that.     *)
AliasKnown(c) ==
  /\ pc[c] \in {"info", "found", "raised"}
  /\ pc[c] = "info" =>
       candidates[c] = CandidatesOf(Asked[c]) /\ tries[c] = CandidateTries
  /\ pc[c] = "found" => answer[c] = {Alias[Asked[c]]}

SelfKnown(c) ==
  /\ pc[c] \in {"info", "tick", "found", "raised"}
  /\ pc[c] \in {"info", "tick"} => candidates[c] \in {CandidatesOf(Asked[c]), <<Asked[c]>>}
  /\ pc[c] \in {"info", "tick"} /\ candidates[c] = <<Asked[c]>> =>
       pc[c] = "info" /\ tries[c] = CandidateTries
  /\ pc[c] = "found" => answer[c] \in {{Alias[Asked[c]]}, {Asked[c]}}

Favoured ==
  \A c \in Resolutions :
    /\ Alias[Asked[c]] \in before[c].cached => AliasKnown(c)
    /\ Asked[c] \in before[c].cached => SelfKnown(c)

(* A search lists some of what matches in the catalog and the cache; with  *)
(* the file unchanged both only grow, and a call that is over stays over.  *)
Accumulated ==
  /\ \A t \in Calls : \A s \in before[t].done : pc[s] \in Finished
  /\ rewrites = 0 =>
       /\ catalog \in {None, file}
       /\ \A c \in Calls : loading[c] \in {None, file}
       /\ \A s \in Searches : pc[s] = "found" =>
            catalog = file
            /\ answer[s] \subseteq (file \cup symbolCache) \cap Matches[Asked[s]]

IInv ==
  /\ TypeOK
  /\ Poised
  /\ Known /\ AnswersAreReal
  /\ Settled
  /\ Favoured
  /\ Accumulated /\ OnlyTheLimitHides

-----------------------------------------------------------------------------
(* What the steps of a call do.                                            *)

Work(c) == LoadCatalog(c) \/ SymbolInfo(c) \/ SymbolsGet(c)

LEMMA CandidatesType ==
  ASSUME NEW s \in Symbols
  PROVE  /\ CandidatesOf(s) \in Seq(Symbols) \ {<< >>} /\ Len(CandidatesOf(s)) \in 1..2
         /\ Alias[s] \in Symbols => Head(CandidatesOf(s)) = Alias[s]
         /\ Len(CandidatesOf(s)) = 1 => CandidatesOf(s) = <<s>>
         /\ Len(CandidatesOf(s)) = 2 => Tail(CandidatesOf(s)) = <<s>>
         /\ Head(CandidatesOf(s)) \in {Alias[s], s}
<1>1. Alias[s] \in Symbols \cup {None} /\ None \notin Symbols
  BY ConstantsAssumption
<1> QED
  BY <1>1 DEF CandidatesOf

LEMMA HeadType ==
  ASSUME TypeOK, Poised, NEW c \in Calls, pc[c] \in {"info", "tick"}
  PROVE  /\ candidates[c] \in Seq(Symbols) /\ candidates[c] # << >>
         /\ Head(candidates[c]) \in Symbols /\ Len(candidates[c]) \in Nat \ {0}
         /\ Tail(candidates[c]) \in Seq(Symbols) /\ Len(Tail(candidates[c])) = Len(candidates[c]) - 1
         /\ tries[c] \in 1..CandidateTries /\ c \in Resolutions
<1> DEFINE q == candidates[c]
<1>1. q \in Seq(Symbols) /\ q # << >> /\ tries[c] \in 1..CandidateTries /\ c \in Resolutions
  BY DEF TypeOK, Poised
<1> HIDE DEF q
<1>2. Head(q) \in Symbols /\ Len(q) \in Nat \ {0} /\ Tail(q) \in Seq(Symbols)
      /\ Len(Tail(q)) = Len(q) - 1
  BY <1>1
<1> QED
  BY <1>1, <1>2 DEF q

(* One step of a call is nothing to the others.                            *)
LEMMA Frame ==
  ASSUME NEW c \in Calls, Begin(c) \/ Work(c)
  PROVE  /\ UNCHANGED files
         /\ TypeOK => \A d \in Calls \ {c} :
              /\ pc'[d] = pc[d] /\ loading'[d] = loading[d] /\ candidates'[d] = candidates[d]
              /\ tries'[d] = tries[d] /\ searched'[d] = searched[d]
              /\ answer'[d] = answer[d] /\ before'[d] = before[d]
<1> USE DEF TypeOK, position, histories
<1>1. CASE Begin(c)
  BY <1>1 DEF Begin
<1>2. CASE LoadCatalog(c) \/ SymbolsGet(c)
  BY <1>2 DEF LoadCatalog, ReadFile, ReadFails, StoreCatalog,
     SymbolsGet, ListMatches, TakeBestMatch, NoMatch
<1>3. CASE SymbolInfo(c)
  BY <1>3 DEF SymbolInfo, LookUpHits, LookUpMisses, TickArrives, NoTick, TickRaises,
     Hit, Miss, Retry
<1> QED
  BY <1>1, <1>2, <1>3 DEF Work

(* Nothing is forgotten, and nothing held without having been got.         *)
LEMMA Gains ==
  ASSUME NEW c \in Calls, Begin(c) \/ Work(c)
  PROVE  /\ listed \subseteq listed' /\ ticked \subseteq ticked'
         /\ symbolCache \subseteq symbolCache'
         /\ symbolCache' \ symbolCache \subseteq ticked'
         /\ ~Begin(c) => before' = before
         /\ pc[c] \in Finished => pc' = pc /\ answer' = answer
         /\ catalog' = catalog \/ StoreCatalog(c)
<1> USE DEF histories, NeedsCatalog, Finished
<1>1. CASE Begin(c)
  BY <1>1 DEF Begin
<1>2. CASE LoadCatalog(c) \/ SymbolsGet(c)
  BY <1>2 DEF LoadCatalog, ReadFile, ReadFails, StoreCatalog,
     SymbolsGet, ListMatches, TakeBestMatch, NoMatch
<1>3. CASE SymbolInfo(c)
  BY <1>3 DEF SymbolInfo, LookUpHits, LookUpMisses, TickArrives, NoTick, TickRaises
<1> QED
  BY <1>1, <1>2, <1>3 DEF Work

-----------------------------------------------------------------------------
(* Types, and the position of a resolution.                                *)

LEMMA RetryType ==
  ASSUME TypeOK, NEW c \in Calls, tries[c] \in 2..CandidateTries, Retry(c)
  PROVE  /\ pc' \in [Calls -> Locations] /\ tries' \in [Calls -> 0..CandidateTries]
         /\ pc'[c] = "info" /\ tries'[c] = tries[c] - 1 /\ tries'[c] \in 1..CandidateTries
<1> DEFINE n == tries[c] - 1
<1>1. n \in 1..CandidateTries /\ n \in 0..CandidateTries
  BY DEF CandidateTries
<1>2. pc' = [pc EXCEPT ![c] = "info"] /\ tries' = [tries EXCEPT ![c] = n]
  BY DEF Retry
<1>3. tries'[c] = n
  BY <1>2 DEF TypeOK
<1> HIDE DEF n
<1>4. pc' \in [Calls -> Locations] /\ tries' \in [Calls -> 0..CandidateTries] /\ pc'[c] = "info"
  BY <1>1, <1>2 DEF TypeOK, Locations
<1> QED
  BY <1>1, <1>3, <1>4 DEF n

LEMMA HitType ==
  ASSUME TypeOK, Poised, NEW c \in Calls, pc[c] \in {"info", "tick"}, Hit(c)
  PROVE  /\ pc' \in [Calls -> Locations] /\ candidates' \in [Calls -> Seq(Symbols)]
         /\ tries' \in [Calls -> 0..CandidateTries] /\ searched' \in [Calls -> BOOLEAN]
         /\ answer' \in [Calls -> (SUBSET Symbols) \cup {None}]
         /\ pc'[c] \in {"info", "tick"} => candidates'[c] # << >> /\ tries'[c] \in 1..CandidateTries
<1>1. CASE tries[c] = 2
  <2>1. Retry(c) /\ UNCHANGED <<candidates, searched, answer>>
    BY <1>1 DEF Hit
  <2>2. tries[c] \in 2..CandidateTries
    BY <1>1 DEF CandidateTries
  <2>3. candidates[c] # << >>
    BY HeadType
  <2> QED
    BY <2>1, <2>2, <2>3, RetryType DEF TypeOK
<1>2. CASE tries[c] # 2
  <2> DEFINE found == {Head(candidates[c])}
  <2>1. found \in (SUBSET Symbols) \cup {None}
    BY HeadType
  <2>2. /\ pc' = [pc EXCEPT ![c] = "found"] /\ answer' = [answer EXCEPT ![c] = found]
        /\ candidates' = candidates /\ tries' = tries /\ searched' = searched
    BY <1>2 DEF Hit, position
  <2> HIDE DEF found
  <2>3. pc' \in [Calls -> Locations] /\ answer' \in [Calls -> (SUBSET Symbols) \cup {None}]
        /\ pc'[c] = "found"
    BY <2>1, <2>2 DEF TypeOK, Locations
  <2> QED
    BY <2>2, <2>3 DEF TypeOK
<1> QED
  BY <1>1, <1>2

LEMMA MissType ==
  ASSUME TypeOK, Poised, NEW c \in Calls, pc[c] \in {"info", "tick"}, Miss(c)
  PROVE  /\ pc' \in [Calls -> Locations] /\ candidates' \in [Calls -> Seq(Symbols)]
         /\ tries' \in [Calls -> 0..CandidateTries] /\ searched' \in [Calls -> BOOLEAN]
         /\ answer' = answer
         /\ pc'[c] \in {"info", "tick"} => candidates'[c] # << >> /\ tries'[c] \in 1..CandidateTries
<1> DEFINE q == candidates[c]
<1>1. q \in Seq(Symbols) /\ Tail(q) \in Seq(Symbols) /\ Len(q) \in Nat \ {0}
      /\ Len(Tail(q)) = Len(q) - 1 /\ q # << >> /\ tries[c] \in 1..CandidateTries
  BY HeadType
<1>2. CASE tries[c] > 1 /\ Retry(c) /\ UNCHANGED <<candidates, searched>>
  <2>1. tries[c] \in 2..CandidateTries
    BY <1>1, <1>2 DEF CandidateTries
  <2>2. answer' = answer
    BY DEF Miss
  <2> QED
    BY <1>1, <1>2, <2>1, <2>2, RetryType DEF TypeOK
<1>3. CASE /\ Len(q) > 1 /\ pc' = [pc EXCEPT ![c] = "info"]
           /\ candidates' = [candidates EXCEPT ![c] = Tail(q)]
           /\ tries' = [tries EXCEPT ![c] = CandidateTries] /\ UNCHANGED searched
  <2>1. Tail(q) # << >>
    <3> HIDE DEF q
    <3>0. Len(q) > 1
      BY <1>3
    <3>1. Len(Tail(q)) # 0
      BY <1>1, <3>0
    <3>2. Len(<< >>) = 0
      OBVIOUS
    <3> QED
      BY <3>1, <3>2
  <2> HIDE DEF q
  <2>2. candidates' \in [Calls -> Seq(Symbols)] /\ candidates'[c] = Tail(q)
    BY <1>1, <1>3 DEF TypeOK
  <2>3. pc' \in [Calls -> Locations] /\ tries' \in [Calls -> 0..CandidateTries]
        /\ tries'[c] \in 1..CandidateTries
    BY <1>3 DEF TypeOK, Locations, CandidateTries
  <2>4. searched' \in [Calls -> BOOLEAN] /\ answer' = answer
    BY <1>3 DEF Miss, TypeOK
  <2> QED
    BY <2>1, <2>2, <2>3, <2>4
<1>4. CASE /\ pc' = [pc EXCEPT ![c] = IF searched[c] THEN "not_found" ELSE "search"]
           /\ UNCHANGED position
  BY <1>4 DEF Miss, TypeOK, Locations, position
<1> QED
  BY <1>2, <1>3, <1>4 DEF Miss

(* What sorting and cutting leaves, and why it leaves out the rest.        *)
LEMMA CutIsPart ==
  ASSUME NEW c, NEW rows, NEW first \in SortedAndCut(c, rows)
  PROVE  /\ first \subseteq rows
         /\ \A hidden \in rows \ first :
              /\ Cardinality(first) = Limit[c]
              /\ \A shown \in first : SortsBefore(Asked[c], shown, hidden)
  BY DEF SortedAndCut

LEMMA TypeStep ==
  ASSUME TypeOK, Poised, [Next]_vars
  PROVE  TypeOK' /\ Poised'
<1> USE ConstantsAssumption
<1>0. ASSUME NEW c \in Calls, Begin(c) \/ Work(c),
             pc'[c] \in {"info", "tick"} =>
               c \in Resolutions /\ candidates'[c] # << >> /\ tries'[c] \in 1..CandidateTries
      PROVE  Poised'
  BY <1>0, Frame DEF Poised
<1>1. ASSUME NEW c \in Calls, Begin(c)
      PROVE  TypeOK' /\ Poised'
  <2>1. CandidatesOf(Asked[c]) \in Seq(Symbols) \ {<< >>}
    BY CandidatesType
  <2>2. before' \in [Calls -> [cached : SUBSET Symbols, catalog : Contents \cup {None},
                               done : SUBSET Calls]]
    BY <1>1 DEF Begin, TypeOK
  <2>3. CASE c \in Resolutions
    <3>1. /\ pc' = [pc EXCEPT ![c] = "info"]
          /\ candidates' = [candidates EXCEPT ![c] = CandidatesOf(Asked[c])]
          /\ tries' = [tries EXCEPT ![c] = CandidateTries]
      BY <1>1, <2>3 DEF Begin
    <3>2. candidates'[c] # << >> /\ tries'[c] \in 1..CandidateTries
      BY <2>1, <3>1 DEF TypeOK, CandidateTries
    <3>3. pc' \in [Calls -> Locations] /\ candidates' \in [Calls -> Seq(Symbols)]
          /\ tries' \in [Calls -> 0..CandidateTries]
      BY <2>1, <3>1 DEF TypeOK, Locations, CandidateTries
    <3>4. TypeOK'
      BY <1>1, <2>2, <3>3 DEF Begin, TypeOK, files
    <3> QED
      BY <1>0, <1>1, <2>3, <3>2, <3>4
  <2>4. CASE c \in Searches
    <3>1. pc' = [pc EXCEPT ![c] = "search"] /\ UNCHANGED <<candidates, tries>>
      BY <1>1, <2>4 DEF Begin
    <3> QED
      BY <1>0, <1>1, <2>2, <3>1 DEF Begin, TypeOK, Locations, files
  <2> QED
    BY <1>1, <2>3, <2>4 DEF Begin
<1>2. ASSUME NEW c \in Calls, LoadCatalog(c)
      PROVE  TypeOK' /\ Poised'
  <2>1. CASE ReadFile(c)
    BY <2>1 DEF ReadFile, TypeOK, Poised, files, position, histories
  <2>3. CASE ReadFails(c)
    <3>1. TypeOK' /\ pc'[c] = "raised"
      BY <2>3 DEF ReadFails, TypeOK, Locations, files, position, histories
    <3> QED
      BY <1>0, <1>2, <3>1 DEF Work
  <2>2. CASE StoreCatalog(c)
    <3>1. loading[c] \in Contents /\ loading[c] \subseteq Symbols
      BY <2>2 DEF StoreCatalog, TypeOK
    <3> QED
      BY <2>2, <3>1 DEF StoreCatalog, TypeOK, Poised, files, position
  <2> QED
    BY <1>2, <2>1, <2>2, <2>3 DEF LoadCatalog
<1>3. ASSUME NEW c \in Calls, SymbolInfo(c)
      PROVE  TypeOK' /\ Poised'
  <2>1. pc[c] \in {"info", "tick"}
    BY <1>3 DEF SymbolInfo, LookUpHits, LookUpMisses, TickArrives, NoTick, TickRaises
  <2>2. Head(candidates[c]) \in Symbols /\ c \in Resolutions
    BY <2>1, HeadType
  <2>3. CASE LookUpHits(c)
    <3>1. Hit(c)
      BY <2>3 DEF LookUpHits
    <3> QED
      BY <1>0, <1>3, <2>1, <2>2, <2>3, <3>1, HitType DEF LookUpHits, TypeOK, files, histories, Work
  <2>4. CASE TickArrives(c)
    <3>1. Hit(c)
      BY <2>4 DEF TickArrives
    <3>2. symbolCache' \subseteq Symbols /\ ticked' \subseteq Symbols
      BY <2>2, <2>4 DEF TickArrives, TypeOK
    <3> QED
      BY <1>0, <1>3, <2>1, <2>2, <2>4, <3>1, <3>2, HitType DEF TickArrives, TypeOK, files, Work
  <2>5. CASE NoTick(c)
    <3>1. Miss(c)
      BY <2>5 DEF NoTick
    <3> QED
      BY <1>0, <1>3, <2>1, <2>2, <2>5, <3>1, MissType DEF NoTick, TypeOK, files, histories, Work
  <2>6. CASE LookUpMisses(c) \/ TickRaises(c)
    <3>1. UNCHANGED <<files, catalog, symbolCache, loading, position, answer, histories>>
      BY <2>6 DEF LookUpMisses, TickRaises
    <3>2. pc' \in [Calls -> Locations]
      <4>1. \E to \in {"tick", "raised"} : pc' = [pc EXCEPT ![c] = to]
        BY <2>6 DEF LookUpMisses, TickRaises
      <4> QED
        BY <4>1 DEF TypeOK, Locations
    <3>3. TypeOK'
      BY <3>1, <3>2 DEF TypeOK, files, position, histories
    <3> QED
      BY <1>0, <1>3, <2>1, <3>1, <3>3, HeadType DEF Work, position
  <2> QED
    BY <1>3, <2>3, <2>4, <2>5, <2>6 DEF SymbolInfo
<1>4. ASSUME NEW c \in Calls, SymbolsGet(c)
      PROVE  TypeOK' /\ Poised'
  <2>1. InCatalog(c) \cup InCache(c) \subseteq Symbols
    BY <1>4 DEF InCatalog, InCache, TypeOK
  <2>2. CASE ListMatches(c)
    <3>0. PICK found \in SortedAndCut(c, InCatalog(c) \cup InCache(c)) :
                 answer' = [answer EXCEPT ![c] = found]
      BY <2>2 DEF ListMatches
    <3>1. found \in (SUBSET Symbols) \cup {None}
      BY <2>1, CutIsPart
    <3>2. pc' = [pc EXCEPT ![c] = "found"] /\ answer' = [answer EXCEPT ![c] = found]
      BY <2>2, <3>0 DEF ListMatches
    <3>3. /\ pc' \in [Calls -> Locations] /\ pc'[c] = "found"
          /\ answer' \in [Calls -> (SUBSET Symbols) \cup {None}]
      BY <3>1, <3>2 DEF TypeOK, Locations
    <3>4. TypeOK'
      BY <2>2, <3>3 DEF ListMatches, TypeOK, files, position, histories
    <3> QED
      BY <1>0, <1>4, <3>3, <3>4 DEF Work
  <2>4. CASE NoMatch(c)
    <3>1. TypeOK' /\ pc'[c] = "not_found"
      BY <2>4 DEF NoMatch, TypeOK, Locations, files, position, histories
    <3> QED
      BY <1>0, <1>4, <3>1 DEF Work
  <2>3. CASE TakeBestMatch(c)
    <3>1. PICK best \in Symbols : candidates' = [candidates EXCEPT ![c] = <<best>>]
      <4>1. (IF InCatalog(c) # {} THEN InCatalog(c) ELSE InCache(c)) \subseteq Symbols
        BY <2>1
      <4> QED
        BY <2>3, <4>1 DEF TakeBestMatch
    <3>2. <<best>> \in Seq(Symbols) /\ <<best>> # << >>
      OBVIOUS
    <3>3. candidates' \in [Calls -> Seq(Symbols)] /\ candidates'[c] # << >>
      BY <3>1, <3>2 DEF TypeOK
    <3>4. tries' \in [Calls -> 0..CandidateTries] /\ tries'[c] \in 1..CandidateTries
      BY <2>3 DEF TakeBestMatch, TypeOK, CandidateTries, BestTries
    <3> QED
      BY <1>0, <1>4, <2>3, <3>3, <3>4 DEF TakeBestMatch, TypeOK, Locations, files, histories, Work
  <2> QED
    BY <1>4, <2>2, <2>3, <2>4 DEF SymbolsGet
<1>5. CASE ReplaceFile
  BY <1>5 DEF ReplaceFile, TypeOK, Poised, position, histories
<1>6. CASE AllReturned \/ UNCHANGED vars
  BY <1>6 DEF AllReturned, vars, files, position, histories, TypeOK, Poised
<1> QED
  BY <1>1, <1>2, <1>3, <1>4, <1>5, <1>6 DEF Next

-----------------------------------------------------------------------------
(* What is known, and what is answered.                                    *)

(* The three ways to an answer.                                            *)
LEMMA FoundStep ==
  ASSUME TypeOK, NEW c \in Calls, Begin(c) \/ Work(c), pc[c] # "found", pc'[c] = "found"
  PROVE  \/ LookUpHits(c) /\ answer'[c] = {Head(candidates[c])} /\ tries[c] # 2
         \/ TickArrives(c) /\ answer'[c] = {Head(candidates[c])} /\ tries[c] # 2
         \/ ListMatches(c) /\ answer'[c] \in SortedAndCut(c, InCatalog(c) \cup InCache(c))
<1>1. Hit(c) => answer'[c] = {Head(candidates[c])} /\ tries[c] # 2
  BY DEF Hit, Retry, TypeOK
<1>2. ListMatches(c) => answer'[c] \in SortedAndCut(c, InCatalog(c) \cup InCache(c))
  BY DEF ListMatches, TypeOK
<1>3. ~Miss(c)
  BY DEF Miss, Retry, TypeOK
<1>4. ~Begin(c)
  BY DEF Begin, TypeOK
<1>5. ~LoadCatalog(c)
  BY DEF LoadCatalog, ReadFile, ReadFails, StoreCatalog, TypeOK
<1>6. SymbolInfo(c) => LookUpHits(c) \/ TickArrives(c)
  BY <1>3 DEF SymbolInfo, LookUpMisses, NoTick, TickRaises, TypeOK
<1>7. SymbolsGet(c) => ListMatches(c)
  BY DEF SymbolsGet, TakeBestMatch, NoMatch, TypeOK
<1>8. LookUpHits(c) \/ TickArrives(c) => Hit(c)
  BY DEF LookUpHits, TickArrives
<1> QED
  BY <1>1, <1>2, <1>4, <1>5, <1>6, <1>7, <1>8 DEF Work

(* Only resolutions look for candidates.                                   *)
LEMMA HitsResolve ==
  ASSUME Poised, NEW c \in Searches, c \in Calls
  PROVE  ~LookUpHits(c) /\ ~TickArrives(c)
  BY ConstantsAssumption DEF Poised, LookUpHits, TickArrives

LEMMA KnownStep ==
  ASSUME TypeOK, Poised, Known, AnswersAreReal, [Next]_vars
  PROVE  Known' /\ AnswersAreReal'
<1>1. ASSUME NEW c \in Calls, Begin(c) \/ Work(c)
      PROVE  Known' /\ AnswersAreReal'
  <2>1. catalog' # None => catalog' \subseteq listed'
    BY <1>1, Gains DEF Known, StoreCatalog
  <2>2. symbolCache' \subseteq ticked'
    BY <1>1, Gains DEF Known
  <2>3. \A d \in Calls : before'[d].cached \subseteq before[d].cached \cup symbolCache
    <3>1. CASE Begin(c)
      <4>1. before'[c].cached = symbolCache
        BY <3>1 DEF Begin, TypeOK
      <4> QED
        BY <1>1, <4>1, Frame
    <3>2. CASE ~Begin(c)
      BY <1>1, <3>2, Gains
    <3> QED
      BY <3>1, <3>2
  <2>4. Known'
    BY <1>1, <2>1, <2>2, <2>3, Gains DEF Known
  <2>5. ASSUME pc[c] # "found", pc'[c] = "found"
        PROVE  answer'[c] \subseteq listed' \cup ticked'
    <3>1. CASE LookUpHits(c) /\ answer'[c] = {Head(candidates[c])}
      BY <1>1, <3>1, Gains DEF LookUpHits, Loaded, Known
    <3>2. CASE TickArrives(c) /\ answer'[c] = {Head(candidates[c])}
      BY <3>2 DEF TickArrives
    <3>3. CASE ListMatches(c) /\ answer'[c] \in SortedAndCut(c, InCatalog(c) \cup InCache(c))
      <4>1. answer'[c] \subseteq InCatalog(c) \cup InCache(c)
        BY <3>3, CutIsPart
      <4> QED
        BY <1>1, <3>3, <4>1, Gains DEF ListMatches, Loaded, Known, InCatalog, InCache
    <3> QED
      BY <1>1, <2>5, <3>1, <3>2, <3>3, FoundStep
  <2>6. pc[c] = "found" => answer' = answer
    BY <1>1, Gains DEF Finished
  <2>7. \A d \in Calls \ {c} : pc'[d] = pc[d] /\ answer'[d] = answer[d]
    BY <1>1, Frame
  <2>8. listed \cup ticked \subseteq listed' \cup ticked'
    BY <1>1, Gains
  <2>9. AnswersAreReal'
    BY <2>5, <2>6, <2>7, <2>8 DEF AnswersAreReal
  <2> QED
    BY <2>4, <2>9
<1>2. CASE ReplaceFile \/ AllReturned \/ UNCHANGED vars
  BY <1>2 DEF ReplaceFile, AllReturned, vars, files, position, histories, Known, AnswersAreReal
<1> QED
  BY <1>1, <1>2 DEF Next, Work

(* Nobody who began with a catalog there ever loads another.               *)
LEMMA SettledStep ==
  ASSUME TypeOK, Settled, [Next]_vars
  PROVE  Settled'
<1>1. ASSUME NEW c \in Calls, Begin(c)
      PROVE  Settled'
  <2>1. UNCHANGED <<catalog, loading>>
    BY <1>1 DEF Begin
  <2>2. \A d \in Calls \ {c} : before'[d] = before[d]
    BY <1>1, Frame
  <2>3. before'[c].catalog = IF \A d \in Calls : loading[d] = None THEN catalog ELSE None
    BY <1>1 DEF Begin, TypeOK
  <2> QED
    BY <2>1, <2>2, <2>3 DEF Settled
<1>2. ASSUME NEW c \in Calls, Work(c), ~Begin(c)
      PROVE  Settled'
  <2>1. before' = before
    BY <1>2, Gains
  <2>2. CASE ReadFile(c) \/ StoreCatalog(c)
    BY <2>1, <2>2 DEF ReadFile, StoreCatalog, Settled, Loaded
  <2>3. CASE UNCHANGED <<catalog, loading>>
    BY <2>1, <2>3 DEF Settled
  <2>4. ReadFile(c) \/ StoreCatalog(c) \/ UNCHANGED <<catalog, loading>>
    BY <1>2 DEF Work, LoadCatalog, ReadFails, SymbolInfo, LookUpHits, LookUpMisses,
       TickArrives, NoTick, TickRaises, SymbolsGet, ListMatches, TakeBestMatch, NoMatch
  <2> QED
    BY <2>2, <2>3, <2>4
<1>3. CASE ReplaceFile \/ AllReturned \/ UNCHANGED vars
  BY <1>3 DEF ReplaceFile, AllReturned, vars, histories, Settled
<1> QED
  BY <1>1, <1>2, <1>3 DEF Next, Work

-----------------------------------------------------------------------------
(* The order of the candidates.                                            *)

(* A resolution that waits for a candidate can only do the following.      *)
LEMMA InfoStep ==
  ASSUME TypeOK, NEW c \in Calls, Work(c), pc[c] \in {"info", "tick"}
  PROVE  \/ pc'[c] = pc[c] /\ candidates'[c] = candidates[c] /\ tries'[c] = tries[c]
         \/ pc'[c] = "raised"
         \/ LookUpHits(c) /\ pc[c] = "info" /\ Hit(c)
         \/ pc'[c] = "tick" /\ LookUpMisses(c) /\ pc[c] = "info"
            /\ candidates'[c] = candidates[c] /\ tries'[c] = tries[c]
         \/ pc[c] = "tick" /\ (Hit(c) \/ Miss(c))
<1>1. CASE LoadCatalog(c)
  BY <1>1 DEF LoadCatalog, ReadFile, ReadFails, StoreCatalog, TypeOK, position
<1>2. CASE SymbolInfo(c)
  BY <1>2 DEF SymbolInfo, LookUpHits, LookUpMisses, TickArrives, NoTick, TickRaises, TypeOK,
     position
<1>3. ~SymbolsGet(c)
  BY DEF SymbolsGet, ListMatches, TakeBestMatch, NoMatch
<1> QED
  BY <1>1, <1>2, <1>3 DEF Work

LEMMA HitOutcome ==
  ASSUME TypeOK, NEW c \in Calls, Hit(c)
  PROVE  \/ pc'[c] = "info" /\ tries[c] = 2 /\ candidates'[c] = candidates[c]
         \/ pc'[c] = "found" /\ tries[c] # 2 /\ answer'[c] = {Head(candidates[c])}
  BY DEF Hit, Retry, TypeOK

LEMMA MissOutcome ==
  ASSUME TypeOK, NEW c \in Calls, Miss(c)
  PROVE  \/ pc'[c] = "info" /\ candidates'[c] = candidates[c]
         \/ /\ pc'[c] = "info" /\ candidates'[c] = Tail(candidates[c])
            /\ tries'[c] = CandidateTries /\ Len(candidates[c]) > 1
         \/ Len(candidates[c]) = 1
  BY DEF Miss, Retry, TypeOK

LEMMA AliasKnownStep ==
  ASSUME TypeOK, Known, NEW c \in Resolutions, Work(c), ~Begin(c),
         Alias[Asked[c]] \in before[c].cached, AliasKnown(c)
  PROVE  AliasKnown(c)'
<1> DEFINE s == Asked[c]
<1>1. c \in Calls /\ s \in Symbols /\ Alias[s] \in Symbols /\ Alias[s] \in symbolCache
  BY ConstantsAssumption DEF Calls, Known, TypeOK
<1>2. CASE pc[c] \in Finished
  <2>1. pc' = pc /\ answer' = answer
    BY <1>1, <1>2, Gains
  <2> QED
    BY <1>2, <2>1 DEF AliasKnown, Finished
<1>3. CASE pc[c] = "info"
  <2>1. candidates[c] = CandidatesOf(s) /\ tries[c] = CandidateTries
    BY <1>3 DEF AliasKnown
  <2>2. Head(candidates[c]) = Alias[s]
    BY <1>1, <2>1, CandidatesType
  <2>3. ~LookUpMisses(c)
    BY <1>1, <2>2 DEF LookUpMisses
  <2>4. CASE LookUpHits(c) /\ Hit(c)
    BY <1>1, <2>1, <2>2, <2>4, HitOutcome DEF AliasKnown, CandidateTries
  <2>5. CASE pc'[c] = "raised"
    BY <2>5 DEF AliasKnown
  <2>6. CASE pc'[c] = pc[c] /\ candidates'[c] = candidates[c] /\ tries'[c] = tries[c]
    BY <1>3, <2>1, <2>6 DEF AliasKnown
  <2> QED
    BY <1>1, <1>3, <2>3, <2>4, <2>5, <2>6, InfoStep
<1> QED
  BY <1>2, <1>3 DEF AliasKnown, Finished

LEMMA SelfKnownStep ==
  ASSUME TypeOK, Known, NEW c \in Resolutions, Work(c), ~Begin(c),
         Asked[c] \in before[c].cached, SelfKnown(c)
  PROVE  SelfKnown(c)'
<1> DEFINE s == Asked[c]
<1>1. c \in Calls /\ s \in Symbols /\ s \in symbolCache
  BY ConstantsAssumption DEF Calls, Known
<1>2. CASE pc[c] \in Finished
  <2>1. pc' = pc /\ answer' = answer
    BY <1>1, <1>2, Gains
  <2> QED
    BY <1>2, <2>1 DEF SelfKnown, Finished
<1>3. CASE pc[c] \in {"info", "tick"}
  <2>1. candidates[c] \in {CandidatesOf(s), <<s>>}
    BY <1>3 DEF SelfKnown
  <2>2. Head(candidates[c]) \in {Alias[s], s}
    <3>1. Head(<<s>>) = s
      OBVIOUS
    <3> QED
      BY <1>1, <2>1, <3>1, CandidatesType
  <2>3. candidates[c] = <<s>> => pc[c] = "info" /\ tries[c] = CandidateTries
                                  /\ Head(candidates[c]) = s
    BY <1>3 DEF SelfKnown
  <2>4. candidates[c] # <<s>> => Len(candidates[c]) = 2 /\ Tail(candidates[c]) = <<s>>
    BY <1>1, <2>1, CandidatesType
  <2>5. CASE Hit(c)
    BY <1>1, <2>1, <2>2, <2>3, <2>5, HitOutcome DEF SelfKnown, CandidateTries
  <2>6. CASE Miss(c) /\ pc[c] = "tick"
    <3>1. /\ candidates[c] = CandidatesOf(s) /\ candidates[c] # <<s>>
          /\ Len(candidates[c]) = 2 /\ Tail(candidates[c]) = <<s>>
      BY <2>1, <2>3, <2>4, <2>6
    <3>2. CASE pc'[c] = "info" /\ candidates'[c] = candidates[c]
      BY <3>1, <3>2 DEF SelfKnown
    <3>3. CASE pc'[c] = "info" /\ candidates'[c] = <<s>> /\ tries'[c] = CandidateTries
      BY <3>3 DEF SelfKnown
    <3>4. \/ pc'[c] = "info" /\ candidates'[c] = candidates[c]
          \/ /\ pc'[c] = "info" /\ candidates'[c] = Tail(candidates[c])
             /\ tries'[c] = CandidateTries
          \/ Len(candidates[c]) = 1
      BY <1>1, <2>6, MissOutcome
    <3>5. Len(candidates[c]) # 1
      BY <3>1
    <3>6. Tail(candidates[c]) = <<s>>
      BY <3>1
    <3> QED
      BY <3>2, <3>3, <3>4, <3>5, <3>6
  <2>7. CASE pc'[c] = "raised"
    BY <2>7 DEF SelfKnown
  <2>8. CASE pc'[c] = pc[c] /\ candidates'[c] = candidates[c] /\ tries'[c] = tries[c]
    BY <1>3, <2>1, <2>3, <2>8 DEF SelfKnown
  <2>9. CASE pc'[c] = "tick" /\ LookUpMisses(c) /\ candidates'[c] = candidates[c]
    <3>1. candidates[c] # <<s>>
      BY <1>1, <2>3, <2>9 DEF LookUpMisses
    <3> QED
      BY <2>1, <2>9, <3>1 DEF SelfKnown
  <2> QED
    BY <1>1, <1>3, <2>5, <2>6, <2>7, <2>8, <2>9, InfoStep
<1> QED
  BY <1>2, <1>3 DEF SelfKnown, Finished

LEMMA FavouredStep ==
  ASSUME TypeOK, Known, Favoured, [Next]_vars
  PROVE  Favoured'
<1>1. ASSUME NEW c \in Calls, Begin(c) \/ Work(c)
      PROVE  Favoured'
  <2>1. \A d \in Resolutions \ {c} :
          /\ (AliasKnown(d)' <=> AliasKnown(d)) /\ (SelfKnown(d)' <=> SelfKnown(d))
          /\ before'[d] = before[d]
    BY <1>1, Frame DEF AliasKnown, SelfKnown, Calls
  <2>2. SUFFICES ASSUME c \in Resolutions
                 PROVE  /\ Alias[Asked[c]] \in before'[c].cached => AliasKnown(c)'
                        /\ Asked[c] \in before'[c].cached => SelfKnown(c)'
    BY <2>1 DEF Favoured
  <2>3. CASE Begin(c)
    <3>1. /\ pc'[c] = "info" /\ candidates'[c] = CandidatesOf(Asked[c])
          /\ tries'[c] = CandidateTries
      BY <2>2, <2>3, ConstantsAssumption DEF Begin, TypeOK
    <3> QED
      BY <3>1 DEF AliasKnown, SelfKnown
  <2>4. CASE Work(c) /\ ~Begin(c)
    <3>1. before' = before
      BY <1>1, <2>4, Gains
    <3> QED
      BY <2>2, <2>4, <3>1, AliasKnownStep, SelfKnownStep DEF Favoured
  <2> QED
    BY <1>1, <2>3, <2>4
<1>2. CASE ReplaceFile \/ AllReturned \/ UNCHANGED vars
  BY <1>2 DEF ReplaceFile, AllReturned, vars, position, histories, Favoured, AliasKnown, SelfKnown
<1> QED
  BY <1>1, <1>2 DEF Next, Work

-----------------------------------------------------------------------------
(* Searches.                                                               *)

LEMMA AccumulatedStep ==
  ASSUME TypeOK, Poised, Known, Accumulated, OnlyTheLimitHides, [Next]_vars
  PROVE  Accumulated' /\ OnlyTheLimitHides'
<1>1. ASSUME NEW c \in Calls, Begin(c) \/ Work(c)
      PROVE  Accumulated' /\ OnlyTheLimitHides'
  <2>1. UNCHANGED files /\ symbolCache \subseteq symbolCache'
    BY <1>1, Frame, Gains
  <2>2. \A d \in Calls \ {c} : /\ pc'[d] = pc[d] /\ answer'[d] = answer[d]
                               /\ loading'[d] = loading[d] /\ before'[d] = before[d]
    BY <1>1, Frame
  <2>3. pc[c] \in Finished => pc' = pc /\ answer' = answer
    BY <1>1, Gains
  <2>4. before' = before
        \/ (Begin(c) /\ before'[c].done = {d \in Calls : pc[d] \in Finished} /\ pc'[c] \notin Finished)
    <3>1. Begin(c) => before'[c].done = {d \in Calls : pc[d] \in Finished}
                      /\ pc'[c] \in {"info", "search"}
      BY DEF Begin, TypeOK
    <3> QED
      BY <1>1, <3>1, Gains DEF Finished
  <2>5. \A d \in Calls : pc[d] \in Finished => pc'[d] \in Finished
    BY <2>2, <2>3
  <2>6. \A t \in Calls : \A s \in before'[t].done : pc'[s] \in Finished
    BY <2>2, <2>4, <2>5 DEF Accumulated, TypeOK
  <2>7. ASSUME rewrites = 0
        PROVE  /\ catalog' \in {None, file}
               /\ catalog = file => catalog' = file
               /\ \A d \in Calls : loading'[d] \in {None, file}
    <3>1. catalog \in {None, file} /\ \A d \in Calls : loading[d] \in {None, file}
      BY <2>7 DEF Accumulated
    <3>2. CASE ReadFile(c) \/ StoreCatalog(c)
      BY <3>1, <3>2 DEF ReadFile, StoreCatalog, TypeOK
    <3>3. CASE UNCHANGED <<catalog, loading>>
      BY <3>1, <3>3
    <3>4. ReadFile(c) \/ StoreCatalog(c) \/ UNCHANGED <<catalog, loading>>
      BY <1>1 DEF Begin, Work, LoadCatalog, ReadFails, SymbolInfo, LookUpHits, LookUpMisses,
         TickArrives, NoTick, TickRaises, SymbolsGet, ListMatches, TakeBestMatch, NoMatch
    <3> QED
      BY <3>2, <3>3, <3>4
  <2>8. ASSUME rewrites = 0, c \in Searches, pc[c] # "found", pc'[c] = "found"
        PROVE  /\ catalog = file /\ symbolCache' = symbolCache
               /\ answer'[c] \in SortedAndCut(c, (file \cup symbolCache) \cap Matches[Asked[c]])
    <3>1. ListMatches(c) /\ answer'[c] \in SortedAndCut(c, InCatalog(c) \cup InCache(c))
      BY <1>1, <2>8, FoundStep, HitsResolve
    <3>2. catalog = file
      BY <2>8, <3>1 DEF ListMatches, Loaded, Accumulated
    <3>3. InCatalog(c) \cup InCache(c) = (file \cup symbolCache) \cap Matches[Asked[c]]
      BY <3>2 DEF InCatalog, InCache
    <3> QED
      BY <3>1, <3>2, <3>3 DEF ListMatches
  <2>9. Accumulated'
    <3>1. ASSUME rewrites = 0, NEW s \in Searches, pc'[s] = "found"
          PROVE  catalog' = file
                 /\ answer'[s] \subseteq (file \cup symbolCache') \cap Matches[Asked[s]]
      <4>1. CASE pc[s] = "found"
        <5>1. answer'[s] = answer[s]
          BY <2>2, <2>3, <3>1, <4>1 DEF Calls, Finished
        <5> QED
          BY <2>1, <2>7, <3>1, <4>1, <5>1 DEF Accumulated
      <4>2. CASE pc[s] # "found"
        <5>1. s = c
          BY <2>2, <3>1, <4>2 DEF Calls
        <5>2. answer'[s] \subseteq (file \cup symbolCache) \cap Matches[Asked[s]]
          BY <2>8, <3>1, <4>2, <5>1, CutIsPart
        <5> QED
          BY <2>1, <2>7, <2>8, <3>1, <4>2, <5>1, <5>2
      <4> QED
        BY <4>1, <4>2
    <3> QED
      BY <2>1, <2>6, <2>7, <3>1 DEF Accumulated, files
  <2>10. OnlyTheLimitHides'
    <3>1. SUFFICES ASSUME NEW s \in Searches, NEW t \in Searches, rewrites = 0,
                          Asked[s] = Asked[t], pc'[s] = "found", pc'[t] = "found",
                          s \in before'[t].done, NEW hidden \in answer'[s] \ answer'[t]
                   PROVE  /\ Cardinality(answer'[t]) = Limit[t]
                          /\ \A shown \in answer'[t] : SortsBefore(Asked[t], shown, hidden)
      BY <2>1 DEF OnlyTheLimitHides, files
    <3>2. s \in Calls /\ t \in Calls
      BY DEF Calls
    <3>3. before'[t] = before[t] /\ pc[s] \in Finished
      BY <2>2, <2>4, <3>1, <3>2 DEF Finished, Accumulated
    <3>4. pc[s] = "found" /\ answer'[s] = answer[s]
      BY <2>2, <2>3, <3>1, <3>2, <3>3
    <3>5. CASE pc[t] = "found"
      <4>1. answer'[t] = answer[t]
        BY <2>2, <2>3, <3>2, <3>5 DEF Finished
      <4> QED
        BY <3>1, <3>3, <3>4, <3>5, <4>1 DEF OnlyTheLimitHides
    <3>6. CASE pc[t] # "found"
      <4>1. t = c
        BY <2>2, <3>1, <3>2, <3>6
      <4> DEFINE rows == (file \cup symbolCache) \cap Matches[Asked[t]]
      <4>2. answer'[t] \in SortedAndCut(t, rows)
        BY <2>8, <3>1, <3>6, <4>1
      <4>3. answer[s] \subseteq (file \cup symbolCache) \cap Matches[Asked[s]]
        BY <3>1, <3>4 DEF Accumulated
      <4>4. hidden \in rows \ answer'[t]
        BY <3>1, <3>4, <4>3
      <4> HIDE DEF rows
      <4> QED
        BY <4>2, <4>4, CutIsPart
    <3> QED
      BY <3>5, <3>6
  <2> QED
    BY <2>9, <2>10
<1>2. CASE ReplaceFile
  <2>1. rewrites' # 0
    BY <1>2 DEF ReplaceFile, TypeOK
  <2> QED
    BY <1>2, <2>1 DEF ReplaceFile, histories, Accumulated, OnlyTheLimitHides
<1>3. CASE AllReturned \/ UNCHANGED vars
  BY <1>3 DEF AllReturned, vars, files, histories, Accumulated, OnlyTheLimitHides
<1> QED
  BY <1>1, <1>2, <1>3 DEF Next, Work

-----------------------------------------------------------------------------
(* The invariant and what follows from it.                                 *)

LEMMA InvInit == Init => IInv
  BY ConstantsAssumption DEF Init, IInv, TypeOK, Poised, Known, AnswersAreReal, Settled,
     Favoured, Accumulated, OnlyTheLimitHides, Locations, CandidateTries, Calls, Finished

(* IInv holds in every reachable state of the catalog and its users: the   *)
(* base of the theorems below.                                             *)
THEOREM Invariance == Spec => []IInv
<1>1. IInv /\ [Next]_vars => IInv'
  BY TypeStep, KnownStep, SettledStep, FavouredStep, AccumulatedStep DEF IInv
<1> QED
  BY <1>1, InvInit, PTL DEF Spec

(* Catalog, cache, candidates and answers keep their types: a resolution   *)
(* never looks at a candidate it does not have.                            *)
THEOREM TypeCorrectness == Spec => []TypeOK
<1>1. IInv => TypeOK
  BY DEF IInv
<1> QED
  BY <1>1, Invariance, PTL

(* No symbol is made up: each one resolved or listed was in a catalog that *)
(* was loaded, or once had a tick.                                         *)
THEOREM NothingMadeUp == Spec => []AnswersAreReal
<1>1. IInv => AnswersAreReal
  BY DEF IInv
<1> QED
  BY <1>1, Invariance, PTL

(* An alias, and then the own name, that was known when a resolution began *)
(* is what the resolution comes to, whatever the other calls do meanwhile. *)
THEOREM NamesInOrder == Spec => []OwnNameFirst
<1>1. IInv => OwnNameFirst
  BY DEF IInv, Favoured, AliasKnown, SelfKnown, OwnNameFirst
<1> QED
  BY <1>1, Invariance, PTL

(* Without any lock, the first catalog that was seen with no load under    *)
(* way is the last one.                                                    *)
THEOREM CatalogStays == Spec => []CatalogSettles
<1>1. IInv => CatalogSettles
  BY DEF IInv, Settled, CatalogSettles
<1> QED
  BY <1>1, Invariance, PTL

(* What an earlier search listed is missing from a later one for the same  *)
(* query only when the limit cuts it off, as long as nobody replaces the   *)
(* file: the later list is full, of symbols that all sort before it.       *)
THEOREM OnlyTheLimitCuts == Spec => []OnlyTheLimitHides
<1>1. IInv => OnlyTheLimitHides
  BY DEF IInv
<1> QED
  BY <1>1, Invariance, PTL

=============================================================================
