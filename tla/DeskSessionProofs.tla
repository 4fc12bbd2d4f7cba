-------------------------- MODULE DeskSessionProofs --------------------------
(* Theorems about DeskSession for any fields, foreign topics, times, size  *)
(* of a recv and number of payloads: what the session takes for the value  *)
(* of a field, and that it does to the client what BtgClient says.         *)
EXTENDS DeskSession, TLAPS, FiniteSetTheorems

-----------------------------------------------------------------------------
(* The inductive invariant.                                                *)

Frames == [topic : Topics, rest : BOOLEAN]

Whole(field) == [topic |-> field, part |-> "whole"]

(* A field is being asked for until the session is through with the last.  *)
Asking ==
  /\ step \in {"greeting", "write", "look", "recv"} => asked < Len(Fields)
  /\ step = "finish" => asked = Len(Fields)

(* The beginning of a payload can only arrive before its rest.             *)
CutAhead == begins # "none" => arrived < Len(wire) /\ ~wire[arrived + 1].rest

(* Of the fields the session is not through with, an answer was heard to   *)
(* the present one alone, and this read still has it.                      *)
HeardInTurn ==
  step \in {"greeting", "write", "look", "recv"} =>
    \A i \in DOMAIN Fields :
      (i > asked /\ Fields[i] \in heard) =>
        i = asked + 1 /\ step \in {"look", "recv"} /\ Contains(lines, Whole(Field))

(* A read is begun before the deadline.                                    *)
InTime == since <= now /\ (step \in {"look", "recv"} => since <= deadline)

IInv ==
  /\ TypeOK
  /\ Asking
  /\ CutAhead
  /\ HeardInTurn
  /\ InTime
  /\ NothingOverlooked

-----------------------------------------------------------------------------
(* Payloads and the wire.                                                  *)

LEMMA PieceType ==
  ASSUME wire \in Seq(Frames), NEW i \in 1..Len(wire), NEW part \in Parts
  PROVE  Piece(i, part) \in Payloads
<1>1. wire[i] \in Frames
  OBVIOUS
<1>2. wire[i].topic \in Topics
  BY <1>1, Zenon DEF Frames
<1> QED
  BY <1>2 DEF Piece, Payloads, Parts

LEMMA ReceivedType ==
  ASSUME wire \in Seq(Frames), NEW n \in 0..Len(wire),
         NEW part \in {"none", "prefix", "value"}, part # "none" => n < Len(wire)
  PROVE  Received(n, part) \in Seq(Payloads)
<1> DEFINE head == [i \in 1..n |-> Piece(i, "whole")]
<1>1. head \in Seq(Payloads)
  <2>1. \A i \in 1..n : Piece(i, "whole") \in Payloads
    BY PieceType DEF Parts
  <2> QED
    BY <2>1
<1>2. CASE part = "none"
  BY <1>1, <1>2 DEF Received
<1>3. CASE part # "none"
  <2>1. Piece(n + 1, part) \in Payloads
    BY <1>3, PieceType DEF Parts
  <2> QED
    BY <1>1, <1>3, <2>1 DEF Received
<1> QED
  BY <1>2, <1>3

LEMMA UnreadFrames ==
  ASSUME wire \in Seq(Frames), NEW n \in 0..Len(wire),
         NEW part \in {"none", "prefix", "value"}, part # "none" => n < Len(wire)
  PROVE  /\ Unread(n, part) \in Seq(Frames)
         /\ Len(Unread(n, part)) = Len(wire) - n
         /\ \A i \in 2..(Len(wire) - n) : Unread(n, part)[i] = wire[n + i]
         /\ part = "none" => \A i \in 1..(Len(wire) - n) : Unread(n, part)[i] = wire[n + i]
<1> DEFINE left == SubSeq(wire, n + 1, Len(wire))
<1>1. /\ left \in Seq(Frames) /\ Len(left) = Len(wire) - n
      /\ \A i \in 1..(Len(wire) - n) : left[i] = wire[n + i]
  BY Z3
<1>2. CASE part = "none"
  BY <1>1, <1>2 DEF Unread
<1>3. CASE part # "none"
  <2> DEFINE first == [left[1] EXCEPT !.rest = TRUE]
  <2>1. left[1] \in Frames
    BY <1>1, <1>3
  <2>2. first \in Frames
    BY <2>1, Zenon DEF Frames
  <2>3. Unread(n, part) = [left EXCEPT ![1] = first]
    BY <1>3, Zenon DEF Unread
  <2> HIDE DEF left, first
  <2> QED
    BY <1>1, <1>3, <2>2, <2>3
<1> QED
  BY <1>2, <1>3

(* A line of either part of what a read got is in all of it.               *)
LEMMA LinesKept ==
  ASSUME NEW S, NEW s \in Seq(S), NEW t \in Seq(S), NEW e,
         Contains(s, e) \/ Contains(t, e)
  PROVE  Contains(s \o t, e)
<1>1. CASE Contains(s, e)
  <2>1. PICK i \in 1..Len(s) : s[i] = e
    BY <1>1 DEF Contains
  <2>2. i \in 1..Len(s \o t) /\ (s \o t)[i] = e
    BY <2>1
  <2> QED
    BY <2>2 DEF Contains
<1>2. CASE Contains(t, e)
  <2>1. PICK i \in 1..Len(t) : t[i] = e
    BY <1>2 DEF Contains
  <2>2. (Len(s) + i) \in 1..Len(s \o t) /\ (s \o t)[Len(s) + i] = e
    BY <2>1
  <2> QED
    BY <2>2 DEF Contains
<1> QED
  BY <1>1, <1>2

LEMMA FieldType ==
  ASSUME asked \in 0..Len(Fields), asked < Len(Fields)
  PROVE  asked + 1 \in DOMAIN Fields /\ Field \in Range(Fields) /\ Field = Fields[asked + 1]
<1>1. Fields \in Seq(STRING)
  BY SessionAssumption
<1>2. asked + 1 \in DOMAIN Fields
  BY <1>1
<1> QED
  BY <1>2 DEF Field, Range

-----------------------------------------------------------------------------
(* The session between two recvs.                                          *)

LEMMA InitInvariant == Init => IInv
<1> SUFFICES ASSUME Init
             PROVE  IInv
  OBVIOUS
<1> USE SessionAssumption
<1>1. Len(Fields) \in Nat \ {0}
  OBVIOUS
<1>2. TypeOK
  <2>1. result \in [Range(Fields) -> Payloads \cup {None}]
    BY DEF Init
  <2>2. lines \in Seq(Payloads) /\ wire \in Seq([topic : Topics, rest : BOOLEAN])
    BY DEF Init
  <2>3. arrived \in 0..Len(wire) /\ asked \in 0..Len(Fields) /\ sent \in 0..MaxSent
    BY <1>1 DEF Init
  <2>4. now \in Nat /\ deadline \in Int /\ since \in Nat /\ waited \in Nat
    BY DEF Init
  <2>5. /\ step \in {"greeting", "write", "look", "recv", "finish"} \cup Ended
        /\ greeted \in 0..2 /\ attempt \in 1..2
        /\ begins \in {"none", "prefix", "value"}
    BY DEF Init
  <2>6. /\ got \subseteq {"number", "text", "infinite"} /\ closed \in BOOLEAN
        /\ requested \subseteq Range(Fields) /\ heard \subseteq Range(Fields)
    BY DEF Init
  <2> QED
    BY <2>1, <2>2, <2>3, <2>4, <2>5, <2>6, Zenon DEF TypeOK
<1>3. Asking /\ CutAhead /\ HeardInTurn /\ InTime
  BY <1>1 DEF Init, Asking, CutAhead, HeardInTurn, InTime
<1>4. NothingOverlooked
  BY DEF Init, NothingOverlooked
<1> QED
  BY <1>2, <1>3, <1>4 DEF IInv

(* What leaves the session where it is.                                    *)
LEMMA EnvironmentStep ==
  ASSUME IInv, Environment \/ Tick \/ UNCHANGED sessionVars
  PROVE  IInv'
<1> USE DEF IInv, TypeOK, clock, query, peer, transit
<1>1. TypeOK'
  <2>1. CASE DeskSends
    <3>1. PICK t \in requested \cup Foreign : wire' = Append(wire, [topic |-> t, rest |-> FALSE])
      BY <2>1 DEF DeskSends
    <3> DEFINE frame == [topic |-> t, rest |-> FALSE]
    <3>2. frame \in Frames
      BY Zenon DEF Topics, Frames
    <3> HIDE DEF frame
    <3>3. wire' = Append(wire, frame) /\ wire \in Seq(Frames)
      BY <3>1 DEF frame, Frames
    <3>4. wire' \in Seq(Frames) /\ Len(wire') = Len(wire) + 1
      BY <3>2, <3>3
    <3>5. sent' \in 0..MaxSent
      BY <2>1, SessionAssumption DEF DeskSends
    <3> QED
      BY <2>1, <3>4, <3>5 DEF DeskSends, Frames
  <2>2. CASE DeskHangsUp
    BY <2>2 DEF DeskHangsUp
  <2>3. CASE Arrive
    BY <2>3 DEF Arrive
  <2>4. CASE ArriveInPart
    BY <2>4 DEF ArriveInPart
  <2>5. CASE Tick
    BY <2>5 DEF Tick
  <2>6. CASE UNCHANGED sessionVars
    BY <2>6 DEF sessionVars
  <2> QED
    BY <2>1, <2>2, <2>3, <2>4, <2>5, <2>6 DEF Environment
<1>2. CutAhead'
  <2>1. CASE DeskSends
    <3>1. PICK frame : wire' = Append(wire, frame)
      BY <2>1 DEF DeskSends
    <3>2. Len(wire') = Len(wire) + 1 /\ \A i \in 1..Len(wire) : wire'[i] = wire[i]
      BY <3>1
    <3>3. arrived' = arrived /\ begins' = begins
      BY <2>1 DEF DeskSends
    <3> QED
      BY <3>2, <3>3 DEF CutAhead
  <2>2. CASE Arrive
    BY <2>2 DEF Arrive, CutAhead
  <2>3. CASE ArriveInPart
    BY <2>3 DEF ArriveInPart, CutAhead
  <2>4. CASE DeskHangsUp \/ Tick \/ UNCHANGED sessionVars
    BY <2>4 DEF DeskHangsUp, Tick, CutAhead, sessionVars
  <2> QED
    BY <2>1, <2>2, <2>3, <2>4 DEF Environment
<1>3. /\ UNCHANGED <<step, since, asked, lines, result, heard, deadline>>
      /\ now' = now \/ now' = now + 1
  BY DEF Environment, DeskSends, DeskHangsUp, Arrive, ArriveInPart, Tick, sessionVars
<1>4. Asking' /\ HeardInTurn' /\ InTime'
  BY <1>3 DEF Asking, HeardInTurn, InTime, Field
<1>5. NothingOverlooked'
  BY <1>3 DEF NothingOverlooked
<1> QED
  BY <1>1, <1>2, <1>4, <1>5

(* The end of the session keeps what it has.                               *)
LEMMA EndStep ==
  ASSUME IInv, NEW how \in Ended, End(how)
  PROVE  IInv'
<1> USE DEF IInv, TypeOK, clock, query, peer, transit, End
<1>1. TypeOK'
  BY DEF Ended
<1>2. Asking' /\ CutAhead' /\ HeardInTurn' /\ InTime'
  BY DEF Asking, CutAhead, HeardInTurn, InTime, Ended
<1>3. NothingOverlooked'
  BY DEF NothingOverlooked
<1> QED
  BY <1>1, <1>2, <1>3

LEMMA HandshakeStep ==
  ASSUME IInv, Handshake
  PROVE  IInv'
<1> USE DEF IInv, TypeOK, clock, query, peer, transit
<1>1. CASE ReadGreeting \/ GreetingGoesOn
  <2>1. TypeOK'
    <3>1. greeted' \in 0..2 /\ waited' \in Nat
      BY <1>1 DEF ReadGreeting, GreetingGoesOn
    <3> QED
      BY <1>1, <3>1 DEF ReadGreeting, GreetingGoesOn
  <2>2. Asking' /\ CutAhead' /\ HeardInTurn' /\ InTime'
    BY <1>1 DEF ReadGreeting, GreetingGoesOn, Asking, CutAhead, HeardInTurn, InTime, Field
  <2>3. NothingOverlooked'
    BY <1>1 DEF ReadGreeting, GreetingGoesOn, NothingOverlooked
  <2> QED
    BY <2>1, <2>2, <2>3
<1>2. CASE OpenSession
  <2>1. TypeOK'
    BY <1>2 DEF OpenSession
  <2>2. Asking' /\ HeardInTurn'
    BY <1>2 DEF OpenSession, Asking, HeardInTurn, Field
  <2>3. CutAhead' /\ InTime'
    BY <1>2 DEF OpenSession, CutAhead, InTime
  <2>4. NothingOverlooked'
    BY <1>2 DEF OpenSession, NothingOverlooked
  <2> QED
    BY <2>1, <2>2, <2>3, <2>4
<1>3. CASE RefuseSession
  BY <1>3, EndStep DEF RefuseSession, Ended
<1> QED
  BY <1>1, <1>2, <1>3 DEF Handshake

-----------------------------------------------------------------------------
(* Requests, and the deadline.                                             *)

LEMMA WriteRequestStep ==
  ASSUME IInv, WriteRequest
  PROVE  IInv'
<1> USE DEF IInv, TypeOK, clock, query, peer, transit, WriteRequest
<1>1. TypeOK'
  <2>1. Field \in Range(Fields)
    BY FieldType DEF Asking
  <2> QED
    BY <2>1
<1>2. Asking' /\ HeardInTurn'
  BY DEF Asking, HeardInTurn, Field
<1>3. CutAhead' /\ InTime'
  BY DEF CutAhead, InTime
<1>4. NothingOverlooked'
  BY DEF NothingOverlooked
<1> QED
  BY <1>1, <1>2, <1>3, <1>4

LEMMA BeginRecvStep ==
  ASSUME IInv, BeginRecv
  PROVE  IInv'
<1> USE DEF IInv, TypeOK, clock, query, peer, transit, BeginRecv
<1>1. TypeOK'
  OBVIOUS
<1>2. Asking' /\ HeardInTurn'
  BY DEF Asking, HeardInTurn, Field
<1>3. CutAhead' /\ InTime'
  BY DEF CutAhead, InTime
<1>4. NothingOverlooked'
  BY DEF NothingOverlooked
<1> QED
  BY <1>1, <1>2, <1>3, <1>4

(* The deadline loses what this read has got: the field it was for is the  *)
(* only one with an answer and without a value, and is not counted.        *)
LEMMA GiveUpRestStep ==
  ASSUME IInv, GiveUpRest
  PROVE  IInv'
<1> USE DEF IInv, TypeOK, clock, query, peer, transit, GiveUpRest
<1>1. TypeOK'
  <2>1. Len(Fields) \in Nat
    BY SessionAssumption
  <2> QED
    BY <2>1
<1>2. Asking' /\ HeardInTurn' /\ CutAhead' /\ InTime'
  BY DEF Asking, HeardInTurn, CutAhead, InTime
<1>3. NothingOverlooked'
  <2> SUFFICES ASSUME NEW i \in 1..Len(Fields), Fields[i] \in heard, Fields[i] # Field
               PROVE  result[Fields[i]] # None
    BY DEF NothingOverlooked
  <2>1. i \in DOMAIN Fields /\ asked < Len(Fields)
    BY SessionAssumption DEF Asking
  <2>2. i # asked + 1
    BY DEF Field
  <2>3. ~(i > asked)
    BY <2>1, <2>2 DEF HeardInTurn
  <2>4. i \in 1..asked
    BY <2>3
  <2> QED
    BY <2>4 DEF NothingOverlooked
<1> QED
  BY <1>1, <1>2, <1>3

-----------------------------------------------------------------------------
(* The end of a read.                                                      *)

LEMMA TookValue ==
  ASSUME TypeOK, asked < Len(Fields), NEW payload \in Payloads, Took(payload)
  PROVE  /\ result' \in [Range(Fields) -> Payloads \cup {None}]
         /\ got' \subseteq {"number", "text", "infinite"}
         /\ result'[Field] # None
         /\ \A f \in Range(Fields) : f # Field => result'[f] = result[f]
<1> USE DEF TypeOK
<1>1. Field \in Range(Fields)
  BY FieldType
<1>2. result' = [result EXCEPT ![Field] = payload]
  BY DEF Took
<1>3. result'[Field] = payload /\ \A f \in Range(Fields) : f # Field => result'[f] = result[f]
  BY <1>1, <1>2
<1>4. got' \subseteq {"number", "text", "infinite"}
  BY DEF Took, ValuesOf
<1>5. payload # None
  BY SessionAssumption
<1> QED
  BY <1>1, <1>2, <1>3, <1>4, <1>5

(* A read in which an answer to its field was heard has one that matches.  *)
LEMMA AnswerMatches ==
  ASSUME NEW all \in Seq(Payloads), Contains(all, Whole(Field))
  PROVE  ~Unanswered(all)
<1>1. PICK i \in 1..Len(all) : all[i] = Whole(Field)
  BY DEF Contains
<1>2. i \in DOMAIN all /\ Matches(all[i], Field)
  BY <1>1 DEF Matches, Whole
<1> QED
  BY <1>2 DEF Unanswered

LEMMA EndReadStep ==
  ASSUME IInv, step = "recv", NEW all \in Seq(Payloads), EndRead(all),
         heard' = heard \/ heard' = heard \cup {Field},
         Field \in heard' => Contains(all, Whole(Field)),
         wire' \in Seq(Frames), arrived' \in 0..Len(wire'),
         begins' \in {"none", "prefix", "value"}, CutAhead'
  PROVE  IInv'
<1> USE DEF IInv, TypeOK, clock, query, peer
<1>1. asked < Len(Fields) /\ Len(Fields) \in Nat
  BY SessionAssumption DEF Asking
<1>2. asked + 1 \in DOMAIN Fields /\ Field \in Range(Fields) /\ Field = Fields[asked + 1]
  BY <1>1, FieldType
<1>3. \A i \in DOMAIN Fields : i # asked + 1 => Fields[i] # Field
  BY <1>2, SessionAssumption
<1>4. \A i \in DOMAIN Fields : i > asked + 1 => Fields[i] \notin heard'
  <2>1. \A i \in DOMAIN Fields : i \in Nat
    BY SessionAssumption
  <2>2. \A i \in DOMAIN Fields : i > asked + 1 => i > asked /\ i # asked + 1
    BY <2>1
  <2>3. \A i \in DOMAIN Fields : i > asked + 1 => Fields[i] \notin heard
    BY <2>2 DEF HeardInTurn
  <2> QED
    BY <1>3, <2>2, <2>3
<1>5. /\ UNCHANGED <<now, deadline, greeted, requested, sent, closed>>
      /\ lines' = <<>> /\ waited' = 0
      /\ heard' \subseteq Range(Fields)
  BY <1>2 DEF EndRead
<1>6. ASSUME NextField,
             result' \in [Range(Fields) -> Payloads \cup {None}],
             got' \subseteq {"number", "text", "infinite"},
             \A f \in Range(Fields) : f # Field => result'[f] = result[f],
             result'[Field] # None \/ Field \notin heard'
      PROVE  IInv'
  <2>1. TypeOK'
    <3>1. asked' \in 0..Len(Fields) /\ attempt' \in 1..2 /\ since' \in Nat
      BY <1>1, <1>6 DEF NextField
    <3>2. step' \in {"write", "finish"}
      BY <1>6 DEF NextField
    <3>3. lines' \in Seq(Payloads)
      BY <1>5
    <3> QED
      BY <1>5, <1>6, <3>1, <3>2, <3>3 DEF Frames
  <2>2. Asking' /\ InTime'
    BY <1>1, <1>5, <1>6 DEF NextField, Asking, InTime
  <2>3. HeardInTurn'
    BY <1>1, <1>4, <1>6 DEF NextField, HeardInTurn
  <2>4. NothingOverlooked'
    <3> SUFFICES ASSUME NEW i \in 1..(asked + 1), Fields[i] \in heard'
                 PROVE  result'[Fields[i]] # None
      BY <1>6 DEF NothingOverlooked, NextField
    <3>1. CASE i = asked + 1
      BY <1>2, <1>6, <3>1
    <3>2. CASE i # asked + 1
      <4>1. i \in 1..asked /\ i \in DOMAIN Fields
        BY <1>1, <3>2, SessionAssumption
      <4>2. Fields[i] # Field /\ Fields[i] \in Range(Fields)
        BY <1>3, <3>2, <4>1 DEF Range
      <4> QED
        BY <1>6, <4>1, <4>2 DEF NothingOverlooked
    <3> QED
      BY <3>1, <3>2
  <2> QED
    BY <1>6, <2>1, <2>2, <2>3, <2>4
<1>7. CASE \E i \in DOMAIN all : IsAnswer(all, i) /\ Took(all[i]) /\ NextField
  <2>1. PICK i \in DOMAIN all : IsAnswer(all, i) /\ Took(all[i]) /\ NextField
    BY <1>7
  <2>2. all[i] \in Payloads
    OBVIOUS
  <2> QED
    BY <1>1, <1>6, <2>1, <2>2, TookValue
<1>8. CASE Unanswered(all) /\ LastAttempt /\ NextField /\ UNCHANGED <<got, result>>
  <2>1. Field \notin heard'
    BY <1>8, AnswerMatches
  <2> QED
    BY <1>6, <1>8, <2>1
<1>9. CASE /\ Unanswered(all) /\ ~LastAttempt
           /\ attempt' = attempt + 1
           /\ step' = "write"
           /\ UNCHANGED <<since, asked, got, result>>
  <2>1. Field \notin heard'
    BY <1>9, AnswerMatches
  <2>2. TypeOK'
    <3>1. lines' \in Seq(Payloads) /\ attempt' \in 1..2
      BY <1>5, <1>9 DEF LastAttempt
    <3> QED
      BY <1>5, <1>9, <3>1 DEF Frames
  <2>3. Asking' /\ InTime'
    BY <1>5, <1>9 DEF Asking, InTime
  <2>4. HeardInTurn'
    BY <1>2, <1>4, <1>9, <2>1 DEF HeardInTurn
  <2>5. NothingOverlooked'
    <3>1. \A i \in 1..asked : i \in DOMAIN Fields /\ i # asked + 1
      BY <1>1, SessionAssumption
    <3>2. \A i \in 1..asked : Fields[i] \in heard' => Fields[i] \in heard
      BY <1>3, <3>1
    <3> QED
      BY <1>9, <3>2 DEF NothingOverlooked
  <2> QED
    BY <2>2, <2>3, <2>4, <2>5
<1> QED
  BY <1>7, <1>8, <1>9 DEF EndRead


-----------------------------------------------------------------------------
(* The recvs.                                                              *)

(* What an action hears is an answer in what it received.                  *)
LEMMA HearWhole ==
  ASSUME IInv, step \in {"look", "recv"}, NEW pieces \in Seq(Payloads), Hear(pieces)
  PROVE  /\ heard' = heard \/ heard' = heard \cup {Field}
         /\ Field \in heard' => Contains(lines \o pieces, Whole(Field))
<1>1. lines \in Seq(Payloads)
  BY DEF IInv, TypeOK
<1>2. asked + 1 \in DOMAIN Fields /\ Field = Fields[asked + 1]
  BY FieldType DEF IInv, TypeOK, Asking
<1>3. asked + 1 > asked
  BY DEF IInv, TypeOK
<1>4. Field \in heard => Contains(lines, Whole(Field))
  BY <1>2, <1>3 DEF IInv, HeardInTurn
<1>5. heard' = IF Contains(pieces, Whole(Field)) THEN heard \cup {Field} ELSE heard
  BY DEF Hear, Whole, Field
<1>6. Field \in heard' => Contains(lines, Whole(Field)) \/ Contains(pieces, Whole(Field))
  BY <1>4, <1>5
<1>7. Field \in heard' => Contains(lines \o pieces, Whole(Field))
  BY <1>1, <1>6, LinesKept
<1> QED
  BY <1>5, <1>7

LEMMA RecvShortStep ==
  ASSUME IInv, RecvShort
  PROVE  IInv'
<1> DEFINE pieces == Received(arrived, begins)
<1>1. /\ wire \in Seq(Frames) /\ arrived \in 0..Len(wire) /\ lines \in Seq(Payloads)
      /\ begins \in {"none", "prefix", "value"}
      /\ begins # "none" => arrived < Len(wire)
  BY DEF IInv, TypeOK, Frames, CutAhead
<1>2. pieces \in Seq(Payloads)
  BY <1>1, ReceivedType
<1>3. wire' \in Seq(Frames)
  BY <1>1, UnreadFrames DEF RecvShort
<1> HIDE DEF pieces
<1>4. step = "recv" /\ Hear(pieces) /\ EndRead(lines \o pieces)
  BY DEF RecvShort, pieces
<1>5. /\ heard' = heard \/ heard' = heard \cup {Field}
      /\ Field \in heard' => Contains(lines \o pieces, Whole(Field))
  BY <1>2, <1>4, HearWhole
<1>6. lines \o pieces \in Seq(Payloads)
  BY <1>1, <1>2
<1>7. arrived' = 0 /\ begins' = "none"
  BY DEF RecvShort
<1>8. CutAhead' /\ arrived' \in 0..Len(wire') /\ begins' \in {"none", "prefix", "value"}
  BY <1>3, <1>7 DEF CutAhead
<1> QED
  BY <1>3, <1>4, <1>5, <1>6, <1>8, EndReadStep

LEMMA RecvNothingStep ==
  ASSUME IInv, RecvNothing
  PROVE  IInv'
<1>1. /\ wire \in Seq(Frames) /\ arrived \in 0..Len(wire) /\ lines \in Seq(Payloads)
      /\ begins \in {"none", "prefix", "value"}
  BY DEF IInv, TypeOK, Frames
<1>2. /\ wire' = wire /\ arrived' = arrived /\ begins' = begins /\ heard' = heard
      /\ step = "recv" /\ EndRead(lines)
  BY DEF RecvNothing, transit
<1>3. CutAhead'
  BY <1>2 DEF IInv, CutAhead
<1>4. asked + 1 \in DOMAIN Fields /\ Field = Fields[asked + 1] /\ asked + 1 > asked
  BY <1>2, FieldType DEF IInv, TypeOK, Asking
<1>5. Field \in heard => Contains(lines, Whole(Field))
  BY <1>2, <1>4 DEF IInv, HeardInTurn
<1> QED
  BY <1>1, <1>2, <1>3, <1>5, EndReadStep

(* A full recv: the rest of a payload it cut is at the front of the wire.  *)
LEMMA TakeChunkStep ==
  ASSUME IInv, step = "recv", step' = "look", waited' = 0,
         UNCHANGED <<clock, greeted, since, asked, attempt, got, result, requested, peer, begins>>,
         NEW n \in Nat, NEW part \in {"none", "prefix", "value"}, n <= arrived,
         part # "none" => n < arrived, TakeChunk(n, part)
  PROVE  IInv'
<1> DEFINE pieces == Received(n, part)
           left == Unread(n, part)
<1> USE DEF IInv, TypeOK, clock, peer
<1>1. /\ wire \in Seq(Frames) /\ lines \in Seq(Payloads)
      /\ n \in 0..Len(wire)
      /\ part # "none" => n < Len(wire)
  BY DEF Frames
<1>2. pieces \in Seq(Payloads)
  BY <1>1, ReceivedType
<1>3. /\ left \in Seq(Frames) /\ Len(left) = Len(wire) - n
      /\ \A i \in 2..(Len(wire) - n) : left[i] = wire[n + i]
      /\ part = "none" => \A i \in 1..(Len(wire) - n) : left[i] = wire[n + i]
  BY <1>1, UnreadFrames
<1>4. /\ lines' = lines \o pieces /\ Hear(pieces)
      /\ wire' = left /\ arrived' = arrived - n /\ begins' = begins
  BY DEF TakeChunk
<1> HIDE DEF pieces, left
<1>5. /\ heard' = heard \/ heard' = heard \cup {Field}
      /\ Field \in heard' => Contains(lines', Whole(Field))
  BY <1>2, <1>4, HearWhole
<1>6. asked < Len(Fields) /\ asked + 1 \in DOMAIN Fields /\ Field \in Range(Fields)
  BY FieldType DEF Asking
<1>7. TypeOK'
  <2>1. arrived' \in 0..Len(wire')
    BY <1>1, <1>3, <1>4
  <2>2. lines' \in Seq(Payloads) /\ heard' \subseteq Range(Fields)
    BY <1>1, <1>2, <1>4, <1>5, <1>6
  <2> QED
    BY <1>3, <1>4, <2>1, <2>2 DEF Frames
<1>8. CutAhead'
  <2> SUFFICES ASSUME begins # "none"
               PROVE  arrived' < Len(wire') /\ ~wire'[arrived' + 1].rest
    BY <1>4 DEF CutAhead
  <2>1. arrived < Len(wire) /\ ~wire[arrived + 1].rest
    BY DEF CutAhead
  <2>2. arrived - n + 1 \in 1..(Len(wire) - n) /\ n + (arrived - n + 1) = arrived + 1
    BY <1>1, <2>1
  <2>3. left[arrived - n + 1] = wire[arrived + 1]
    <3>1. CASE part = "none"
      BY <1>3, <2>2, <3>1
    <3>2. CASE part # "none"
      <4>1. arrived - n + 1 \in 2..(Len(wire) - n)
        BY <1>1, <2>1, <3>2
      <4> QED
        BY <1>3, <2>2, <4>1
    <3> QED
      BY <3>1, <3>2
  <2> QED
    BY <1>1, <1>3, <1>4, <2>1, <2>3
<1>9. Asking' /\ InTime'
  BY DEF Asking, InTime
<1>10. HeardInTurn'
  <2>1. Field' = Field
    BY DEF Field
  <2>2. \A i \in DOMAIN Fields : Fields[i] = Field => i = asked + 1
    BY <1>6, SessionAssumption DEF Field
  <2>3. \A i \in DOMAIN Fields : i > asked /\ Fields[i] \in heard' => i = asked + 1
    BY <1>5, <2>2 DEF HeardInTurn
  <2>4. Fields[asked + 1] = Field
    BY DEF Field
  <2> QED
    BY <1>5, <2>1, <2>3, <2>4 DEF HeardInTurn
<1>11. NothingOverlooked'
  <2>1. \A i \in 1..asked : Fields[i] # Field
    BY <1>6, SessionAssumption DEF Field
  <2>2. \A i \in 1..asked : Fields[i] \in heard' => Fields[i] \in heard
    BY <1>5, <2>1
  <2> QED
    BY <2>2 DEF NothingOverlooked
<1> QED
  BY <1>7, <1>8, <1>9, <1>10, <1>11

LEMMA RecvFullStep ==
  ASSUME IInv, RecvFull
  PROVE  IInv'
<1>1. Chunk \in Nat \ {0} /\ arrived \in Nat /\ arrived >= Chunk
  BY SessionAssumption DEF RecvFull, IInv, TypeOK
<1>2. Chunk - 1 \in Nat /\ Chunk - 1 <= arrived /\ Chunk - 1 < arrived /\ Chunk <= arrived
  BY <1>1
<1>3. /\ step = "recv" /\ step' = "look" /\ waited' = 0
      /\ UNCHANGED <<clock, greeted, since, asked, attempt, got, result, requested, peer, begins>>
  BY DEF RecvFull
<1>4. CASE TakeChunk(Chunk, "none")
  BY <1>1, <1>2, <1>3, <1>4, TakeChunkStep
<1>5. CASE TakeChunk(Chunk - 1, "prefix")
  BY <1>2, <1>3, <1>5, TakeChunkStep
<1>6. CASE TakeChunk(Chunk - 1, "value")
  BY <1>2, <1>3, <1>6, TakeChunkStep
<1> QED
  BY <1>4, <1>5, <1>6 DEF RecvFull

-----------------------------------------------------------------------------
(* The session keeps the invariant, whatever the desk does.                *)
LEMMA StepInvariant == IInv /\ [Next]_sessionVars => IInv'
<1> SUFFICES ASSUME IInv, [Next]_sessionVars
             PROVE  IInv'
  OBVIOUS
<1>1. CASE Environment \/ Tick \/ UNCHANGED sessionVars
  BY <1>1, EnvironmentStep
<1>2. CASE Handshake
  BY <1>2, HandshakeStep
<1>3. CASE WriteRequest
  BY <1>3, WriteRequestStep
<1>4. CASE BeginRecv
  BY <1>4, BeginRecvStep
<1>5. CASE GiveUpRest
  BY <1>5, GiveUpRestStep
<1>6. CASE RecvShort
  BY <1>6, RecvShortStep
<1>7. CASE RecvFull
  BY <1>7, RecvFullStep
<1>8. CASE RecvNothing
  BY <1>8, RecvNothingStep
<1>9. CASE TimeOut
  BY <1>9, EndStep DEF TimeOut, Ended
<1>10. CASE FinishSession
  BY <1>10, EndStep DEF FinishSession, Ended
<1>11. CASE SessionBreaks
  BY <1>11, EndStep DEF SessionBreaks, Ended
<1> QED
  BY <1>1, <1>2, <1>3, <1>4, <1>5, <1>6, <1>7, <1>8, <1>9, <1>10, <1>11
  DEF Next, Exchange, Over

(* The inductive invariant holds however the desk's payloads are delayed,  *)
(* repeated and cut.                                                       *)
THEOREM Invariance == Spec => []IInv
<1> QED
  BY InitInvariant, StepInvariant, PTL DEF Spec

(* Every variable keeps its type: in particular a payload cut in two is    *)
(* read as two pieces of the same topic (_read_available_payloads).        *)
THEOREM TypeCorrectness == Spec => []TypeOK
<1>1. IInv => TypeOK
  BY DEF IInv
<1> QED
  BY <1>1, Invariance, PTL

(* A field the session is through with has a value if a read for it got an *)
(* answer to it whole.                                                     *)
THEOREM AnswersAreTaken == Spec => []NothingOverlooked
<1>1. IInv => NothingOverlooked
  BY DEF IInv
<1> QED
  BY <1>1, Invariance, PTL

-----------------------------------------------------------------------------
(* The patience of the session.                                            *)

(* What is left of a payload that was cut is the next to be read.          *)
RestFirst == \A i \in 2..Len(wire) : ~wire[i].rest

Rested == step \in {"write", "look"} => waited = 0

(* Each fruitless read is paid for by a piece of a payload or a timeout of *)
(* the socket; the recv under way has waited beyond what was paid.         *)
Patience ==
  Live /\ ~closed /\ now < deadline =>
    SocketTimeout * (Fruitless - PiecesAtMost) + (IF step = "recv" THEN waited ELSE 0) <= now

PInv == RestFirst /\ Rested /\ deadline <= Budget /\ Patience

LEMMA Products ==
  ASSUME NEW k \in Nat, NEW x \in Int, NEW y \in Int
  PROVE  /\ k * x \in Int
         /\ k * (x + 1) = k * x + k
         /\ x <= y => k * x <= k * y
  OBVIOUS

LEMMA PatienceTypes ==
  ASSUME IInv
  PROVE  /\ IsFiniteSet(Valueless) /\ Cardinality(Valueless) \in Nat
         /\ Fruitless \in Nat /\ Cut \in {0, 1} /\ PiecesAtMost \in Int
<1>1. asked \in Nat /\ attempt \in 1..2 /\ sent \in Int /\ Len(wire) \in Nat
  BY SessionAssumption DEF IInv, TypeOK
<1>2. IsFiniteSet(1..asked) /\ Valueless \in SUBSET (1..asked)
  BY <1>1, FS_Interval DEF Valueless
<1>3. IsFiniteSet(Valueless)
  BY <1>2, FS_Subset
<1>4. Cardinality(Valueless) \in Nat
  BY <1>3, FS_CardinalityType
<1>5. Cut \in {0, 1}
  BY DEF Cut
<1> QED
  BY <1>1, <1>3, <1>4, <1>5 DEF Fruitless, PiecesAtMost

(* What a recv takes off the wire counts for one piece or more.            *)
LEMMA PiecesGrow ==
  ASSUME IInv, RestFirst, NEW n \in 0..Len(wire), NEW part \in {"none", "prefix", "value"},
         part # "none" => n < Len(wire), wire' = Unread(n, part), sent' = sent
  PROVE  /\ RestFirst'
         /\ PiecesAtMost' \in Int /\ PiecesAtMost <= PiecesAtMost'
         /\ (n > 0 \/ (part # "none" /\ ~wire[1].rest)) => PiecesAtMost + 1 <= PiecesAtMost'
<1>1. wire \in Seq(Frames) /\ sent \in Int /\ Len(wire) \in Nat /\ n \in Nat
  BY SessionAssumption DEF IInv, TypeOK, Frames
<1>2. /\ wire' \in Seq(Frames) /\ Len(wire') = Len(wire) - n
      /\ \A i \in 2..(Len(wire) - n) : wire'[i] = wire[n + i]
      /\ part = "none" => \A i \in 1..(Len(wire) - n) : wire'[i] = wire[n + i]
  BY <1>1, UnreadFrames
<1>3. RestFirst'
  <2> SUFFICES ASSUME NEW i \in 2..Len(wire')
               PROVE  ~wire'[i].rest
    BY DEF RestFirst
  <2>1. n + i \in 2..Len(wire) /\ wire'[i] = wire[n + i]
    BY <1>1, <1>2
  <2> QED
    BY <2>1 DEF RestFirst
<1>4. Cut \in {0, 1} /\ Cut' \in {0, 1}
  BY DEF Cut
<1>5. PiecesAtMost = 2 * (sent - Len(wire)) + Cut
      /\ PiecesAtMost' = 2 * (sent - (Len(wire) - n)) + Cut'
  BY <1>2 DEF PiecesAtMost
<1>6. CASE part # "none"
  <2>1. wire'[1].rest /\ wire' # <<>>
    <3> DEFINE left == SubSeq(wire, n + 1, Len(wire))
               first == [left[1] EXCEPT !.rest = TRUE]
    <3>1. Len(left) = Len(wire) - n /\ left \in Seq(Frames)
      BY <1>1, Z3
    <3>2. 1 \in 1..Len(left)
      BY <1>1, <1>6, <3>1
    <3>3. left[1] \in Frames
      BY <3>1, <3>2
    <3>4. first.rest
      BY <3>3, Zenon DEF Frames
    <3>5. wire' = [left EXCEPT ![1] = first]
      BY <1>6, Zenon DEF Unread
    <3> HIDE DEF left, first
    <3>6. wire'[1] = first
      BY <3>1, <3>2, <3>5
    <3>7. Len(wire') # 0
      BY <1>1, <1>2, <1>6
    <3> QED
      BY <3>4, <3>6, <3>7
  <2>2. Cut' = 1
    BY <2>1 DEF Cut
  <2>3. ~wire[1].rest => Cut = 0
    BY DEF Cut
  <2> QED
    BY <1>1, <1>3, <1>4, <1>5, <2>2, <2>3
<1>7. CASE part = "none" /\ n > 0
  BY <1>1, <1>3, <1>4, <1>5, <1>7
<1>8. CASE part = "none" /\ n = 0
  <2>1. Cut = 1 => Cut' = 1
    <3> SUFFICES ASSUME wire # <<>>, wire[1].rest
                 PROVE  wire' # <<>> /\ wire'[1].rest
      BY DEF Cut
    <3>1. Len(wire) # 0 /\ 1 \in 1..Len(wire)
      BY <1>1
    <3>2. Len(wire') # 0 /\ wire'[1] = wire[1]
      BY <1>1, <1>2, <1>8, <3>1
    <3> QED
      BY <3>2
  <2> QED
    BY <1>1, <1>3, <1>4, <1>5, <1>8, <2>1
<1> QED
  BY <1>6, <1>7, <1>8

(* A read adds at most itself to the fruitless ones.                       *)
LEMMA FruitlessGrows ==
  ASSUME IInv, IInv', step = "recv", NEW all \in Seq(Payloads), EndRead(all)
  PROVE  Fruitless' <= Fruitless + 1
<1>1. asked < Len(Fields) /\ asked \in Nat /\ attempt \in 1..2 /\ attempt' \in 1..2
  BY SessionAssumption DEF IInv, Asking, TypeOK
<1>2. /\ IsFiniteSet(Valueless) /\ Cardinality(Valueless) \in Nat
      /\ IsFiniteSet(Valueless') /\ Cardinality(Valueless') \in Nat
  <2>1. asked' \in Nat
    BY SessionAssumption DEF IInv, TypeOK
  <2>2. IsFiniteSet(1..asked') /\ Valueless' \in SUBSET (1..asked')
    BY <2>1, FS_Interval DEF Valueless
  <2>3. IsFiniteSet(Valueless')
    BY <2>2, FS_Subset
  <2> QED
    BY <2>3, PatienceTypes, FS_CardinalityType
<1>3. \A i \in 1..asked : Fields[i] \in Range(Fields) /\ Fields[i] # Field
  BY <1>1, SessionAssumption DEF Field, Range
<1>4. CASE \E i \in DOMAIN all : IsAnswer(all, i) /\ Took(all[i]) /\ NextField
  <2>1. PICK i \in DOMAIN all : Took(all[i]) /\ NextField
    BY <1>4
  <2>2. all[i] \in Payloads
    OBVIOUS
  <2>3. result'[Field] # None /\ \A f \in Range(Fields) : f # Field => result'[f] = result[f]
    BY <1>1, <2>1, <2>2, TookValue DEF IInv
  <2>4. asked' = asked + 1 /\ attempt' = 1
    BY <2>1 DEF NextField
  <2>5. Valueless' \subseteq Valueless
    <3> SUFFICES ASSUME NEW k \in 1..(asked + 1), result'[Fields[k]] = None
                 PROVE  k \in 1..asked /\ result[Fields[k]] = None
      BY <2>4 DEF Valueless
    <3>1. k # asked + 1
      BY <2>3 DEF Field
    <3>2. k \in 1..asked
      BY <1>1, <3>1
    <3> QED
      BY <1>3, <2>3, <3>2
  <2>6. Cardinality(Valueless') <= Cardinality(Valueless)
    BY <1>2, <2>5, FS_Subset
  <2> QED
    BY <1>1, <1>2, <2>4, <2>6 DEF Fruitless
<1>5. CASE LastAttempt /\ NextField /\ UNCHANGED <<got, result>>
  <2>1. asked' = asked + 1 /\ attempt' = 1 /\ attempt = 2 /\ result' = result
    BY <1>5 DEF NextField, LastAttempt
  <2>2. Valueless' \subseteq Valueless \cup {asked + 1}
    BY <1>1, <2>1 DEF Valueless
  <2>3. /\ IsFiniteSet(Valueless \cup {asked + 1})
        /\ Cardinality(Valueless \cup {asked + 1}) <= Cardinality(Valueless) + 1
    <3> DEFINE more == Valueless \cup {asked + 1}
    <3>1. /\ IsFiniteSet(more)
          /\ Cardinality(more) = IF asked + 1 \in Valueless THEN Cardinality(Valueless)
                                                           ELSE Cardinality(Valueless) + 1
      BY <1>2, FS_AddElement
    <3> HIDE DEF more
    <3>2. Cardinality(more) <= Cardinality(Valueless) + 1
      BY <1>2, <3>1
    <3> QED
      BY <3>1, <3>2 DEF more
  <2>4. /\ Cardinality(Valueless') <= Cardinality(Valueless \cup {asked + 1})
        /\ Cardinality(Valueless \cup {asked + 1}) \in Nat
    BY <2>2, <2>3, FS_Subset, FS_CardinalityType
  <2> QED
    BY <1>2, <2>1, <2>3, <2>4 DEF Fruitless
<1>6. CASE attempt' = attempt + 1 /\ UNCHANGED <<since, asked, got, result>>
  <2>1. Valueless' = Valueless
    BY <1>6 DEF Valueless
  <2> QED
    BY <1>1, <1>2, <1>6, <2>1 DEF Fruitless
<1> QED
  BY <1>4, <1>5, <1>6 DEF EndRead

(* What changes neither the reads nor the pieces.                          *)
LEMMA PatienceUnmoved ==
  ASSUME IInv, PInv, UNCHANGED <<now, deadline, asked, attempt, result, wire, sent>>,
         closed' = closed \/ closed' = TRUE,
         Live' => Live,
         step' = "recv" => waited' = 0 \/ (step = "recv" /\ waited' = waited),
         step' \in {"write", "look"} => waited' = 0
  PROVE  PInv'
<1>1. RestFirst' /\ deadline' <= Budget
  BY DEF PInv, RestFirst
<1>2. Rested'
  BY DEF Rested
<1>3. Patience'
  <2> SUFFICES ASSUME Live', ~closed', now < deadline
               PROVE  SocketTimeout * (Fruitless - PiecesAtMost)
                        + (IF step' = "recv" THEN waited' ELSE 0) <= now
    BY DEF Patience, Fruitless, Valueless, PiecesAtMost, Cut
  <2> DEFINE paid == SocketTimeout * (Fruitless - PiecesAtMost)
  <2>1. paid \in Int
    BY PatienceTypes, Products, SessionAssumption
  <2> HIDE DEF paid
  <2>2. paid + (IF step = "recv" THEN waited ELSE 0) <= now
    BY DEF PInv, Patience, paid
  <2>3. waited \in Nat /\ now \in Nat
    BY DEF IInv, TypeOK
  <2>4. paid + (IF step' = "recv" THEN waited' ELSE 0) <= now
    BY <2>1, <2>2, <2>3
  <2> QED
    BY <2>4 DEF paid
<1> QED
  BY <1>1, <1>2, <1>3 DEF PInv

(* The end of a read that got a piece, or nothing before its timeout.      *)
LEMMA ReadPatience ==
  ASSUME IInv, IInv', PInv, step = "recv", NEW all \in Seq(Payloads), EndRead(all),
         PiecesAtMost' \in Int, PiecesAtMost <= PiecesAtMost',
         PiecesAtMost + 1 <= PiecesAtMost' \/ NothingComes
  PROVE  Patience'
<1> SUFFICES ASSUME Live', ~closed', now' < deadline'
             PROVE  SocketTimeout * (Fruitless' - PiecesAtMost')
                      + (IF step' = "recv" THEN waited' ELSE 0) <= now'
  BY DEF Patience
<1>1. now' = now /\ deadline' = deadline /\ closed' = closed /\ waited' = 0 /\ Live
  BY DEF EndRead, clock, peer, Live, Ended
<1>2. now \in Nat /\ waited \in Nat /\ deadline \in Int /\ SocketTimeout \in Nat
  BY SessionAssumption DEF IInv, TypeOK
<1> DEFINE d == Fruitless - PiecesAtMost
           e == Fruitless' - PiecesAtMost'
<1>3. /\ Fruitless \in Nat /\ PiecesAtMost \in Int /\ Fruitless' \in Int
      /\ Fruitless' <= Fruitless + 1
  <2>1. Fruitless' \in Int
    <3>1. asked' \in 0..Len(Fields) /\ attempt' \in 1..2
      <4>1. TypeOK'
        BY Zenon DEF IInv
      <4> QED
        BY <4>1 DEF TypeOK
    <3>2. asked' \in Nat /\ attempt' \in Int
      BY <3>1, SessionAssumption
    <3>3. IsFiniteSet(1..asked') /\ Valueless' \in SUBSET (1..asked')
      BY <3>2, FS_Interval DEF Valueless
    <3>4. Cardinality(Valueless') \in Nat
      BY <3>3, FS_Subset, FS_CardinalityType
    <3> QED
      BY <3>2, <3>4 DEF Fruitless
  <2> QED
    BY <2>1, PatienceTypes, FruitlessGrows
<1>4. /\ d \in Int /\ e \in Int /\ e <= d + 1
      /\ PiecesAtMost + 1 <= PiecesAtMost' => e <= d
  <2>1. PiecesAtMost' \in Int /\ PiecesAtMost <= PiecesAtMost'
    OBVIOUS
  <2>2. d \in Int
    BY <1>3
  <2>3. e \in Int
    BY <1>3, <2>1
  <2>4. \E f, g, p, q \in Int : f = Fruitless /\ g = Fruitless' /\ p = PiecesAtMost
                                /\ q = PiecesAtMost'
    BY <1>3, <2>1
  <2>5. PICK f \in Int, g \in Int, p \in Int, q \in Int :
               f = Fruitless /\ g = Fruitless' /\ p = PiecesAtMost /\ q = PiecesAtMost'
    BY <2>4
  <2>6. g <= f + 1 /\ p <= q /\ d = f - p /\ e = g - q
    BY <1>3, <2>1, <2>5
  <2> HIDE DEF d, e
  <2>7. e <= d + 1
    BY <2>6
  <2>8. PiecesAtMost + 1 <= PiecesAtMost' => e <= d
    <3>1. p + 1 <= q => e <= d
      BY <2>6
    <3>2. PiecesAtMost + 1 <= PiecesAtMost' => p + 1 <= q
      BY <2>5
    <3> QED
      BY <3>1, <3>2
  <2> QED
    BY <2>2, <2>3, <2>7, <2>8
<1>5. SocketTimeout * d + waited <= now
  <2> DEFINE paid == SocketTimeout * d
  <2>1. now < deadline /\ ~closed
    BY <1>1
  <2>2. paid + (IF step = "recv" THEN waited ELSE 0) <= now
    BY <1>1, <2>1 DEF PInv, Patience
  <2> HIDE DEF paid
  <2>3. paid + waited <= now
    BY <2>2
  <2> QED
    BY <2>3 DEF paid
<1>6. SUFFICES SocketTimeout * e <= now
  <2> DEFINE paid == SocketTimeout * e
  <2>1. paid \in Int
    BY <1>2, <1>4, Products
  <2>2. SUFFICES paid + (IF step' = "recv" THEN waited' ELSE 0) <= now'
    OBVIOUS
  <2> HIDE DEF paid
  <2>3. paid <= now
    BY DEF paid
  <2> QED
    BY <1>1, <1>2, <2>1, <2>3
<1> HIDE DEF d, e
<1>7. /\ SocketTimeout * d \in Int /\ SocketTimeout * e \in Int
      /\ SocketTimeout * (d + 1) = SocketTimeout * d + SocketTimeout
      /\ e <= d => SocketTimeout * e <= SocketTimeout * d
      /\ SocketTimeout * e <= SocketTimeout * (d + 1)
  <2>1. d + 1 \in Int
    BY <1>4
  <2> QED
    BY <1>2, <1>4, <2>1, Products
<1>8. CASE PiecesAtMost + 1 <= PiecesAtMost'
  BY <1>2, <1>4, <1>5, <1>7, <1>8
<1>9. CASE NothingComes
  <2>1. waited >= SocketTimeout
    BY <1>1, <1>2, <1>9 DEF NothingComes
  <2> QED
    BY <1>2, <1>5, <1>7, <2>1
<1> QED
  BY <1>8, <1>9

(* A payload that is sent is neither read nor cut.                         *)
LEMMA SentPatience ==
  ASSUME IInv, PInv, DeskSends
  PROVE  PInv'
<1>1. PICK t \in requested \cup Foreign : wire' = Append(wire, [topic |-> t, rest |-> FALSE])
  BY DEF DeskSends
<1> DEFINE frame == [topic |-> t, rest |-> FALSE]
<1>2. ~frame.rest
  OBVIOUS
<1> HIDE DEF frame
<1>3. wire' = Append(wire, frame) /\ wire \in Seq(Frames) /\ Len(wire) \in Nat
  BY <1>1 DEF frame, IInv, TypeOK, Frames
<1>4. Len(wire') = Len(wire) + 1 /\ wire'[Len(wire) + 1] = frame
      /\ \A i \in 1..Len(wire) : wire'[i] = wire[i]
  BY <1>3
<1>5. RestFirst'
  <2> SUFFICES ASSUME NEW i \in 2..Len(wire')
               PROVE  ~wire'[i].rest
    BY DEF RestFirst
  <2>1. CASE i = Len(wire) + 1
    BY <1>2, <1>4, <2>1
  <2>2. CASE i # Len(wire) + 1
    <3>1. i \in 2..Len(wire) /\ wire'[i] = wire[i]
      BY <1>3, <1>4, <2>2
    <3> QED
      BY <3>1 DEF PInv, RestFirst
  <2> QED
    BY <2>1, <2>2
<1>6. Cut' = Cut
  <2>1. CASE Len(wire) = 0
    BY <1>2, <1>3, <1>4, <2>1 DEF Cut
  <2>2. CASE Len(wire) # 0
    <3>1. wire # <<>> /\ wire' # <<>> /\ wire'[1] = wire[1]
      BY <1>3, <1>4, <2>2
    <3> QED
      BY <3>1 DEF Cut
  <2> QED
    BY <2>1, <2>2
<1>7. PiecesAtMost' = PiecesAtMost
  <2>1. sent' = sent + 1 /\ sent \in Int
    BY SessionAssumption DEF DeskSends, IInv, TypeOK
  <2>2. sent' - Len(wire') = sent - Len(wire)
    BY <1>3, <1>4, <2>1
  <2> QED
    BY <1>6, <2>2 DEF PiecesAtMost
<1>8. UNCHANGED <<now, deadline, step, asked, attempt, waited, result, closed>>
  BY DEF DeskSends, clock, query
<1>9. Fruitless' = Fruitless /\ Live' = Live
  BY <1>8 DEF Fruitless, Valueless, Live
<1> QED
  BY <1>5, <1>7, <1>8, <1>9 DEF PInv, Rested, Patience

(* Time in a recv counts as waited, until the clock of the model stops,    *)
(* which it does no sooner than the deadline.                              *)
LEMMA TickPatience ==
  ASSUME IInv, PInv, Budget <= MaxTime, Tick
  PROVE  PInv'
<1>1. /\ UNCHANGED <<deadline, step, asked, attempt, result, wire, sent, closed>>
      /\ now' = IF now < MaxTime THEN now + 1 ELSE now
      /\ waited' = IF Waiting THEN waited + 1 ELSE 0
      /\ now \in Nat /\ waited \in Nat /\ deadline \in Int /\ deadline <= Budget
      /\ Budget \in Nat /\ MaxTime \in Nat
  BY SessionAssumption DEF Tick, peer, transit, IInv, TypeOK, PInv
<1>2. Fruitless' = Fruitless /\ PiecesAtMost' = PiecesAtMost /\ Live' = Live
  BY <1>1 DEF Fruitless, Valueless, PiecesAtMost, Cut, Live
<1>3. Patience'
  <2> SUFFICES ASSUME Live, ~closed, now' < deadline
               PROVE  SocketTimeout * (Fruitless - PiecesAtMost)
                        + (IF step = "recv" THEN waited' ELSE 0) <= now'
    BY <1>1, <1>2 DEF Patience
  <2> DEFINE paid == SocketTimeout * (Fruitless - PiecesAtMost)
  <2>1. paid \in Int
    BY PatienceTypes, Products, SessionAssumption
  <2> HIDE DEF paid
  <2>2. now' = now + 1 /\ now < deadline
    BY <1>1
  <2>3. paid + (IF step = "recv" THEN waited ELSE 0) <= now
    BY <2>2 DEF PInv, Patience, paid
  <2>4. waited' = waited + 1 \/ step # "recv"
    BY <1>1 DEF Waiting
  <2>5. paid + (IF step = "recv" THEN waited' ELSE 0) <= now'
    BY <1>1, <2>1, <2>2, <2>3, <2>4
  <2> QED
    BY <2>5 DEF paid
<1>4. Rested'
  BY <1>1 DEF Rested, Waiting
<1> QED
  BY <1>1, <1>3, <1>4 DEF PInv, RestFirst

LEMMA RecvShortPatience ==
  ASSUME IInv, IInv', PInv, RecvShort
  PROVE  PInv'
<1> DEFINE pieces == Received(arrived, begins)
<1>1. /\ wire \in Seq(Frames) /\ arrived \in 0..Len(wire) /\ lines \in Seq(Payloads)
      /\ begins \in {"none", "prefix", "value"}
      /\ begins # "none" => arrived < Len(wire) /\ ~wire[arrived + 1].rest
  BY DEF IInv, TypeOK, Frames, CutAhead
<1>2. /\ step = "recv" /\ wire' = Unread(arrived, begins)
      /\ EndRead(lines \o pieces) /\ (arrived > 0 \/ begins # "none")
  BY DEF RecvShort
<1>3. /\ sent' = sent /\ deadline' = deadline
      /\ step' \in {"write", "finish"} /\ waited' = 0
  BY <1>2 DEF EndRead, peer, clock, NextField
<1>4. pieces \in Seq(Payloads)
  BY <1>1, ReceivedType
<1> HIDE DEF pieces
<1>5. lines \o pieces \in Seq(Payloads)
  BY <1>1, <1>4
<1>6. arrived > 0 \/ (begins # "none" /\ ~wire[1].rest)
  <2>1. CASE arrived = 0
    BY <1>1, <1>2, <2>1
  <2>2. CASE arrived > 0
    BY <2>2
  <2> QED
    BY <1>1, <2>1, <2>2
<1>7. /\ RestFirst' /\ PiecesAtMost' \in Int /\ PiecesAtMost <= PiecesAtMost'
      /\ PiecesAtMost + 1 <= PiecesAtMost'
  BY <1>1, <1>2, <1>3, <1>6, PiecesGrow DEF PInv
<1>8. Patience'
  BY <1>2, <1>5, <1>7, ReadPatience
<1> QED
  BY <1>3, <1>7, <1>8 DEF PInv, Rested

LEMMA RecvNothingPatience ==
  ASSUME IInv, IInv', PInv, RecvNothing
  PROVE  PInv'
<1>1. /\ step = "recv" /\ EndRead(lines) /\ lines \in Seq(Payloads) /\ NothingComes
      /\ UNCHANGED transit
  BY DEF RecvNothing, IInv, TypeOK
<1>2. /\ sent' = sent /\ deadline' = deadline /\ wire' = wire
      /\ step' \in {"write", "finish"} /\ waited' = 0
  BY <1>1 DEF EndRead, peer, clock, NextField, transit
<1>3. PiecesAtMost' = PiecesAtMost /\ PiecesAtMost \in Int
  BY <1>2, PatienceTypes DEF PiecesAtMost, Cut
<1>4. PiecesAtMost' \in Int /\ PiecesAtMost <= PiecesAtMost'
  BY <1>3
<1>5. Patience'
  BY <1>1, <1>4, ReadPatience
<1> QED
  BY <1>2, <1>5 DEF PInv, Rested, RestFirst

LEMMA RecvFullPatience ==
  ASSUME IInv, PInv, RecvFull
  PROVE  PInv'
<1>1. /\ step = "recv" /\ step' = "look" /\ waited' = 0
      /\ UNCHANGED <<now, deadline, asked, attempt, result, sent, closed>>
  BY DEF RecvFull, clock, peer
<1>2. /\ Chunk \in Nat \ {0} /\ arrived \in 0..Len(wire) /\ arrived >= Chunk /\ Len(wire) \in Nat
      /\ SocketTimeout \in Nat /\ waited \in Nat /\ now \in Nat
  BY SessionAssumption DEF RecvFull, IInv, TypeOK
<1>3. \/ TakeChunk(Chunk, "none") \/ TakeChunk(Chunk - 1, "prefix")
      \/ TakeChunk(Chunk - 1, "value")
  BY DEF RecvFull
<1>4. PICK n \in 0..Len(wire), part \in {"none", "prefix", "value"} :
             TakeChunk(n, part) /\ (part # "none" => n < Len(wire))
  <2>1. /\ Chunk \in 0..Len(wire) /\ Chunk - 1 \in 0..Len(wire) /\ Chunk - 1 < Len(wire)
    BY <1>2
  <2> QED
    BY <1>3, <2>1
<1>5. wire' = Unread(n, part)
  BY <1>4 DEF TakeChunk
<1>6. RestFirst' /\ PiecesAtMost' \in Int /\ PiecesAtMost <= PiecesAtMost'
  BY <1>1, <1>4, <1>5, PiecesGrow DEF PInv
<1>7. Fruitless' = Fruitless /\ Fruitless \in Nat /\ PiecesAtMost \in Int
  BY <1>1, PatienceTypes DEF Fruitless, Valueless
<1>8. Patience'
  <2> DEFINE d == Fruitless - PiecesAtMost
             e == Fruitless - PiecesAtMost'
  <2>1. d \in Int /\ e \in Int /\ e <= d
    <3>1. \E f, p, q \in Int : f = Fruitless /\ p = PiecesAtMost /\ q = PiecesAtMost'
      BY <1>6, <1>7
    <3>2. PICK f \in Int, p \in Int, q \in Int :
                 f = Fruitless /\ p = PiecesAtMost /\ q = PiecesAtMost'
      BY <3>1
    <3>3. d = f - p /\ e = f - q /\ p <= q
      BY <1>6, <3>2
    <3> HIDE DEF d, e
    <3> QED
      BY <3>3
  <2>2. SUFFICES ASSUME Live, ~closed, now < deadline
                 PROVE  SocketTimeout * e <= now
    <3> DEFINE paid == SocketTimeout * e
    <3>1. paid \in Int
      BY <1>2, <2>1, Products
    <3>2. Live
      BY <1>1 DEF Live, Ended
    <3>3. SUFFICES ASSUME ~closed, now < deadline
                   PROVE  paid + 0 <= now
      BY <1>1, <1>7 DEF Patience
    <3>4. paid <= now
      BY <3>2, <3>3
    <3> HIDE DEF paid
    <3> QED
      BY <1>2, <3>1, <3>4
  <2>3. SocketTimeout * d + waited <= now
    BY <1>1, <2>2 DEF PInv, Patience
  <2> HIDE DEF d, e
  <2>4. SocketTimeout * d \in Int /\ SocketTimeout * e \in Int
        /\ SocketTimeout * e <= SocketTimeout * d
    BY <1>2, <2>1, Products
  <2> QED
    BY <1>2, <2>3, <2>4
<1> QED
  BY <1>1, <1>6, <1>8 DEF PInv, Rested

LEMMA PatienceInit == Init => PInv
<1> SUFFICES ASSUME Init
             PROVE  PInv
  OBVIOUS
<1>1. Fruitless = 0 /\ PiecesAtMost = 0
  <2>1. Valueless = {} /\ attempt = 1
    BY DEF Init, Valueless
  <2>2. Cut = 0 /\ sent = 0 /\ Len(wire) = 0
    BY DEF Init, Cut
  <2> QED
    BY <2>1, <2>2, FS_EmptySet DEF Fruitless, PiecesAtMost
<1>2. Patience
  BY <1>1, SessionAssumption DEF Init, Patience
<1> QED
  BY <1>2, SessionAssumption DEF Init, PInv, RestFirst, Rested

LEMMA PatienceStep ==
  ASSUME IInv, IInv', PInv, Budget <= MaxTime, [Next]_sessionVars
  PROVE  PInv'
<1>1. CASE \/ DeskHangsUp \/ Arrive \/ ArriveInPart \/ UNCHANGED sessionVars
           \/ GreetingGoesOn \/ ReadGreeting \/ OpenSession \/ WriteRequest \/ BeginRecv
  <2>1. UNCHANGED <<now, deadline, asked, attempt, result, wire, sent>>
    BY <1>1 DEF DeskHangsUp, Arrive, ArriveInPart, sessionVars, GreetingGoesOn, ReadGreeting,
       OpenSession, WriteRequest, BeginRecv, clock, query, peer, transit
  <2>2. closed' = closed \/ closed' = TRUE
    BY <1>1 DEF DeskHangsUp, Arrive, ArriveInPart, sessionVars, GreetingGoesOn, ReadGreeting,
       OpenSession, WriteRequest, BeginRecv, clock, query, peer, transit
  <2>3. \/ step' = step /\ (waited' = waited \/ step = "greeting")
        \/ step = "greeting" /\ step' = "write" /\ waited' = 0
        \/ step \in {"write", "look"} /\ step' \in {"look", "recv"} /\ waited' = waited
    BY <1>1 DEF DeskHangsUp, Arrive, ArriveInPart, sessionVars, GreetingGoesOn, ReadGreeting,
       OpenSession, WriteRequest, BeginRecv, clock, query, peer, transit
  <2>4. Live' => Live
    BY <2>3 DEF Live, Ended
  <2>5. step \in {"write", "look"} => waited = 0
    BY DEF PInv, Rested
  <2>6. /\ step' = "recv" => waited' = 0 \/ (step = "recv" /\ waited' = waited)
        /\ step' \in {"write", "look"} => waited' = 0
    BY <2>3, <2>5
  <2> QED
    BY <2>1, <2>2, <2>4, <2>6, PatienceUnmoved
<1>2. CASE RefuseSession \/ SessionBreaks \/ TimeOut \/ FinishSession
  <2>1. PICK how \in Ended : End(how)
    BY <1>2 DEF RefuseSession, SessionBreaks, TimeOut, FinishSession, Ended
  <2>2. ~Live' /\ step' \notin {"write", "look"} /\ wire' = wire /\ deadline' = deadline
    BY <2>1 DEF End, Live, Ended, transit, clock
  <2> QED
    BY <2>2 DEF PInv, RestFirst, Rested, Patience
<1>3. CASE GiveUpRest
  <2>1. now' > deadline' /\ deadline' = deadline /\ wire' = wire /\ step' = "finish"
    BY <1>3 DEF GiveUpRest, clock, transit
  <2>2. ~(now' < deadline')
    BY <2>1 DEF IInv, TypeOK
  <2> QED
    BY <2>1, <2>2 DEF PInv, RestFirst, Rested, Patience
<1> QED
  BY <1>1, <1>2, <1>3, SentPatience, TickPatience, RecvShortPatience, RecvNothingPatience,
     RecvFullPatience
  DEF Next, Environment, Handshake, Exchange, Over

(* As long as the deadline is ahead and the desk is there, every read that *)
(* gave its field no value got a piece of some payload or waited for the   *)
(* whole timeout: for any desk, any fields and any size of a recv, if the  *)
(* clock of the model does not stop before the longest deadline.           *)
THEOREM PatienceIsKept == Budget <= MaxTime => (Spec => []PatienceKept)
<1> SUFFICES ASSUME Budget <= MaxTime
             PROVE  Spec => []PatienceKept
  OBVIOUS
<1>1. IInv /\ IInv' /\ PInv /\ [Next]_sessionVars => PInv'
  BY PatienceStep
<1>2. IInv /\ PInv => PatienceKept
  <2> SUFFICES ASSUME IInv, PInv, Live, ~closed, now < deadline
               PROVE  SocketTimeout * (Fruitless - PiecesAtMost) <= now
    BY DEF PatienceKept
  <2> DEFINE paid == SocketTimeout * (Fruitless - PiecesAtMost)
  <2>1. paid \in Int /\ waited \in Nat /\ now \in Nat
    BY PatienceTypes, Products, SessionAssumption DEF IInv, TypeOK
  <2> HIDE DEF paid
  <2>2. paid + (IF step = "recv" THEN waited ELSE 0) <= now
    BY DEF PInv, Patience, paid
  <2>3. paid <= now
    BY <2>1, <2>2
  <2> QED
    BY <2>3 DEF paid
<1> QED
  BY <1>1, <1>2, PatienceInit, Invariance, PTL DEF Spec

-----------------------------------------------------------------------------
(* The client's view of the session.                                       *)

LEMMA AloneValue ==
  /\ \A a : Alone(a)[Query] = a
  /\ \A a, b : [Alone(a) EXCEPT ![Query] = b] = Alone(b)
  BY DEF Alone

(* What the client does not see.                                           *)
LEMMA Unseen ==
  ASSUME UNCHANGED <<now, since, deadline, asked, got>>, Place' = Place, Kept' = Kept,
         Live' = Live, (step' = "finished") <=> (step = "finished"),
         (step' = "timeout") <=> (step = "timeout")
  PROVE  UNCHANGED Client!vars
  BY DEF Client!vars, Client!connection, Client!probing, Client!querying, Client!fields, Alone

LEMMA UnseenStep ==
  ASSUME IInv,
         \/ GreetingGoesOn \/ ReadGreeting \/ WriteRequest \/ BeginRecv \/ RecvFull \/ Environment
         \/ UNCHANGED sessionVars
  PROVE  UNCHANGED Client!vars
<1>1. UNCHANGED <<now, since, deadline, asked, got>>
  BY DEF GreetingGoesOn, ReadGreeting, WriteRequest, BeginRecv, RecvFull, Environment,
         sessionVars, DeskSends, DeskHangsUp, Arrive, ArriveInPart, clock, query, peer, transit
<1>2. \/ step' = step
      \/ step \in {"write", "look", "recv"} /\ step' \in {"write", "look", "recv"}
  BY DEF GreetingGoesOn, ReadGreeting, WriteRequest, BeginRecv, RecvFull, Environment,
         sessionVars, DeskSends, DeskHangsUp, Arrive, ArriveInPart, clock, query, peer, transit
<1>3. /\ Place' = Place /\ Kept' = Kept /\ Live' = Live
      /\ (step' = "finished") <=> (step = "finished")
      /\ (step' = "timeout") <=> (step = "timeout")
  BY <1>2 DEF Place, Kept, Live, Ended
<1> QED
  BY <1>1, <1>3, Unseen

(* Once the clock of the session has stopped, only a recv's wait goes on.  *)
LEMMA TickView ==
  ASSUME IInv, Tick
  PROVE  Client!Tick \/ UNCHANGED Client!vars
<1>1. UNCHANGED <<step, since, deadline, asked, got>> /\ Live
  BY DEF Tick
<1>2. CASE now < MaxTime
  <2>1. now' = now + 1
    BY <1>2 DEF Tick
  <2> QED
    BY <1>1, <1>2, <2>1, AloneValue DEF Client!Tick, Client!connection, Client!probing,
       Client!fields, Alone, Place, Kept, Live
<1>3. CASE ~(now < MaxTime)
  <2>1. now' = now
    BY <1>3 DEF Tick
  <2> QED
    BY <1>1, <2>1, Unseen DEF Place, Kept, Live
<1> QED
  BY <1>2, <1>3


LEMMA GoView ==
  ASSUME NEW from, NEW to, Place = from, Place' = to, since' = now, now' = now
  PROVE  Client!Go(Query, from, to)
  BY AloneValue DEF Client!Go, Client!probing, Alone

(* The session gives up: refused, broken or out of time.                   *)
LEMMA LeaveView ==
  ASSUME Live, Kept, End("refused") \/ End("broken") \/ End("timeout")
  PROVE  /\ Client!Settle(Query, IF step' = "timeout" THEN "timeout" ELSE "connection_error")
         /\ Client!Forget(Query)
         /\ (IF Live' THEN Query ELSE None) = None
         /\ step # "finished" /\ step' # "finished"
         /\ since' = now /\ now' = now
<1>1. ~Kept' /\ ~Live' /\ since' = now /\ now' = now
  BY DEF End, Kept, Live, Ended, clock
<1>2. step # "finished" /\ step' # "finished"
  BY DEF End, Live, Ended
<1> QED
  BY <1>1, <1>2, AloneValue DEF Client!Settle, Client!Forget, Alone

LEMMA OpenView ==
  ASSUME IInv, OpenSession
  PROVE  Client!OpenSession(Query)
<1>1. Place = "handshake" /\ Place' = "fields" /\ since' = now /\ now' = now
  BY DEF OpenSession, Place, clock
<1>2. /\ Kept /\ Kept' /\ Live /\ Live' /\ step # "finished" /\ step' # "finished"
      /\ UNCHANGED <<deadline, asked, got>>
  BY DEF OpenSession, Kept, Live, Ended, clock
<1>3. Client!Go(Query, "handshake", "fields")
  BY <1>1, GoView
<1> QED
  BY <1>2, <1>3 DEF Client!OpenSession, Client!fields, Alone

LEMMA RefuseView ==
  ASSUME IInv, RefuseSession
  PROVE  Client!SessionRefused(Query)
<1>1. Live /\ Kept /\ End("refused") /\ step' = "refused"
  BY DEF RefuseSession, Live, Kept, Ended, End
<1>2. Place = "handshake" /\ Place' = "done"
  BY <1>1 DEF RefuseSession, Place
<1>3. /\ Client!Settle(Query, IF step' = "timeout" THEN "timeout" ELSE "connection_error")
      /\ Client!Forget(Query)
      /\ (IF Live' THEN Query ELSE None) = None
      /\ step # "finished" /\ step' # "finished"
      /\ since' = now /\ now' = now
  BY <1>1, LeaveView
<1>4. Client!Settle(Query, "connection_error")
  BY <1>1, <1>3
<1>5. Client!Go(Query, "handshake", "done")
  BY <1>2, <1>3, GoView
<1> QED
  BY <1>3, <1>4, <1>5 DEF Client!SessionRefused, Alone

LEMMA BreakView ==
  ASSUME IInv, SessionBreaks
  PROVE  Client!SessionBreaks(Query)
<1>1. Live /\ Kept /\ End("broken") /\ step' = "broken"
  BY DEF SessionBreaks, Live, Kept, Ended, End
<1>2. Place' = "mark_failure"
  BY <1>1 DEF Place
<1>3. \/ Place = "handshake"
      \/ Place = "fields" /\ asked < Len(Fields)
  BY DEF SessionBreaks, Place, IInv, Asking
<1>4. /\ Client!Settle(Query, IF step' = "timeout" THEN "timeout" ELSE "connection_error")
      /\ Client!Forget(Query)
      /\ (IF Live' THEN Query ELSE None) = None
      /\ step # "finished" /\ step' # "finished"
      /\ since' = now /\ now' = now
  BY <1>1, LeaveView
<1>5. Client!Settle(Query, "connection_error")
  BY <1>1, <1>4
<1>6. \/ Client!Go(Query, "handshake", "mark_failure")
      \/ Client!Go(Query, "fields", "mark_failure") /\ Alone(IF Kept THEN asked ELSE 0)[Query] < Len(Fields)
  BY <1>1, <1>2, <1>3, <1>4, GoView, AloneValue
<1> QED
  BY <1>4, <1>5, <1>6 DEF Client!SessionBreaks, Alone

LEMMA TimeOutView ==
  ASSUME IInv, TimeOut
  PROVE  Client!FieldsTimeOut(Query)
<1>1. Live /\ Kept /\ End("timeout") /\ step' = "timeout"
  BY DEF TimeOut, Live, Kept, Ended, End
<1>2. Place = "fields" /\ Place' = "done" /\ asked < Len(Fields) /\ now > deadline /\ got = {}
  BY <1>1 DEF TimeOut, Place, IInv, Asking
<1>3. /\ Client!Settle(Query, IF step' = "timeout" THEN "timeout" ELSE "connection_error")
      /\ Client!Forget(Query)
      /\ (IF Live' THEN Query ELSE None) = None
      /\ step # "finished" /\ step' # "finished"
      /\ since' = now /\ now' = now
  BY <1>1, LeaveView
<1>4. Client!Settle(Query, "timeout")
  BY <1>1, <1>3
<1>5. Client!Go(Query, "fields", "done")
  BY <1>2, <1>3, GoView
<1> QED
  BY <1>1, <1>2, <1>3, <1>4, <1>5, AloneValue DEF Client!FieldsTimeOut, Alone

LEMMA GiveUpView ==
  ASSUME IInv, GiveUpRest
  PROVE  Client!SettleForPartial(Query)
<1>1. /\ Place = "fields" /\ Place' = "fields" /\ since' = now /\ now' = now
      /\ asked < Len(Fields) /\ now > deadline /\ got # {} /\ asked' = Len(Fields)
      /\ UNCHANGED <<deadline, got>>
  BY DEF GiveUpRest, Place, IInv, Asking, clock
<1>2. Kept /\ Kept' /\ Live /\ Live' /\ step # "finished" /\ step' # "finished"
  BY DEF GiveUpRest, Kept, Live, Ended
<1>3. Client!Go(Query, "fields", "fields")
  BY <1>1, GoView
<1> QED
  BY <1>1, <1>2, <1>3, AloneValue DEF Client!SettleForPartial, Alone



(* Two states of the connection with the same fields are the same.         *)
Statuses ==
  [connected : BOOLEAN, state : {"connected", "disconnected"}, connect_attempts : {0},
   reconnect_count : {0}, last_connected_at : {FALSE}, last_error : {FALSE}]

LEMMA SameStatus ==
  ASSUME NEW r \in Statuses, NEW s \in Statuses,
         r.connected = s.connected, r.state = s.state
  PROVE  r = s
<1>1. /\ r = [connected |-> r.connected, state |-> r.state, connect_attempts |-> 0,
              reconnect_count |-> 0, last_connected_at |-> FALSE, last_error |-> FALSE]
      /\ s = [connected |-> s.connected, state |-> s.state, connect_attempts |-> 0,
              reconnect_count |-> 0, last_connected_at |-> FALSE, last_error |-> FALSE]
  BY Zenon DEF Statuses
<1> QED
  BY <1>1, Zenon

LEMMA ProbeSuccess ==
  [connected |-> TRUE, state |-> "connected", connect_attempts |-> 0,
   reconnect_count |-> 0, last_connected_at |-> FALSE, last_error |-> FALSE]
    = [[connected |-> FALSE, state |-> "disconnected", connect_attempts |-> 0,
        reconnect_count |-> 0, last_connected_at |-> FALSE, last_error |-> FALSE]
       EXCEPT !.connected = TRUE, !.state = "connected", !.last_error = FALSE]
<1> DEFINE r == [connected |-> FALSE, state |-> "disconnected", connect_attempts |-> 0,
                 reconnect_count |-> 0, last_connected_at |-> FALSE, last_error |-> FALSE]
           s == [connected |-> TRUE, state |-> "connected", connect_attempts |-> 0,
                 reconnect_count |-> 0, last_connected_at |-> FALSE, last_error |-> FALSE]
<1>1. r \in Statuses
  BY Zenon DEF Statuses
<1>2. s \in Statuses /\ s.connected /\ s.state = "connected"
  BY Zenon DEF Statuses
<1> HIDE DEF r
<1> DEFINE t == [r EXCEPT !.connected = TRUE, !.state = "connected", !.last_error = FALSE]
<1>3. t \in Statuses /\ t.connected /\ t.state = "connected"
  BY <1>1 DEF Statuses
<1> HIDE DEF s, t
<1>4. s.connected = t.connected
  BY <1>2, <1>3, Zenon DEF Statuses
<1>5. s = t
  BY <1>2, <1>3, <1>4, SameStatus
<1> QED
  BY <1>5 DEF r, s, t

LEMMA FinishView ==
  ASSUME IInv, FinishSession
  PROVE  Client!FinishSession(Query)
<1>1. /\ step = "finish" /\ step' = "finished" /\ asked = Len(Fields)
      /\ since' = now /\ now' = now
      /\ UNCHANGED <<deadline, asked, got>>
  BY DEF FinishSession, End, IInv, Asking, clock
<1>2. Place = "fields" /\ Place' = "convert" /\ Kept /\ Kept' /\ ~Live'
  BY <1>1 DEF Place, Kept, Live, Ended
<1>3. Client!Go(Query, "fields", "convert")
  BY <1>1, <1>2, GoView
<1>4. Client!MarkProbeSuccess
  <2>1. (step = "finished") = FALSE /\ (step' = "finished") = TRUE
    BY <1>1
  <2> QED
    BY <2>1, ProbeSuccess DEF Client!MarkProbeSuccess
<1> QED
  BY <1>1, <1>2, <1>3, <1>4, AloneValue DEF Client!FinishSession, Client!fields, Alone

(* A read that settles its field is one exchange, another attempt none.    *)
LEMMA EndReadView ==
  ASSUME IInv, step = "recv", NEW all, EndRead(all)
  PROVE  Client!AskField(Query) \/ UNCHANGED Client!vars
<1>1. /\ now' = now /\ deadline' = deadline
      /\ asked < Len(Fields) /\ since <= deadline /\ Kept /\ Live /\ Place = "fields"
  BY DEF EndRead, clock, IInv, Asking, InTime, Kept, Live, Ended, Place
<1>2. ASSUME NextField,
             \/ UNCHANGED got
             \/ Field \in MarketFields /\ \E v \in ValuesOf(Field) : got' = got \cup {v}
      PROVE  Client!AskField(Query)
  <2>1. /\ asked' = asked + 1 /\ since' = now
        /\ step' \in {"write", "finish"}
    BY <1>2 DEF NextField
  <2>2. Kept' /\ Live' /\ Place' = "fields" /\ step # "finished" /\ step' # "finished"
    BY <2>1 DEF Kept, Live, Ended, Place
  <2>3. Client!Go(Query, "fields", "fields")
    BY <1>1, <2>1, <2>2, GoView
  <2>4. \/ UNCHANGED got
        \/ /\ Fields[asked + 1] \in Client!MarketFields
           /\ \E value \in Client!Values :
                /\ value = "infinite" => Fields[asked + 1] = "volume"
                /\ got' = got \cup {value}
    <3>1. CASE UNCHANGED got
      BY <3>1
    <3>2. CASE Field \in MarketFields /\ \E v \in ValuesOf(Field) : got' = got \cup {v}
      BY <3>2 DEF Field, MarketFields, ValuesOf, Client!MarketFields, Client!Values
    <3> QED
      BY <1>2, <3>1, <3>2
  <2>5. /\ Alone(IF Kept THEN asked ELSE 0) = Alone(asked)
        /\ Alone(IF Kept THEN asked ELSE 0)' = Alone(asked + 1)
        /\ Alone(IF Kept THEN got ELSE {}) = Alone(got)
        /\ Alone(IF Kept THEN got ELSE {})' = Alone(got')
        /\ Alone(IF Kept THEN deadline ELSE 0) = Alone(deadline)
        /\ Alone(IF Kept THEN deadline ELSE 0)' = Alone(deadline)
    BY <1>1, <2>1, <2>2 DEF Alone
  <2>6. /\ Alone(asked)[Query] = asked /\ Alone(got)[Query] = got
        /\ Alone(deadline)[Query] = deadline /\ Alone(since)[Query] = since
    BY AloneValue
  <2>7. Alone(asked + 1) = [Alone(asked) EXCEPT ![Query] = Alone(asked)[Query] + 1]
    BY <2>6, AloneValue
  <2>8. \A value : Alone(got \cup {value}) = [Alone(got) EXCEPT ![Query] = Alone(got)[Query] \cup {value}]
    BY <2>6, AloneValue
  <2>9. \/ Alone(got') = Alone(got)
        \/ /\ Fields[Alone(asked)[Query] + 1] \in Client!MarketFields
           /\ \E value \in Client!Values :
                /\ value = "infinite" => Fields[Alone(asked)[Query] + 1] = "volume"
                /\ Alone(got') = [Alone(got) EXCEPT ![Query] = Alone(got)[Query] \cup {value}]
    BY <2>4, <2>6, <2>8
  <2> QED
    BY <1>1, <2>1, <2>2, <2>3, <2>5, <2>6, <2>7, <2>9 DEF Client!AskField
<1>3. CASE \E i \in DOMAIN all : IsAnswer(all, i) /\ Took(all[i]) /\ NextField
  BY <1>2, <1>3 DEF Took
<1>4. CASE Unanswered(all) /\ LastAttempt /\ NextField /\ UNCHANGED <<got, result>>
  BY <1>2, <1>4
<1>5. CASE step' = "write" /\ UNCHANGED <<since, asked, got, result>>
  <2>1. /\ Place' = Place /\ Kept' = Kept /\ Live' = Live
        /\ (step' = "finished") <=> (step = "finished")
        /\ (step' = "timeout") <=> (step = "timeout")
    BY <1>1, <1>5 DEF Place, Kept, Live, Ended
  <2> QED
    BY <1>1, <1>5, <2>1, Unseen
<1> QED
  BY <1>3, <1>4, <1>5 DEF EndRead

LEMMA ClientStep == IInv /\ [Next]_sessionVars => [Client!Next]_(Client!vars)
<1> SUFFICES ASSUME IInv, [Next]_sessionVars
             PROVE  Client!Next \/ UNCHANGED Client!vars
  BY Zenon
<1>1. ASSUME Client!Session(Query)
      PROVE  Client!Next
  BY <1>1, Zenon DEF Client!Next, Client!SymbolInfoTick
<1>2. CASE \/ GreetingGoesOn \/ ReadGreeting \/ WriteRequest \/ BeginRecv \/ RecvFull \/ Environment
           \/ UNCHANGED sessionVars
  BY <1>2, UnseenStep
<1>3. CASE Tick
  BY <1>3, TickView DEF Client!Next
<1>4. CASE OpenSession
  BY <1>1, <1>4, OpenView DEF Client!Session
<1>5. CASE RefuseSession
  BY <1>1, <1>5, RefuseView DEF Client!Session
<1>6. CASE SessionBreaks
  BY <1>1, <1>6, BreakView DEF Client!Session
<1>7. CASE GiveUpRest
  BY <1>1, <1>7, GiveUpView DEF Client!Session
<1>8. CASE TimeOut
  BY <1>1, <1>8, TimeOutView DEF Client!Session
<1>9. CASE FinishSession
  BY <1>1, <1>9, FinishView DEF Client!Session
<1>10. CASE RecvShort
  <2>1. Client!AskField(Query) \/ UNCHANGED Client!vars
    BY <1>10, EndReadView DEF RecvShort
  <2> QED
    BY <1>1, <2>1 DEF Client!Session
<1>11. CASE RecvNothing
  <2>1. Client!AskField(Query) \/ UNCHANGED Client!vars
    BY <1>11, EndReadView DEF RecvNothing
  <2> QED
    BY <1>1, <2>1 DEF Client!Session
<1> QED
  BY <1>2, <1>3, <1>4, <1>5, <1>6, <1>7, <1>8, <1>9, <1>10, <1>11
  DEF Next, Handshake, Exchange, Over

(* Every step of a session, whatever arrives, is a step of one query of    *)
(* BtgClient or none (_query_fields_locked): the atomic exchange of that   *)
(* module loses nothing of what the socket can do.                         *)
THEOREM SessionsRefine == Spec => SessionsAreQueries
<1>1. Spec => [][Client!Next]_(Client!vars)
  BY ClientStep, Invariance, PTL DEF Spec
<1> QED
  BY <1>1 DEF SessionsAreQueries

=============================================================================
