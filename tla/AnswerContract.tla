--------------------------- MODULE AnswerContract ---------------------------
(***************************************************************************)
(* What a cached call promises its callers, with no caches, flights or     *)
(* locks.  A call either makes its own outcome or hands out that of        *)
(* another call for the same key, and then only if that other call was     *)
(* still running, or had ended no longer ago than the outcome's time to    *)
(* live, when this call began.  An unexpected exception is never handed    *)
(* out.  MarketDataService.get_quote and BtgTraderDeskClient's             *)
(* symbol_info_tick are both shown to keep it.                             *)
(***************************************************************************)
EXTENDS Integers

CONSTANTS
  Requests,      \* calls, each made once
  KeyOf,         \* what each call asks for
  None,          \* no outcome yet
  Kinds,         \* the kinds of outcomes
  Grace          \* how long after its maker's end each kind may be handed out

VARIABLES
  clock,
  phase,         \* where each call is: not made, undecided, decided, ended
  begun,         \* when each call began
  ended,         \* when each call ended
  result         \* the outcome of each call that is decided

cvars == <<clock, phase, begun, ended, result>>

Init ==
  /\ clock = 0
  /\ phase = [r \in Requests |-> "idle"]
  /\ begun = [r \in Requests |-> 0]
  /\ ended = [r \in Requests |-> 0]
  /\ result = [r \in Requests |-> None]

Advance ==
  /\ clock' = clock + 1
  /\ UNCHANGED <<phase, begun, ended, result>>

Begin(r) ==
  /\ phase[r] = "idle"
  /\ phase' = [phase EXCEPT ![r] = "open"]
  /\ begun' = [begun EXCEPT ![r] = clock]
  /\ UNCHANGED <<clock, ended, result>>

End(r) ==
  /\ phase' = [phase EXCEPT ![r] = "ended"]
  /\ ended' = [ended EXCEPT ![r] = clock]

(* A call makes an outcome of its own, and may end with it at once.        *)
Decide(r) ==
  /\ phase[r] = "open"
  /\ \E kind \in Kinds :
       result' = [result EXCEPT ![r] = [kind |-> kind, by |-> r, at |-> clock]]
  /\ \/ End(r)
     \/ phase' = [phase EXCEPT ![r] = "decided"] /\ UNCHANGED ended
  /\ UNCHANGED <<clock, begun>>

Finish(r) ==
  /\ phase[r] = "decided"
  /\ End(r)
  /\ UNCHANGED <<clock, begun, result>>

(* Whether the outcome of call o is fresh enough for call r.               *)
Fresh(o, r) ==
  \/ phase[o] = "decided"
  \/ phase[o] = "ended" /\ ended[o] + Grace[result[o].kind] >= begun[r]

HandOut(r, o) ==
  /\ phase[r] = "open"
  /\ KeyOf[o] = KeyOf[r]
  /\ Fresh(o, r)
  /\ result[o].by = o
  /\ result[o].kind # "unexpected"
  /\ result' = [result EXCEPT ![r] = result[o]]
  /\ End(r)
  /\ UNCHANGED <<clock, begun>>

Next ==
  \/ Advance
  \/ \E r \in Requests : Begin(r) \/ Decide(r) \/ Finish(r)
  \/ \E r, o \in Requests : HandOut(r, o)

Spec == Init /\ [][Next]_cvars

-----------------------------------------------------------------------------

(* What the contract comes to for a caller who looks at its answer: some   *)
(* call for the same key made it and answered the same, and if that was    *)
(* another call, it had not ended long before this one began.              *)
Justified ==
  \A r \in Requests :
    /\ result[r] # None <=> phase[r] \in {"decided", "ended"}
    /\ result[r] # None =>
         LET maker == result[r].by IN
         /\ result[maker] = result[r]
         /\ KeyOf[maker] = KeyOf[r]
         /\ maker # r => result[r].kind # "unexpected"
         /\ maker # r /\ phase[maker] = "ended" =>
              begun[r] <= ended[maker] + Grace[result[r].kind]

=============================================================================
