--------------------------- MODULE HmacAuthProofs ---------------------------
(* For any messages, attempts, window and ttl: types, and that neither a   *)
(* replay nor a baseless rejection of one gets past the nonce store.       *)
EXTENDS HmacAuth, TLAPS

TtlTicks == Ttl * TicksPerSecond

LEMMA TicksType == TtlTicks \in Nat
  BY ConstantsAssumption DEF TtlTicks

-----------------------------------------------------------------------------
(* Arithmetic of the truncated clock.                                      *)

LEMMA Truncation ==
  ASSUME NEW t \in Nat, NEW d \in Nat \ {0}
  PROVE  /\ t \div d \in Nat
         /\ (t \div d) * d <= t
         /\ t < (t \div d + 1) * d
  OBVIOUS

LEMMA Monotonicity ==
  ASSUME NEW x \in Int, NEW y \in Int, NEW d \in Nat, x <= y
  PROVE  x * d <= y * d
  OBVIOUS

(* The ticks at which a message stamped s is in the window.                *)
LEMMA WindowTicks ==
  ASSUME NEW t \in Nat, NEW s \in Nat,
         -Skew <= Seconds(t) - s, Seconds(t) - s <= Skew
  PROVE  /\ (s - Skew) * TicksPerSecond <= t
         /\ t < (s + Skew + 1) * TicksPerSecond
<1> DEFINE q == t \div TicksPerSecond
<1>1. /\ q \in Nat
      /\ q * TicksPerSecond <= t
      /\ t < (q + 1) * TicksPerSecond
  BY Truncation, ConstantsAssumption
<1>2. s - Skew <= q /\ q + 1 <= s + Skew + 1
  BY <1>1, ConstantsAssumption DEF Seconds
<1>3. s - Skew \in Int /\ s + Skew + 1 \in Int /\ q + 1 \in Int /\ TicksPerSecond \in Nat
  BY <1>1, ConstantsAssumption
<1> HIDE DEF q
<1>4. (s - Skew) * TicksPerSecond <= q * TicksPerSecond
  BY <1>1, <1>2, <1>3, Monotonicity
<1>5. (q + 1) * TicksPerSecond <= (s + Skew + 1) * TicksPerSecond
  BY <1>2, <1>3, Monotonicity
<1>6. /\ q * TicksPerSecond \in Int /\ (q + 1) * TicksPerSecond \in Int
      /\ (s - Skew) * TicksPerSecond \in Int /\ (s + Skew + 1) * TicksPerSecond \in Int
  BY <1>1, <1>3
<1> QED
  BY <1>1, <1>4, <1>5, <1>6

LEMMA WindowLength ==
  ASSUME NEW s \in Nat
  PROVE  (s + Skew + 1) * TicksPerSecond = (s - Skew) * TicksPerSecond + (2 * Skew + 1) * TicksPerSecond
  BY ConstantsAssumption

-----------------------------------------------------------------------------
(* The inductive invariant.                                                *)

(* An attempt that awaits its body was in the window when it was checked,  *)
(* not long ago; one that got in did so no earlier than its window opened. *)
Windows ==
  \A a \in Attempts :
    /\ since[a] <= now /\ life[a] <= restarts
    /\ pc[a] \in {"body", "admitted", "forbidden"} =>
         /\ message[a] \in Messages
         /\ (Stamp[message[a]] - Skew) * TicksPerSecond <= since[a]
    /\ pc[a] = "body" =>
         /\ life[a] = restarts
         /\ since[a] < (Stamp[message[a]] + Skew + 1) * TicksPerSecond
         /\ now <= since[a] + BodyWait

(* The nonce of whoever got in is in the store until its ttl is over.      *)
Kept ==
  \A a \in Attempts :
    (Remembered(a) /\ life[a] = restarts) =>
      \/ /\ items[StoreKeyOf[message[a]]] # None
         /\ since[a] + TtlTicks <= items[StoreKeyOf[message[a]]]
      \/ since[a] + TtlTicks <= now

(* Every nonce in the store is that of a request that got in.              *)
Caused ==
  \A k \in StoreKeys : items[k] # None =>
    \E a \in Attempts :
      /\ Remembered(a) /\ life[a] = restarts
      /\ StoreKeyOf[message[a]] = k
      /\ items[k] = since[a] + TtlTicks

IInv == TypeOK /\ Windows /\ Kept /\ Caused /\ ReplayHasCause

LEMMA InvInit == Init => IInv
  BY ConstantsAssumption DEF Init, IInv, TypeOK, Locations, Windows, Kept, Caused, Remembered,
     ReplayHasCause

LEMMA PurgedType ==
  ASSUME TypeOK
  PROVE  /\ Purged \in [StoreKeys -> Nat \cup {None}]
         /\ \A k \in StoreKeys : Purged[k] # None => Purged[k] = items[k] /\ items[k] # None /\ now < items[k]
         /\ \A k \in StoreKeys : Purged[k] = None => items[k] = None \/ items[k] <= now
  BY ConstantsAssumption DEF TypeOK, Purged

LEMMA TypeStep ==
  ASSUME TypeOK, [Next]_vars
  PROVE  TypeOK'
<1> USE DEF TypeOK, Locations
<1>1. CASE UNCHANGED vars \/ TimeIsOver
  BY <1>1 DEF vars, TimeIsOver
<1>2. CASE Tick
  BY <1>2 DEF Tick
<1>3. CASE Restart
  BY <1>3 DEF Restart
<1>4. ASSUME NEW a \in Attempts, NEW m \in Messages, Check(a, m) PROVE TypeOK'
  BY <1>4 DEF Check
<1>5. ASSUME NEW a \in Attempts, RejectForged(a) \/ Abort(a) PROVE TypeOK'
  BY <1>5 DEF RejectForged, Abort, Leave
<1>6. ASSUME NEW a \in Attempts, RejectReplay(a) PROVE TypeOK'
  BY <1>6, PurgedType DEF RejectReplay, Leave
<1>7. ASSUME NEW a \in Attempts, Admit(a) PROVE TypeOK'
  <2>1. now + TtlTicks \in Nat
    BY TicksType
  <2> QED
    BY <1>7, <2>1, PurgedType DEF Admit, Leave, TtlTicks
<1> QED
  BY <1>1, <1>2, <1>3, <1>4, <1>5, <1>6, <1>7 DEF Next

LEMMA WindowsStep ==
  ASSUME TypeOK, Windows, [Next]_vars
  PROVE  Windows'
<1> USE DEF TypeOK, Windows
<1>1. CASE UNCHANGED vars \/ TimeIsOver
  BY <1>1 DEF vars, TimeIsOver
<1>2. CASE Tick
  BY <1>2, ConstantsAssumption DEF Tick
<1>3. CASE Restart
  BY <1>3 DEF Restart
<1>4. ASSUME NEW a \in Attempts, NEW m \in Messages, Check(a, m) PROVE Windows'
  <2>1. Stamp[m] \in Nat
    BY ConstantsAssumption
  <2>2. InWindow(m) => /\ (Stamp[m] - Skew) * TicksPerSecond <= now
                       /\ now < (Stamp[m] + Skew + 1) * TicksPerSecond
    BY <2>1, WindowTicks DEF InWindow
  <2> QED
    BY <1>4, <2>2, ConstantsAssumption DEF Check
(* Time went on since the check, so the window had opened already.         *)
<1>5. ASSUME NEW a \in Attempts, RejectForged(a) \/ Abort(a) \/ RejectReplay(a) \/ Admit(a)
      PROVE  Windows'
  <2>1. PICK to \in {"forged", "raised", "replayed", "admitted", "forbidden"} : Leave(a, to)
    BY <1>5 DEF RejectForged, Abort, RejectReplay, Admit
  <2>2. /\ message[a] \in Messages
        /\ (Stamp[message[a]] - Skew) * TicksPerSecond <= since[a] /\ since[a] <= now
    BY <2>1 DEF Leave
  <2>3. (Stamp[message[a]] - Skew) * TicksPerSecond \in Int
    BY <2>2, ConstantsAssumption
  <2>4. (Stamp[message[a]] - Skew) * TicksPerSecond <= now
    BY <2>2, <2>3
  <2> QED
    BY <2>1, <2>2, <2>4 DEF Leave
<1> QED
  BY <1>1, <1>2, <1>3, <1>4, <1>5 DEF Next

LEMMA KeptStep ==
  ASSUME TypeOK, Windows, Kept, [Next]_vars
  PROVE  Kept'
<1> USE TicksType DEF TypeOK, Kept, Remembered
<1>1. CASE UNCHANGED vars \/ TimeIsOver
  BY <1>1 DEF vars, TimeIsOver
<1>2. CASE Tick
  BY <1>2 DEF Tick
(* Nobody who got in before a restart is remembered after it.              *)
<1>3. CASE Restart
  BY <1>3 DEF Restart, Windows
<1>4. ASSUME NEW a \in Attempts, NEW m \in Messages, Check(a, m) PROVE Kept'
  BY <1>4 DEF Check
<1>5. ASSUME NEW a \in Attempts, RejectForged(a) \/ Abort(a) PROVE Kept'
  BY <1>5 DEF RejectForged, Abort, Leave
<1>6. ASSUME NEW a \in Attempts, RejectReplay(a) PROVE Kept'
  <2>1. ASSUME NEW b \in Attempts, Remembered(b), life[b] = restarts
        PROVE  \/ /\ Purged[StoreKeyOf[message[b]]] # None
                  /\ since[b] + TtlTicks <= Purged[StoreKeyOf[message[b]]]
               \/ since[b] + TtlTicks <= now
    BY <2>1, PurgedType, ConstantsAssumption DEF Windows
  <2> QED
    BY <1>6, <2>1 DEF RejectReplay, Leave
<1>7. ASSUME NEW a \in Attempts, Admit(a) PROVE Kept'
  <2> DEFINE k == StoreKeyOf[message[a]]
  <2>1. k \in StoreKeys /\ message[a] \in Messages
    BY <1>7, ConstantsAssumption DEF Admit, Leave, Windows
  <2>2. items' = [Purged EXCEPT ![k] = now + TtlTicks]
    BY <1>7 DEF Admit, TtlTicks
  <2>3. PICK to \in {"admitted", "forbidden"} : Leave(a, to)
    BY <1>7 DEF Admit
  <2>4. ASSUME NEW b \in Attempts, Remembered(b)', (life[b] = restarts)'
        PROVE  \/ /\ items'[StoreKeyOf[message[b]]] # None
                  /\ since'[b] + TtlTicks <= items'[StoreKeyOf[message[b]]]
               \/ since'[b] + TtlTicks <= now
    <3>0. since'[b] \in Nat /\ since'[b] <= now
      BY <2>3 DEF Leave, Windows
    <3>1. CASE b = a
      BY <2>1, <2>2, <2>3, <3>0, <3>1, PurgedType, ConstantsAssumption DEF Leave
    <3>2. CASE b # a
      <4>1. Remembered(b) /\ life[b] = restarts /\ since'[b] = since[b] /\ message[b] \in Messages
        BY <2>3, <2>4, <3>2 DEF Leave, Windows
      <4>2. StoreKeyOf[message[b]] \in StoreKeys
        BY <4>1, ConstantsAssumption
      <4>3. CASE StoreKeyOf[message[b]] = k
        <5>1. items'[k] = now + TtlTicks
          BY <2>1, <2>2, PurgedType
        <5> QED
          BY <3>0, <4>3, <5>1, ConstantsAssumption
      <4>4. CASE StoreKeyOf[message[b]] # k
        <5>1. items'[StoreKeyOf[message[b]]] = Purged[StoreKeyOf[message[b]]]
          BY <2>2, <4>2, <4>4, PurgedType
        <5> QED
          BY <4>1, <4>2, <5>1, PurgedType
      <4> QED
        BY <4>3, <4>4
    <3> QED
      BY <3>1, <3>2
  <2> QED
    BY <2>3, <2>4 DEF Leave
<1> QED
  BY <1>1, <1>2, <1>3, <1>4, <1>5, <1>6, <1>7 DEF Next

LEMMA CausedStep ==
  ASSUME TypeOK, Windows, Caused, [Next]_vars
  PROVE  Caused'
<1> USE DEF Caused, Remembered
<1>1. CASE UNCHANGED vars \/ TimeIsOver
  BY <1>1 DEF vars, TimeIsOver
<1>2. CASE Tick
  BY <1>2 DEF Tick
<1>3. CASE Restart
  BY <1>3 DEF Restart
<1>4. ASSUME NEW a \in Attempts, NEW m \in Messages, Check(a, m) PROVE Caused'
  <2>1. ASSUME NEW k \in StoreKeys, items[k] # None
        PROVE  \E b \in Attempts : /\ Remembered(b)' /\ life'[b] = restarts
                                   /\ StoreKeyOf[message'[b]] = k
                                   /\ items[k] = since'[b] + TtlTicks
    <3>1. PICK b \in Attempts : /\ Remembered(b) /\ life[b] = restarts
                                /\ StoreKeyOf[message[b]] = k
                                /\ items[k] = since[b] + TtlTicks
      BY <2>1
    <3>2. b # a
      BY <1>4, <3>1 DEF Check
    <3> QED
      BY <1>4, <3>1, <3>2 DEF Check, TypeOK
  <2> QED
    BY <1>4, <2>1 DEF Check
<1>5. ASSUME NEW a \in Attempts, NEW to \in Locations, Leave(a, to)
      PROVE  \A b \in Attempts : Remembered(b) =>
               Remembered(b)' /\ life'[b] = life[b] /\ message'[b] = message[b] /\ since'[b] = since[b]
  BY <1>5 DEF Leave, TypeOK
<1>6. ASSUME NEW a \in Attempts, RejectForged(a) \/ Abort(a) \/ RejectReplay(a) PROVE Caused'
  <2>1. PICK to \in Locations : Leave(a, to)
    BY <1>6 DEF RejectForged, Abort, RejectReplay, Locations
  <2>2. restarts' = restarts /\ \A k \in StoreKeys : items'[k] # None => items'[k] = items[k] /\ items[k] # None
    BY <1>6, PurgedType DEF RejectForged, Abort, RejectReplay, Leave
  <2> QED
    BY <1>5, <2>1, <2>2
<1>7. ASSUME NEW a \in Attempts, Admit(a) PROVE Caused'
  <2> DEFINE k == StoreKeyOf[message[a]]
  <2>1. PICK to \in {"admitted", "forbidden"} : Leave(a, to)
    BY <1>7 DEF Admit
  <2>2. items' = [Purged EXCEPT ![k] = now + TtlTicks] /\ restarts' = restarts
    BY <1>7 DEF Admit, TtlTicks, Leave
  <2>3. ASSUME NEW j \in StoreKeys, items'[j] # None
        PROVE  \E b \in Attempts : /\ Remembered(b)' /\ life'[b] = restarts'
                                   /\ StoreKeyOf[message'[b]] = j
                                   /\ items'[j] = since'[b] + TtlTicks
    <3>1. CASE j = k
      <4>1. /\ Remembered(a)' /\ life'[a] = restarts /\ message'[a] = message[a] /\ since'[a] = now
        BY <2>1 DEF Leave, TypeOK, Windows
      <4>2. items'[j] = now + TtlTicks
        BY <2>2, <3>1, PurgedType
      <4> QED
        BY <2>2, <3>1, <4>1, <4>2
    <3>2. CASE j # k
      <4>1. items'[j] = items[j] /\ items[j] # None
        BY <2>2, <2>3, <3>2, PurgedType
      <4> QED
        BY <1>5, <2>1, <2>2, <4>1 DEF Locations
    <3> QED
      BY <3>1, <3>2
  <2> QED
    BY <2>3
<1> QED
  BY <1>1, <1>2, <1>3, <1>4, <1>6, <1>7 DEF Next

LEMMA ReplayStep ==
  ASSUME TypeOK, Windows, Caused, ReplayHasCause, [Next]_vars
  PROVE  ReplayHasCause'
<1> USE DEF ReplayHasCause, Remembered
<1>1. CASE UNCHANGED vars \/ TimeIsOver
  BY <1>1 DEF vars, TimeIsOver
<1>2. CASE Tick
  BY <1>2 DEF Tick
<1>3. CASE Restart
  BY <1>3 DEF Restart
<1>4. ASSUME NEW a \in Attempts, NEW m \in Messages, Check(a, m) PROVE ReplayHasCause'
  <2>1. pc'[a] # "replayed" /\ ~Remembered(a)
    BY <1>4 DEF Check, TypeOK
  <2>2. \A b \in Attempts \ {a} :
          pc'[b] = pc[b] /\ life'[b] = life[b] /\ message'[b] = message[b] /\ since'[b] = since[b]
    BY <1>4 DEF Check, TypeOK
  <2>3. \A b \in Attempts : pc'[b] = "replayed" => b # a /\ pc[b] = "replayed"
    BY <2>1, <2>2
  <2> QED
    BY <2>1, <2>2, <2>3
<1>5. ASSUME NEW a \in Attempts, NEW to, Leave(a, to)
      PROVE  /\ \A b \in Attempts \ {a} :
                  pc'[b] = pc[b] /\ life'[b] = life[b] /\ message'[b] = message[b] /\ since'[b] = since[b]
             /\ ~Remembered(a) /\ pc[a] # "replayed" /\ life[a] = restarts /\ life'[a] = restarts
             /\ pc'[a] = to /\ message'[a] = message[a] /\ message[a] \in Messages /\ since'[a] = now
  BY <1>5 DEF Leave, TypeOK, Windows
<1>6. ASSUME NEW a \in Attempts, RejectForged(a) \/ Abort(a) \/ Admit(a) PROVE ReplayHasCause'
  <2>1. PICK to \in {"forged", "raised", "admitted", "forbidden"} : Leave(a, to)
    BY <1>6 DEF RejectForged, Abort, Admit
  <2>2. \A b \in Attempts : pc'[b] = "replayed" => b # a /\ pc[b] = "replayed"
    BY <1>5, <2>1
  <2> QED
    BY <1>5, <2>1, <2>2
(* The store key found belongs to a request that got in (Caused), and it   *)
(* has survived the purge.                                                 *)
<1>7. ASSUME NEW a \in Attempts, RejectReplay(a) PROVE ReplayHasCause'
  <2> DEFINE k == StoreKeyOf[message[a]]
  <2>1. Leave(a, "replayed") /\ Purged[k] # None
    BY <1>7 DEF RejectReplay
  <2>2. k \in StoreKeys
    BY <1>5, <2>1, ConstantsAssumption
  <2>3. PICK c \in Attempts : /\ Remembered(c) /\ life[c] = restarts
                              /\ StoreKeyOf[message[c]] = k
                              /\ items[k] = since[c] + TtlTicks
    BY <2>1, <2>2, PurgedType DEF Caused
  <2>4. now < since[c] + Ttl * TicksPerSecond
    BY <2>1, <2>2, <2>3, PurgedType DEF TtlTicks
  <2>5. c # a
    BY <1>5, <2>1, <2>3
  <2>6. \A b \in Attempts : pc'[b] = "replayed" => b = a \/ pc[b] = "replayed"
    BY <1>5, <2>1
  <2> HIDE DEF k
  <2>7. ASSUME NEW b \in Attempts, pc'[b] = "replayed"
        PROVE  \E d \in Attempts :
                 /\ Remembered(d)' /\ life'[d] = life'[b]
                 /\ StoreKeyOf[message'[d]] = StoreKeyOf[message'[b]]
                 /\ since'[b] < since'[d] + Ttl * TicksPerSecond
    <3>1. CASE b = a
      BY <1>5, <2>1, <2>3, <2>4, <2>5, <3>1 DEF k
    <3>2. CASE b # a
      <4>1. PICK d \in Attempts : /\ Remembered(d) /\ life[d] = life[b]
                                  /\ StoreKeyOf[message[d]] = StoreKeyOf[message[b]]
                                  /\ since[b] < since[d] + Ttl * TicksPerSecond
        BY <2>6, <2>7, <3>2
      <4>2. d # a
        BY <1>5, <2>1, <4>1
      <4> QED
        BY <1>5, <2>1, <3>2, <4>1, <4>2
    <3> QED
      BY <3>1, <3>2
  <2> QED
    BY <2>7
<1> QED
  BY <1>1, <1>2, <1>3, <1>4, <1>6, <1>7 DEF Next

LEMMA InvStep == IInv /\ [Next]_vars => IInv'
  BY TypeStep, WindowsStep, KeptStep, CausedStep, ReplayStep DEF IInv

(* IInv holds in every reachable state of the authentication: the base of  *)
(* the theorems below.                                                     *)
THEOREM Invariance == Spec => []IInv
  BY InvInit, InvStep, PTL DEF Spec

(* Every variable keeps its type.                                          *)
THEOREM TypeCorrectness == Spec => []TypeOK
<1>1. IInv => TypeOK
  BY DEF IInv
<1> QED
  BY <1>1, Invariance, PTL

(* However many attempts, messages and restarts there are, a request is    *)
(* turned away as a replay only on account of one that got in.             *)
THEOREM ReplaysHaveCause == Spec => []ReplayHasCause
<1>1. IInv => ReplayHasCause
  BY DEF IInv
<1> QED
  BY <1>1, Invariance, PTL

-----------------------------------------------------------------------------
(* No replay, for every window and ttl with TtlCoversWindow.               *)

LEMMA OnceStep ==
  ASSUME TtlCoversWindow, IInv, AcceptedOnce, [Next]_vars
  PROVE  AcceptedOnce'
<1> USE DEF AcceptedOnce, Remembered
<1>0. TypeOK /\ Windows
  BY DEF IInv
<1>1. CASE UNCHANGED vars \/ TimeIsOver
  BY <1>1 DEF vars, TimeIsOver
<1>2. CASE Tick
  BY <1>2 DEF Tick
<1>3. CASE Restart
  BY <1>0, <1>3 DEF Restart, TypeOK
<1>4. ASSUME NEW a \in Attempts, NEW m \in Messages, Check(a, m) PROVE AcceptedOnce'
  <2>1. ~Remembered(a)'
    BY <1>0, <1>4 DEF Check, TypeOK
  <2>2. \A b \in Attempts \ {a} : pc'[b] = pc[b] /\ life'[b] = life[b] /\ message'[b] = message[b]
    BY <1>0, <1>4 DEF Check, TypeOK
  <2> QED
    BY <2>1, <2>2
<1>5. ASSUME NEW a \in Attempts, RejectForged(a) \/ Abort(a) \/ RejectReplay(a) PROVE AcceptedOnce'
  BY <1>0, <1>5 DEF RejectForged, Abort, RejectReplay, Leave, TypeOK
<1>6. ASSUME NEW a \in Attempts, Admit(a) PROVE AcceptedOnce'
  <2>1. PICK to \in {"admitted", "forbidden"} : Leave(a, to)
    BY <1>6 DEF Admit
  <2>2. /\ pc[a] = "body" /\ life[a] = restarts /\ message[a] \in Messages
        /\ Purged[StoreKeyOf[message[a]]] = None
    BY <1>0, <1>6, <2>1 DEF Admit, Leave, Windows
  (* Had b got in with the message of a, its nonce would still be there.   *)
  <2>3. ASSUME NEW b \in Attempts, Remembered(b), life[b] = restarts, message[b] = message[a]
        PROVE  FALSE
    <3> DEFINE s == Stamp[message[a]]
               opens == (s - Skew) * TicksPerSecond
               closes == (s + Skew + 1) * TicksPerSecond
    <3>1. s \in Nat /\ StoreKeyOf[message[a]] \in StoreKeys
      BY <2>2, ConstantsAssumption
    <3>2. opens <= since[b] /\ since[a] < closes /\ now <= since[a] + BodyWait
      BY <1>0, <2>2, <2>3 DEF Windows
    <3>3. opens \in Int /\ closes \in Int /\ closes = opens + (2 * Skew + 1) * TicksPerSecond
      BY <3>1, WindowLength, ConstantsAssumption
    <3>4. since[b] + TtlTicks <= now
      BY <1>0, <2>2, <2>3, <3>1, PurgedType, TicksType DEF IInv, Kept, TypeOK
    <3>5. /\ since[a] \in Nat /\ since[b] \in Nat /\ now \in Nat /\ BodyWait \in Nat
          /\ (2 * Skew + 1) * TicksPerSecond \in Nat
      BY <1>0, ConstantsAssumption DEF TypeOK
    <3>6. TtlTicks >= (2 * Skew + 1) * TicksPerSecond + BodyWait
      BY DEF TtlCoversWindow, TtlTicks
    <3> HIDE DEF opens, closes
    <3> QED
      BY <3>2, <3>3, <3>4, <3>5, <3>6, TicksType
  <2>4. \A b \in Attempts \ {a} : pc'[b] = pc[b] /\ life'[b] = life[b] /\ message'[b] = message[b]
    BY <1>0, <2>1 DEF Leave, TypeOK
  <2>5. message'[a] = message[a] /\ life'[a] = restarts
    BY <2>1, <2>2 DEF Leave
  <2> QED
    BY <2>3, <2>4, <2>5
<1> QED
  BY <1>1, <1>2, <1>3, <1>4, <1>5, <1>6 DEF Next

(* While the gateway runs no signed message gets in twice, provided that   *)
(* the nonce ttl covers the window and the longest wait for a body.        *)
THEOREM NoReplay == TtlCoversWindow => (Spec => []AcceptedOnce)
<1> SUFFICES ASSUME TtlCoversWindow PROVE Spec => []AcceptedOnce
  OBVIOUS
<1>1. Init => AcceptedOnce
  BY DEF Init, AcceptedOnce, Remembered
<1>2. IInv /\ AcceptedOnce /\ [Next]_vars => AcceptedOnce'
  BY OnceStep
<1> QED
  BY <1>1, <1>2, Invariance, PTL DEF Spec

=============================================================================
