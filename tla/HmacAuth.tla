------------------------------ MODULE HmacAuth ------------------------------
(***************************************************************************)
(* verify_hmac_request, the NonceStore behind it and require_hmac_scopes:  *)
(* who is let in, and that nobody is let in twice with one message.        *)
(*                                                                         *)
(* A message is what a client signed: method, path, query, timestamp,      *)
(* nonce and body.  An attempt is one delivery of a message; clients       *)
(* retry, so one message may be delivered several times, at any time.  The *)
(* handler runs on the event loop and gives it up only while it awaits the *)
(* body, so an attempt is two steps: Check and Authenticate.               *)
(***************************************************************************)
EXTENDS Integers

CONSTANTS
  Attempts,        \* deliveries, each made once
  Messages,        \* what is delivered
  StoreKeys,       \* f"{scope}:{nonce}", the keys of the nonce store
  StoreKeyOf,      \* the store key of each message
  Stamp,           \* X-Timestamp of each message, in seconds
  Readable,        \* messages with all headers, a known key and a numeric stamp
  Signed,          \* messages whose signature is the expected one
  Scoped,          \* messages whose key has a scope the endpoint requires
  None,            \* no entry, no message
  TicksPerSecond,  \* resolution of time.time()
  Skew,            \* hmac_allowed_clock_skew_seconds
  Ttl,             \* hmac_nonce_ttl_seconds
  BodyWait,        \* bound of the model: ticks an attempt may await its body
  MaxTime,         \* bound of the model: the clock stops here
  MaxRestarts      \* bound of the model: restarts of the gateway

ASSUME ConstantsAssumption ==
  /\ StoreKeyOf \in [Messages -> StoreKeys]
  /\ Stamp \in [Messages -> Nat]
  /\ Readable \subseteq Messages /\ Signed \subseteq Messages /\ Scoped \subseteq Messages
  /\ TicksPerSecond \in Nat \ {0}
  /\ Skew \in Nat /\ Ttl \in Nat /\ BodyWait \in Nat
  /\ MaxTime \in Nat /\ MaxRestarts \in Nat
  /\ None \notin Nat /\ None \notin Messages

VARIABLES
  now,      \* time.time(), in ticks
  items,    \* NonceStore._items: when each remembered key expires
  pc,       \* where each attempt is in the handler, or how it ended
  message,  \* the message each attempt delivers
  since,    \* when each attempt made its latest step
  life,     \* the run of the gateway that took each attempt
  restarts  \* how many times the gateway was restarted

vars == <<now, items, pc, message, since, life, restarts>>

Locations == {"idle", "body", "unreadable", "outside_window", "forged",
              "replayed", "admitted", "forbidden", "raised", "lost"}

(* Operators named ...Mutant are plausible bugs, not part of the model: the *)
(* properties are shown to fail when one of them replaces its original.    *)

Seconds(t) == t \div TicksPerSecond

UncheckedFutureMutant(m) == Seconds(now) - Stamp[m] <= Skew

(* The clock is truncated to seconds: int(time.time()).                    *)
InWindow(m) ==
  LET age == Seconds(now) - Stamp[m] IN -Skew <= age /\ age <= Skew

KeepExpiredMutant == items

(* NonceStore._purge at the present.                                       *)
Purged ==
  [k \in StoreKeys |-> IF items[k] # None /\ items[k] <= now THEN None ELSE items[k]]

-----------------------------------------------------------------------------

(* Up to the await of the body: headers, key id, timestamp, window.        *)
Check(a, m) ==
  /\ pc[a] = "idle"
  /\ message' = [message EXCEPT ![a] = m]
  /\ since' = [since EXCEPT ![a] = now]
  /\ life' = [life EXCEPT ![a] = restarts]
  /\ \/ m \notin Readable /\ pc' = [pc EXCEPT ![a] = "unreadable"]
     \/ m \in Readable /\ ~InWindow(m) /\ pc' = [pc EXCEPT ![a] = "outside_window"]
     \/ m \in Readable /\ InWindow(m) /\ pc' = [pc EXCEPT ![a] = "body"]
  /\ UNCHANGED <<now, items, restarts>>

(* An attempt leaves the handler for good, by way of the body.             *)
Leave(a, to) ==
  /\ pc[a] = "body"
  /\ pc' = [pc EXCEPT ![a] = to]
  /\ since' = [since EXCEPT ![a] = now]
  /\ UNCHANGED <<now, message, life, restarts>>

RejectForged(a) ==
  /\ message[a] \notin Signed
  /\ Leave(a, "forged")
  /\ UNCHANGED items

(* No AuthenticationError: the client leaves before its body is read, or   *)
(* compare_digest is given a signature that is not ASCII.                  *)
Abort(a) ==
  /\ Leave(a, "raised")
  /\ UNCHANGED items

(* NonceStore.remember finds the key, after the purge.                     *)
RejectReplay(a) ==
  /\ message[a] \in Signed
  /\ Purged[StoreKeyOf[message[a]]] # None
  /\ Leave(a, "replayed")
  /\ items' = Purged

SubtractTtlMutant(a) ==
  /\ message[a] \in Signed
  /\ Purged[StoreKeyOf[message[a]]] = None
  /\ Leave(a, IF message[a] \in Scoped THEN "admitted" ELSE "forbidden")
  /\ items' = [Purged EXCEPT ![StoreKeyOf[message[a]]] = now - Ttl * TicksPerSecond]

OverwriteMutant(a) ==
  /\ message[a] \in Signed
  /\ Leave(a, IF message[a] \in Scoped THEN "admitted" ELSE "forbidden")
  /\ items' = [Purged EXCEPT ![StoreKeyOf[message[a]]] = now + Ttl * TicksPerSecond]

(* NonceStore.remember keeps the key; require_hmac_scopes comes only then. *)
Admit(a) ==
  /\ message[a] \in Signed
  /\ Purged[StoreKeyOf[message[a]]] = None
  /\ Leave(a, IF message[a] \in Scoped THEN "admitted" ELSE "forbidden")
  /\ items' = [Purged EXCEPT ![StoreKeyOf[message[a]]] = now + Ttl * TicksPerSecond]

(* The gateway stops and starts again: the store lives in memory only, and *)
(* requests being served are lost.                                         *)
Restart ==
  /\ restarts < MaxRestarts
  /\ restarts' = restarts + 1
  /\ items' = [k \in StoreKeys |-> None]
  /\ pc' = [a \in Attempts |-> IF pc[a] = "body" THEN "lost" ELSE pc[a]]
  /\ UNCHANGED <<now, message, since, life>>

Tick ==
  /\ now < MaxTime
  /\ \A a \in Attempts : pc[a] = "body" => now - since[a] < BodyWait
  /\ now' = now + 1
  /\ UNCHANGED <<items, pc, message, since, life, restarts>>

(* The modelled time is over and nobody is being served.                   *)
TimeIsOver ==
  /\ now = MaxTime
  /\ \A a \in Attempts : pc[a] # "body"
  /\ UNCHANGED vars

Init ==
  /\ now = 0
  /\ items = [k \in StoreKeys |-> None]
  /\ pc = [a \in Attempts |-> "idle"]
  /\ message = [a \in Attempts |-> None]
  /\ since = [a \in Attempts |-> 0]
  /\ life = [a \in Attempts |-> 0]
  /\ restarts = 0

Next ==
  \/ Tick
  \/ Restart
  \/ \E a \in Attempts :
       \/ \E m \in Messages : Check(a, m)
       \/ RejectForged(a) \/ Abort(a) \/ RejectReplay(a) \/ Admit(a)
  \/ TimeIsOver

Spec == Init /\ [][Next]_vars

-----------------------------------------------------------------------------
(* Properties.                                                             *)

TypeOK ==
  /\ now \in Nat
  /\ items \in [StoreKeys -> Nat \cup {None}]
  /\ pc \in [Attempts -> Locations]
  /\ message \in [Attempts -> Messages \cup {None}]
  /\ since \in [Attempts -> Nat]
  /\ life \in [Attempts -> Nat]
  /\ restarts \in Nat

(* Attempts whose nonce was remembered, whether their scopes suffice or not. *)
Remembered(a) == pc[a] \in {"admitted", "forbidden"}

(* The nonces are kept long enough for the window they guard: a message is *)
(* in the window for 2 * Skew + 1 seconds and may be held back for         *)
(* BodyWait more before its nonce is looked up.                            *)
TtlCoversWindow ==
  Ttl * TicksPerSecond >= (2 * Skew + 1) * TicksPerSecond + BodyWait

(* No replay (verify_hmac_request, NonceStore): while the gateway runs, a  *)
(* message gets in at most once, however often and whenever it is          *)
(* delivered, across the purge of its nonce and the truncation of the      *)
(* clock.  It holds because the nonce outlives the window.                 *)
AcceptedOnce ==
  \A a, b \in Attempts :
    (a # b /\ Remembered(a) /\ Remembered(b) /\ life[a] = life[b])
      => message[a] # message[b]

(* No client is turned away without cause: a request is rejected as a      *)
(* replay only when one with the same store key got in less than Ttl       *)
(* before, in the same run of the gateway.  Forged requests, requests      *)
(* outside the window and expired nonces never burn a nonce.               *)
ReplayHasCause ==
  \A b \in Attempts : pc[b] = "replayed" =>
    \E a \in Attempts :
      /\ Remembered(a) /\ life[a] = life[b]
      /\ StoreKeyOf[message[a]] = StoreKeyOf[message[b]]
      /\ since[b] < since[a] + Ttl * TicksPerSecond

=============================================================================
