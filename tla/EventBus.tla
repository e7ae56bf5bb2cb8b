------------------------------ MODULE EventBus ------------------------------
(***************************************************************************)
(* EventBus (musicfs-core/src/events.rs), a broadcast channel: every       *)
(* receiver gets every event published since it subscribed, in order.  One *)
(* that is more than Capacity events behind has lost the oldest, and is    *)
(* told so (Lagged) before it gets the next.                               *)
(***************************************************************************)
EXTENDS Integers, Sequences, Maps

CONSTANTS
    Receivers,
    Capacity

ASSUME EventBusAssumption == Capacity \in Nat \ {0}

VARIABLES
    inbox,    \* of each receiver: what was published and not yet received
    lagged    \* the receivers that will be told Lagged first

bus == <<inbox, lagged>>

BusInit ==
    /\ inbox = [r \in Receivers |-> <<>>]
    /\ lagged = {}

Overflows(r) == r \in DOMAIN inbox /\ Len(inbox[r]) = Capacity

publish(event) ==
    /\ inbox' = [r \in DOMAIN inbox |->
                   Append(IF Overflows(r) THEN Tail(inbox[r]) ELSE inbox[r], event)]
    /\ lagged' = lagged \cup {r \in DOMAIN inbox : Overflows(r)}

\* A receiver that is gone and comes back hears of nothing in between.
Unsubscribe(r) ==
    /\ inbox' = Remove(inbox, {r})
    /\ lagged' = lagged \ {r}

\* recv answers Lagged once, then the oldest event that is still there.
HearsLagged(r) ==
    /\ r \in lagged
    /\ lagged' = lagged \ {r}
    /\ UNCHANGED inbox

Hears(r) ==
    /\ r \in DOMAIN inbox \ lagged /\ inbox[r] # <<>>
    /\ inbox' = [inbox EXCEPT ![r] = Tail(@)]
    /\ UNCHANGED lagged
=============================================================================
