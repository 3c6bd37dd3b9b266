---------------------------- MODULE ItemDelivery ----------------------------
(***************************************************************************)
(* What the dispatch pipeline promises about an item, its queue, inbox,    *)
(* leases, claims and retries left out: a published item is written to its *)
(* destinations and settled once, as done, uncertain or dead; done means   *)
(* it was written to all of them; only a dead item starts over.            *)
(***************************************************************************)
CONSTANTS
    Items,
    Targets    \* per item, the destinations it has to reach

VARIABLES
    item,      \* "unsent", "pending", "done", "uncertain" or "dead"
    reached    \* per item, the destinations it has been written to

itemVars == <<item, reached>>

DeliveryInit ==
    /\ item = [i \in Items |-> "unsent"]
    /\ reached = [i \in Items |-> {}]

Publish(i) ==
    /\ item[i] = "unsent"
    /\ item' = [item EXCEPT ![i] = "pending"]
    /\ UNCHANGED reached

\* the external write, at most of an item that is not settled
Reach(i, t) ==
    /\ item[i] = "pending"
    /\ reached' = [reached EXCEPT ![i] = @ \cup {t}]
    /\ UNCHANGED item

Complete(i) ==
    /\ item[i] = "pending"
    /\ reached[i] = Targets[i]
    /\ item' = [item EXCEPT ![i] = "done"]
    /\ UNCHANGED reached

GiveUp(i) ==
    /\ item[i] = "pending"
    /\ \E end \in {"uncertain", "dead"} : item' = [item EXCEPT ![i] = end]
    /\ UNCHANGED reached

Revive(i) ==
    /\ item[i] = "dead"
    /\ item' = [item EXCEPT ![i] = "pending"]
    /\ UNCHANGED reached

DeliveryNext ==
    \E i \in Items :
        \/ Publish(i) \/ Complete(i) \/ GiveUp(i) \/ Revive(i)
        \/ \E t \in Targets[i] : Reach(i, t)

DeliverySpec == DeliveryInit /\ [][DeliveryNext]_itemVars
=============================================================================
