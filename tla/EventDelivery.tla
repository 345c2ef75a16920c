--------------------------- MODULE EventDelivery ----------------------------
(***************************************************************************)
(* What the AI engine and the backend promise each other about a detection *)
(* event, without any thread, network, camera or crash: once an event is   *)
(* durable it opens at most one incident, and it is let go only after the  *)
(* backend has opened that incident or refused it, or with the event kept  *)
(* aside for diagnosis.                                                    *)
(***************************************************************************)
EXTENDS Naturals

CONSTANT Events

VARIABLES status,  \* "unseen", "stored", "settled" or "aside"
          opened,  \* how many incidents the event has opened
          refused  \* events the backend has refused at least once

vars == <<status, opened, refused>>

Init == /\ status = [e \in Events |-> "unseen"]
        /\ opened = [e \in Events |-> 0]
        /\ refused = {}

Store(e) == /\ status[e] = "unseen"
            /\ status' = [status EXCEPT ![e] = "stored"]
            /\ UNCHANGED <<opened, refused>>

\* A request that outlived its sender may be served after the event was let go.
Open(e) == /\ status[e] # "unseen"
           /\ opened[e] = 0
           /\ opened' = [opened EXCEPT ![e] = 1]
           /\ UNCHANGED <<status, refused>>

Refuse(e) == /\ status[e] # "unseen"
             /\ refused' = refused \cup {e}
             /\ UNCHANGED <<status, opened>>

Settle(e) == /\ status[e] = "stored"
             /\ opened[e] = 1 \/ e \in refused
             /\ status' = [status EXCEPT ![e] = "settled"]
             /\ UNCHANGED <<opened, refused>>

SetAside(e) == /\ status[e] = "stored"
               /\ status' = [status EXCEPT ![e] = "aside"]
               /\ UNCHANGED <<opened, refused>>

Next == \E e \in Events : Store(e) \/ Open(e) \/ Refuse(e) \/ Settle(e) \/ SetAside(e)

Spec == Init /\ [][Next]_vars
=============================================================================
