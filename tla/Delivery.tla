------------------------------ MODULE Delivery ------------------------------
(* What a reminder that fires once promises, without the store, the jobs   *)
(* and the claims that keep it (triggers/store.py, triggers/scheduler.py). *)
(* It is kept only when the chat was told or the channel withholds it, an  *)
(* unlabelled copy reaches the chat at most once, what is kept or dropped  *)
(* never comes back to owe another delivery, and nothing is told before    *)
(* it was made.  A moved promise ends here: what replaces it is another.   *)
EXTENDS Naturals

CONSTANTS
    Promise,    \* the reminders that fire once
    Withheld    \* those whose chat the channel does not deliver to

VARIABLES
    status,     \* promise |-> how far it came
    told,       \* those the chat was told
    copies      \* promise |-> its unlabelled copies in the chat

deliveryVars == <<status, told, copies>>

DeliveryInit ==
    /\ status = [i \in Promise |-> "none"]
    /\ told = {}
    /\ copies = [i \in Promise |-> 0]

Becomes(i, s) == status' = [status EXCEPT ![i] = s]

Makes(i) == status[i] = "none" /\ Becomes(i, "open") /\ UNCHANGED <<told, copies>>

(* A copy reaches the chat, whatever became of the promise since it left:  *)
(* after the first unlabelled one only labelled ones.                      *)
Tells(i) ==
    /\ status[i] \in {"open", "kept", "dropped"}
    /\ told' = told \cup {i}
    /\ \/ copies[i] = 0 /\ copies' = [copies EXCEPT ![i] = 1]
       \/ UNCHANGED copies
    /\ UNCHANGED status

Keeps(i) ==
    /\ status[i] = "open" /\ i \in told \cup Withheld
    /\ Becomes(i, "kept")
    /\ UNCHANGED <<told, copies>>

Drops(i) == status[i] = "open" /\ Becomes(i, "dropped") /\ UNCHANGED <<told, copies>>

Moves(i) ==
    /\ status[i] = "open" /\ Becomes(i, "moved")
    /\ told' = told \ {i}
    /\ copies' = [copies EXCEPT ![i] = 0]

DeliveryNext ==
    \E i \in Promise : Makes(i) \/ Tells(i) \/ Keeps(i) \/ Drops(i) \/ Moves(i)

DeliverySpec == DeliveryInit /\ [][DeliveryNext]_deliveryVars
=============================================================================
