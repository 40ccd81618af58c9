----------------------------- MODULE ControlLock -----------------------------
(***************************************************************************)
(* What "CONTROL ACQUIRE" and "CONTROL RELEASE" promise to the clients: a  *)
(* lock with one holder, granted in the order in which it was asked for.   *)
(* There is no queue here, only a set of waiting clients and the relation  *)
(* "asked before"; ControlArbiter is shown to implement it.                *)
(***************************************************************************)
CONSTANTS Clients, NoClient

VARIABLES
    holder,   \* the client that may change settings, or NoClient
    waiting,  \* the clients that asked and were not yet served
    before    \* pairs <<c, d>> of waiting clients: c asked before d

vars == <<holder, waiting, before>>

Among(S) == before \cap (S \X S)

Init ==
    /\ holder = NoClient
    /\ waiting = {}
    /\ before = {}

Take(c) ==
    /\ holder = NoClient /\ waiting = {}
    /\ holder' = c
    /\ UNCHANGED <<waiting, before>>

Ask(c) ==
    /\ holder \notin {NoClient, c}
    /\ c \notin waiting
    /\ waiting' = waiting \cup {c}
    /\ before' = before \cup (waiting \X {c})
    /\ UNCHANGED holder

Withdraw(c) ==
    /\ c \in waiting
    /\ waiting' = waiting \ {c}
    /\ before' = Among(waiting \ {c})
    /\ UNCHANGED holder

\* The holder gives control to the client that asked first.
HandOver(c) ==
    /\ holder # NoClient
    /\ c \in waiting /\ \A d \in waiting : <<d, c>> \notin before
    /\ holder' = c
    /\ waiting' = waiting \ {c}
    /\ before' = Among(waiting \ {c})

GiveUp ==
    /\ holder # NoClient /\ waiting = {}
    /\ holder' = NoClient
    /\ UNCHANGED <<waiting, before>>

Next ==
    \/ \E c \in Clients : Take(c) \/ Ask(c) \/ Withdraw(c) \/ HandOver(c)
    \/ GiveUp

Spec == Init /\ [][Next]_vars
=============================================================================
