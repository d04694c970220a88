------------------------------ MODULE SharedWork ------------------------------
(***************************************************************************)
(* What the whole system is for (doc.md:26): the users share out the cards *)
(* so that each is worked on by one of them, one card at a time, once.     *)
(* Nothing here says how they agree: no board, no votes, no messages.      *)
(***************************************************************************)
CONSTANTS Ports,    \* the users
          CardIds,  \* the cards
          NoPort    \* none of the users

VARIABLES worker,   \* worker[c]: the user at work on c, NoPort if none
          finished  \* the cards whose work has come to its end

vars == <<worker, finished>>

Begin(p, c) == /\ c \notin finished
               /\ \A d \in CardIds : worker[d] = NoPort
               /\ worker' = [worker EXCEPT ![c] = p]
               /\ UNCHANGED finished

Finish(c) == /\ worker[c] # NoPort
             /\ worker' = [worker EXCEPT ![c] = NoPort]
             /\ finished' = finished \cup {c}

Init == worker = [c \in CardIds |-> NoPort] /\ finished = {}

Next == \E c \in CardIds : Finish(c) \/ \E p \in Ports : Begin(p, c)

\* Some user begins whenever there is a card left, and whoever begins finishes.
Spec == Init /\ [][Next]_vars /\ WF_vars(Next)
=============================================================================
