----------------------------- MODULE KanbanBoard -----------------------------
(***************************************************************************)
(* What the board promises when nobody moves cards by hand: the kanban of  *)
(* the course text (src/Istruzioni progetto/) as the users see it.  Cards  *)
(* go TODO -> DOING -> DONE, one at a time, with two users present when a  *)
(* card is taken; only its worker finishes a card, and a worker that       *)
(* leaves puts its card back in the same step.                             *)
(***************************************************************************)
EXTENDS Integers, FiniteSets

CONSTANTS Ports, CardIds, INITIAL_CARDS

NoPort == 0

VARIABLES users,   \* the ports of the registered users
          column,  \* column[c]: where card c is, "NONE" before it exists
          worker   \* worker[c]: who works on card c while it is DOING

boardVars == <<users, column, worker>>

Init == /\ users = {}
        /\ column = [c \in CardIds |-> IF c \in 1 .. INITIAL_CARDS THEN "TODO" ELSE "NONE"]
        /\ worker = [c \in CardIds |-> NoPort]

Join(p) == /\ p \notin users
           /\ users' = users \cup {p}
           /\ UNCHANGED <<column, worker>>

Leave(p) == /\ p \in users
            /\ users' = users \ {p}
            /\ column' = [c \in CardIds |-> IF worker[c] = p THEN "TODO" ELSE column[c]]
            /\ worker' = [c \in CardIds |-> IF worker[c] = p THEN NoPort ELSE worker[c]]

Create(c) == /\ column[c] = "NONE"
             /\ \E col \in {"TODO", "DONE"} : column' = [column EXCEPT ![c] = col]
             /\ UNCHANGED <<users, worker>>

Take(p, c) == /\ p \in users
              /\ Cardinality(users) > 1
              /\ column[c] = "TODO"
              /\ \A e \in CardIds : column[e] # "DOING"
              /\ column' = [column EXCEPT ![c] = "DOING"]
              /\ worker' = [worker EXCEPT ![c] = p]
              /\ UNCHANGED users

Finish(c) == /\ column[c] = "DOING"
             /\ worker[c] \in users
             /\ column' = [column EXCEPT ![c] = "DONE"]
             /\ worker' = [worker EXCEPT ![c] = NoPort]
             /\ UNCHANGED users

Next == \/ \E p \in Ports : Join(p) \/ Leave(p)
        \/ \E c \in CardIds : Create(c) \/ Finish(c) \/ \E p \in Ports : Take(p, c)

Spec == Init /\ [][Next]_boardVars
=============================================================================
