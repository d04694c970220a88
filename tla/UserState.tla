------------------------------ MODULE UserState ------------------------------
(***************************************************************************)
(* The state the three threads of a user share (utente_state.c).           *)
(*                                                                         *)
(* Every function of the file is one critical section on it, so here it is *)
(* one operator: it takes the state u (and "me", the user's own port) and  *)
(* gives the one the function leaves.  A function that may refuse has its  *)
(* test as an operator of its own.                                         *)
(*                                                                         *)
(* Abstractions.  The choices are the set of the entries in use, as pairs  *)
(* <<port, cost>>: choice_count is its size.  The text of the card and the *)
(* thread handles are left out; the threads are in module Utente.          *)
(***************************************************************************)
EXTENDS Integers, FiniteSets

CONSTANTS MAX_USERS,  \* entries of the table of choices
          Ports,      \* bound: the ports of the user processes
          CardIds,    \* bound: the ids cards can have
          Costs       \* bound: the costs rand() draws

ASSUME UserAssumption == /\ MAX_USERS \in Nat \ {0}
                         /\ Ports \subseteq Nat \ {0}
                         /\ CardIds \subseteq Nat \ {0}
                         /\ Costs \subseteq Int
                         /\ IsFiniteSet(Ports)

NoCard == -1
NoPort == 0

UtenteState == {"STARTING_P2P", "CONNECTING", "IDLE", "CHOOSING", "ACK_PENDING", "WORKING",
                "DONE_PENDING", "DISCONNECTING", "SHUTTING_DOWN"}

Utenti == [state : UtenteState, card_id : CardIds \cup {NoCard}, total_users : Int,
           peer_ports : SUBSET Ports, choices : SUBSET (Ports \X Costs),
           own_cost : Costs \cup {0}, worker_started : BOOLEAN]

utente_init == [state |-> "STARTING_P2P", card_id |-> NoCard, total_users |-> 0,
                peer_ports |-> {}, choices |-> {}, own_cost |-> 0, worker_started |-> FALSE]

update_state(u, state) == [u EXCEPT !.state = state]

-----------------------------------------------------------------------------
(* The vote.                                                               *)

Voters(choices) == {e[1] : e \in choices}

\* add_choice_locked: a port votes once, and the table has MAX_USERS entries.
add_choice(choices, port, cost) ==
  IF port \in Voters(choices) \/ Cardinality(choices) >= MAX_USERS THEN choices
  ELSE choices \cup {<<port, cost>>}

Beats(a, b) == a[2] < b[2] \/ (a[2] = b[2] /\ a[1] < b[1])

Best(choices) == {a \in choices : \A b \in choices \ {a} : Beats(a, b)}

\* choose_winner_locked: the least cost, the lowest port if they tie.
choose_winner(choices) == IF Best(choices) = {} THEN NoPort ELSE (CHOOSE a \in Best(choices) : TRUE)[1]

\* What a user forgets with its card.
Released(u) == [u EXCEPT !.state = "IDLE", !.card_id = NoCard, !.total_users = 0,
                         !.peer_ports = {}, !.choices = {}]

AllArrived(u) == /\ u.state = "CHOOSING"
                 /\ u.total_users > 0
                 /\ Cardinality(u.choices) >= u.total_users

evaluate_election_tie(u, me) ==  \* variant: in a tie every user takes itself
  IF ~AllArrived(u) THEN u
  ELSE IF \E a \in u.choices : a[1] = me /\ \A b \in u.choices : a[2] <= b[2]
       THEN update_state(u, "ACK_PENDING")
  ELSE Released(u)

evaluate_election(u, me) ==
  IF ~AllArrived(u) THEN u
  ELSE IF choose_winner(u.choices) = me THEN update_state(u, "ACK_PENDING")
  ELSE Released(u)

start_election(u, me, card, total, peers, cost) ==
  LET kept == IF u.card_id = card THEN u.choices ELSE {}
  IN  evaluate_election([u EXCEPT !.card_id = card, !.total_users = total, !.peer_ports = peers,
                                  !.own_cost = cost, !.state = "CHOOSING",
                                  !.choices = add_choice(kept, me, cost)], me)

record_choice_offered(u, me, card, port, cost) ==  \* variant: drops what comes before the offer
  IF u.card_id # card THEN u
  ELSE evaluate_election([u EXCEPT !.choices = add_choice(u.choices, port, cost)], me)

record_choice_swapped(u, me, card, port, cost) ==  \* variant: takes the port for the cost
  IF u.card_id \notin {NoCard, card} THEN u
  ELSE evaluate_election([u EXCEPT !.card_id = card,
                                   !.choices = add_choice(u.choices, cost, port)], me)

\* A cost that comes before the offer it answers opens the table of its card;
\* one for another card than the current one is dropped.
record_choice(u, me, card, port, cost) ==
  IF u.card_id \notin {NoCard, card} THEN u
  ELSE evaluate_election([u EXCEPT !.card_id = card,
                                   !.choices = add_choice(u.choices, port, cost)], me)

-----------------------------------------------------------------------------
(* The actions the main thread takes from the state.                       *)

CanAck(u) == u.state = "ACK_PENDING"

\* ACK_CARD typed; the id given, if any, is that of the card.
CanAckManually(u) == u.state \in {"CHOOSING", "ACK_PENDING"} /\ u.card_id # NoCard

take_manual_ack(u) == update_state(u, "WORKING")

mark_working(u) == update_state(u, "WORKING")

mark_done_pending(u, card) ==
  IF u.state = "WORKING" /\ u.card_id = card THEN update_state(u, "DONE_PENDING") ELSE u

CanFinishEarly(u) == u.state \in {"WORKING", "DONE_PENDING"}  \* variant: before the worker ends

CanFinish(u) == u.state = "DONE_PENDING"

take_done(u) == Released(u)

CanFinishManually(u) == u.state \in {"WORKING", "DONE_PENDING"} /\ u.card_id # NoCard

\* CARD_DONE typed: the worker, if there is one, is detached.
take_manual_done(u) == [Released(u) EXCEPT !.worker_started = FALSE]

CanStartAnother(u) == TRUE  \* variant: a worker may be running

CanStart(u) == ~u.worker_started

start_worker(u) == [u EXCEPT !.worker_started = TRUE]

worker_joined(u) == [u EXCEPT !.worker_started = FALSE]
=============================================================================
