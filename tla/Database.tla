------------------------------ MODULE Database ------------------------------
(***************************************************************************)
(* The board's database (src/src/lavagna/database.c).                      *)
(*                                                                         *)
(* A database d is the C struct Database: the user slots, the cards, the   *)
(* counter of the registered users and the id of the offered card.  Every  *)
(* operator takes the database and gives the one the C function leaves; a  *)
(* function that fails leaves it as it was, and the test that decides is   *)
(* an operator of its own (CanAddUser, CanTake...).                        *)
(*                                                                         *)
(* Abstractions.  A card is a cell of d.cards indexed by its id, not by    *)
(* its array index (ids are unique and cards are never deleted); it has no *)
(* text.  A timestamp is replaced by the whole seconds since it was set,   *)
(* capped at the timeout it is compared with, and is kept only where the   *)
(* code reads it: for a DOING card and for a PINGED user.                  *)
(***************************************************************************)
EXTENDS Integers, FiniteSets

CONSTANTS MAX_USERS,        \* slots for users
          MAX_CARDS,        \* cards the board can hold
          MIN_USER_PORT,    \* the smallest port a user may register with
          WORKING_TIMEOUT,  \* seconds before a DOING card's user is pinged
          PING_TIMEOUT,     \* seconds a PINGED user has to answer
          Ports,            \* bound: the ports of the user processes
          Fds,              \* bound: descriptors left to the connections
          CardIds,          \* bound: the ids cards can have
          INITIAL_CARDS     \* how many cards database_init creates

ASSUME TimeoutsAssumption == /\ WORKING_TIMEOUT \in Nat \ {0}
                             /\ PING_TIMEOUT \in Nat \ {0}

ASSUME LimitsAssumption == /\ MAX_USERS \in Nat \ {0}
                           /\ MAX_CARDS \in Nat \ {0}
                           /\ MIN_USER_PORT \in Nat \ {0}
                           /\ INITIAL_CARDS \in 0 .. MAX_CARDS

ASSUME IdsAssumption == /\ Ports \subseteq Nat \ {0}
                        /\ Fds \subseteq Nat \ {0}
                        /\ CardIds \subseteq Nat \ {0}
                        /\ IsFiniteSet(CardIds)
                        /\ 1 .. INITIAL_CARDS \subseteq CardIds

NoPort == 0
NoCard == -1
Missing == -1
Slots == 0 .. MAX_USERS - 1

Columns == {"TODO", "DOING", "DONE"}
UserStatus == {"EMPTY", "IDLE", "ACTIVE", "PINGED"}

User == [used : BOOLEAN, socket_fd : Fds \cup {0}, port : Ports \cup {NoPort},
         status : UserStatus, assigned_card_id : CardIds \cup {NoCard},
         ping_age : 0 .. PING_TIMEOUT]

Card == [used : BOOLEAN, status : Columns, assigned_user_port : Ports \cup {NoPort},
         age : 0 .. WORKING_TIMEOUT]

\* A cleared slot: memset to 0, the id of its card set to -1.
FreeSlot == [used |-> FALSE, socket_fd |-> 0, port |-> NoPort, status |-> "EMPTY",
             assigned_card_id |-> NoCard, ping_age |-> 0]

FreeCard == [used |-> FALSE, status |-> "TODO", assigned_user_port |-> NoPort, age |-> 0]

Databases == [users : [Slots -> User], cards : [CardIds -> Card],
              num_users : Int, offered_card_id : CardIds \cup {NoCard}]

-----------------------------------------------------------------------------
(* Lookups: the scans of the two arrays.                                   *)

First(S) == IF S = {} THEN Missing ELSE CHOOSE i \in S : \A j \in S : i <= j

UsedSlots(d) == {i \in Slots : d.users[i].used}

find_user_index(d, port) == First({i \in UsedSlots(d) : d.users[i].port = port})

find_user_index_by_socket(d, fd) == First({i \in UsedSlots(d) : d.users[i].socket_fd = fd})

find_free_user_index(d) == First(Slots \ UsedSlots(d))

UsedCards(d) == {c \in CardIds : d.cards[c].used}

InColumn(d, column) == {c \in UsedCards(d) : d.cards[c].status = column}

IsRegistered(d, port) == find_user_index(d, port) # Missing

UserAt(d, port) == d.users[find_user_index(d, port)]

PutUser(d, i, user) == [d EXCEPT !.users = [@ EXCEPT ![i] = user]]

PutCard(d, c, card) == [d EXCEPT !.cards = [@ EXCEPT ![c] = card]]

\* The ports of database_get_users_list (their order is the receiver's).
RegisteredPorts(d) == {d.users[i].port : i \in UsedSlots(d)}

users_list_except(d, port) == RegisteredPorts(d) \ {port}

port_from_socket(d, fd) ==
  IF find_user_index_by_socket(d, fd) = Missing THEN NoPort
  ELSE d.users[find_user_index_by_socket(d, fd)].port

socket_from_port(d, port) ==
  IF IsRegistered(d, port) THEN UserAt(d, port).socket_fd ELSE Missing

StatusOf(d, port) == IF IsRegistered(d, port) THEN UserAt(d, port).status ELSE "EMPTY"

has_doing_cards(d) == InColumn(d, "DOING") # {}

next_todo_card(d) == First(InColumn(d, "TODO"))

-----------------------------------------------------------------------------
(* Users.                                                                  *)

CanAddUserTwice(d, port) ==  \* variant: the port is not looked up
  port >= MIN_USER_PORT /\ find_free_user_index(d) # Missing

CanAddUser(d, port) == /\ ~IsRegistered(d, port)
                       /\ port >= MIN_USER_PORT
                       /\ find_free_user_index(d) # Missing

add_user(d, fd, port) ==
  [PutUser(d, find_free_user_index(d),
           [FreeSlot EXCEPT !.used = TRUE, !.socket_fd = fd, !.port = port, !.status = "IDLE"])
   EXCEPT !.num_users = @ + 1]

remove_user_uncounted(d, port) ==  \* variant: the counter is not decremented
  IF IsRegistered(d, port) THEN PutUser(d, find_user_index(d, port), FreeSlot) ELSE d

remove_user_fails(d, port) == d  \* variant: the user is never found

remove_user(d, port) ==
  IF IsRegistered(d, port)
  THEN [PutUser(d, find_user_index(d, port), FreeSlot) EXCEPT !.num_users = @ - 1]
  ELSE d

\* What the setters share: nothing happens when the port is not registered.
SetUser(d, port, status, card) ==
  IF IsRegistered(d, port)
  THEN PutUser(d, find_user_index(d, port),
               [UserAt(d, port) EXCEPT !.status = status, !.assigned_card_id = card,
                                       !.ping_age = 0])
  ELSE d

user_assign_card(d, port, c) == SetUser(d, port, "ACTIVE", c)

user_clear_card(d, port) == SetUser(d, port, "IDLE", NoCard)

user_set_ping_active(d, port) ==  \* variant: the status is left ACTIVE
  SetUser(d, port, "ACTIVE", UserAt(d, port).assigned_card_id)

user_set_ping(d, port) == SetUser(d, port, "PINGED", UserAt(d, port).assigned_card_id)

user_clear_ping(d, port) == SetUser(d, port, "ACTIVE", UserAt(d, port).assigned_card_id)

TimedOutUsers(d) ==
  {i \in UsedSlots(d) : d.users[i].status = "PINGED" /\ d.users[i].ping_age >= PING_TIMEOUT}

-----------------------------------------------------------------------------
(* Cards.                                                                  *)

\* The id database_create_card gives: the largest one used, plus one.
next_card_id(d) ==
  IF UsedCards(d) = {} THEN 1
  ELSE 1 + CHOOSE c \in UsedCards(d) : \A e \in UsedCards(d) : e <= c

NewCardId(d, requested) == IF requested <= 0 THEN next_card_id(d) ELSE requested

CanCreate(d, requested) == /\ NewCardId(d, requested) \in CardIds \ UsedCards(d)
                           /\ Cardinality(UsedCards(d)) < MAX_CARDS

create_card(d, requested, column) ==
  PutCard(d, NewCardId(d, requested), [FreeCard EXCEPT !.used = TRUE, !.status = column])

set_offered_card(d, c) == [d EXCEPT !.offered_card_id = c]

clear_offered_card(d) == [d EXCEPT !.offered_card_id = NoCard]

CanTake(d, port, c) == /\ c \in InColumn(d, "TODO")
                       /\ IsRegistered(d, port)
                       /\ UserAt(d, port).status = "IDLE"

card_doing_socket(d, port, c) ==  \* variant: notes the socket, not the port
  PutCard(user_assign_card(d, port, c), c,
          [d.cards[c] EXCEPT !.status = "DOING", !.age = 0,
                             !.assigned_user_port = socket_from_port(d, port)])

card_doing(d, port, c) ==
  PutCard(user_assign_card(d, port, c), c,
          [d.cards[c] EXCEPT !.status = "DOING", !.assigned_user_port = port, !.age = 0])

CanFinish(d, port, c) == /\ c \in InColumn(d, "DOING")
                         /\ d.cards[c].assigned_user_port = port

card_done(d, port, c) ==
  user_clear_card(PutCard(d, c, [d.cards[c] EXCEPT !.status = "DONE", !.age = 0]), port)

BackToTodo(d, c) ==
  PutCard(d, c, [d.cards[c] EXCEPT !.status = "TODO", !.assigned_user_port = NoPort, !.age = 0])

card_todo_user(d, port) ==  \* variant: frees the user, forgets the card
  user_clear_card(d, port)

card_todo(d, port) ==
  LET c == UserAt(d, port).assigned_card_id
  IN  IF ~IsRegistered(d, port) \/ c = NoCard THEN d
      ELSE user_clear_card(IF c \in InColumn(d, "DOING") THEN BackToTodo(d, c) ELSE d, port)

CanMove(d, c, column, port) ==
  /\ c \in UsedCards(d)
  /\ column = "TODO" \/ (port # NoPort /\ IsRegistered(d, port))

move_card(d, c, column, port) ==
  IF column = "TODO"
  THEN BackToTodo(user_clear_card(d, d.cards[c].assigned_user_port), c)
  ELSE PutCard(user_assign_card(d, port, c), c,
               [d.cards[c] EXCEPT !.status = column, !.assigned_user_port = port, !.age = 0])

card_reset_timestamp(d, port) ==
  LET c == UserAt(d, port).assigned_card_id
  IN  IF IsRegistered(d, port) /\ c \in InColumn(d, "DOING")
      THEN PutCard(d, c, [d.cards[c] EXCEPT !.age = 0])
      ELSE d

TimedOutCards(d) == {c \in InColumn(d, "DOING") : d.cards[c].age >= WORKING_TIMEOUT}

-----------------------------------------------------------------------------
(* A second of the clock time() reads, for every timestamp compared.       *)

Older(age, limit) == IF age < limit THEN age + 1 ELSE age

OneSecondLater(d) ==
  [d EXCEPT
     !.users = [i \in Slots |->
                 IF d.users[i].status = "PINGED"
                 THEN [d.users[i] EXCEPT !.ping_age = Older(@, PING_TIMEOUT)] ELSE d.users[i]],
     !.cards = [c \in CardIds |->
                 IF d.cards[c].used /\ d.cards[c].status = "DOING"
                 THEN [d.cards[c] EXCEPT !.age = Older(@, WORKING_TIMEOUT)] ELSE d.cards[c]]]

-----------------------------------------------------------------------------
\* database_init: the initial cards, in TODO with the ids 1, 2, ...
DatabaseInit ==
  [users |-> [i \in Slots |-> FreeSlot],
   cards |-> [c \in CardIds |-> IF c \in 1 .. INITIAL_CARDS
                                THEN [FreeCard EXCEPT !.used = TRUE] ELSE FreeCard],
   num_users |-> 0,
   offered_card_id |-> NoCard]
=============================================================================
