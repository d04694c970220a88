------------------------------- MODULE Lavagna -------------------------------
(***************************************************************************)
(* The board process: src/lavagna.c and src/src/lavagna/lavagna_utils.c,   *)
(* over the database of module Database, with the connections server.c     *)
(* keeps for it.  The users and the operator are its environment.          *)
(*                                                                         *)
(* The process has one thread and runs one handler at a time.  A handler   *)
(* that loops over sends may recurse: a send that fails disconnects the    *)
(* user, which may offer a card again, inside the loop.  The loops pending *)
(* are the frames of "stack", innermost first; each step of a loop is an   *)
(* action, and no handler starts while a frame is left.                    *)
(***************************************************************************)
EXTENDS Database, Sequences

CONSTANTS Inputs,         \* optional inputs the environment uses, see InputKinds
          CreateColumns,  \* the columns users name in CREATE_CARD
          MoveColumns,    \* the columns the operator names in MOVE_CARD
          Silent          \* ports of the processes that hang once they work

InputKinds == {"HELLO_AGAIN",     \* a user repeats HELLO from its terminal
               "FOREIGN",         \* clients that are not the utente program
               "USER_LIST",       \* list of users, asked by a user or the operator
               "PING_USER",       \* the operator pings a user
               "AVAILABLE_CARD"}  \* the operator asks for an offer

ASSUME InputsAssumption == /\ Inputs \subseteq InputKinds
                           /\ CreateColumns \subseteq Columns
                           /\ MoveColumns \subseteq Columns
                           /\ Silent \subseteq Ports

VARIABLES db,     \* the database
          peer,   \* peer[fd]: port of the process connected on fd, NoPort if closed
          gone,   \* the descriptors whose peer has closed its end or died
          stack,  \* the loops the running handler has not finished
          out     \* the messages the last step put on the wire

vars == <<db, peer, gone, stack, out>>

Keyed(S) == {<<x, x>> : x \in S}

Frame == [op : {"offer", "work", "check_ping", "evict"}, card : CardIds \cup {NoCard},
          rest : SUBSET (Nat \X Nat)]

Message == [type : {"AVAILABLE_CARD", "SEND_USER_LIST", "PING_USER", "QUIT"},
            card : CardIds \cup {NoCard}, total : Int, peers : SUBSET (Ports \cup {NoPort})]

\* The fields keep their ranges: ids, ports and descriptors are never confused.
TypeOK == /\ db \in Databases
          /\ peer \in [Fds -> Ports \cup {NoPort}]
          /\ gone \subseteq Fds
          /\ stack \in Seq(Frame)
          /\ out \subseteq Fds \X Message

-----------------------------------------------------------------------------
(* Messages and sends.                                                     *)

AvailableCard(d, c, port) == [type |-> "AVAILABLE_CARD", card |-> c, total |-> d.num_users,
                              peers |-> users_list_except(d, port)]

UserList(d, port) == [type |-> "SEND_USER_LIST", card |-> NoCard, total |-> d.num_users,
                      peers |-> users_list_except(d, port)]

Bare(type) == [type |-> type, card |-> NoCard, total |-> 0, peers |-> {}]

IsOpen(fd) == fd \in Fds /\ peer[fd] # NoPort

\* A send to a peer that has gone may still succeed: the kernel learns late.
SendOk(fd) == IsOpen(fd)

SendFails(fd) == ~IsOpen(fd) \/ fd \in gone

\* server_remove_client, which does nothing on a descriptor not in the set.
CloseFd(fd) == /\ peer' = [f \in Fds |-> IF f = fd THEN NoPort ELSE peer[f]]
               /\ gone' = gone \ {fd}

-----------------------------------------------------------------------------
(* send_available_card and disconnect_user.  k is what is left to do when  *)
(* they return.                                                            *)

OfferDueWhileDoing(d) ==  \* variant: forgets the card being worked on
  d.offered_card_id = NoCard /\ d.num_users > 1 /\ next_todo_card(d) # NoCard

OfferDue(d) == /\ d.offered_card_id = NoCard
               /\ ~has_doing_cards(d)
               /\ d.num_users > 1
               /\ next_todo_card(d) # NoCard

OfferLoop(d) == [op |-> "offer", card |-> next_todo_card(d), rest |-> Keyed(RegisteredPorts(d))]

SendAvailableCard(d, k) ==
  IF OfferDue(d)
  THEN /\ db' = set_offered_card(d, next_todo_card(d))
       /\ stack' = <<OfferLoop(d)>> \o k
  ELSE /\ db' = d
       /\ stack' = k

DisconnectUserKeepsOffer(port, k) ==  \* variant: the offer survives
  /\ CloseFd(socket_from_port(db, port))
  /\ SendAvailableCard(remove_user(card_todo(db, port), port), k)

DisconnectUser(port, k) == /\ \E fd \in {socket_from_port(db, port)} : CloseFd(fd)
                           /\ \E d \in {card_todo(db, port)} :
                                \E e \in {clear_offered_card(remove_user(d, port))} :
                                  SendAvailableCard(e, k)

\* The entries a loop may take next: least key first.
Least(rest) == {e \in rest : \A x \in rest : e[1] <= x[1]}

\* The stack once entry e of the innermost loop is being handled.
After(e) == LET rest == Head(stack).rest \ {e}
            IN  IF rest = {} THEN Tail(stack)
                ELSE <<[Head(stack) EXCEPT !.rest = rest]>> \o Tail(stack)

Running(op) == stack # <<>> /\ Head(stack).op = op

\* One iteration of the loop of send_available_card.
OfferStep ==
  /\ Running("offer")
  /\ \E e \in Least(Head(stack).rest) :
       LET fd == socket_from_port(db, e[2])
       IN  \/ /\ SendOk(fd)
              /\ out' = {<<fd, AvailableCard(db, Head(stack).card, e[2])>>}
              /\ stack' = After(e)
              /\ UNCHANGED <<db, peer, gone>>
           \/ /\ SendFails(fd)
              /\ out' = {}
              /\ DisconnectUser(e[2], After(e))

-----------------------------------------------------------------------------
(* The connections.                                                        *)

FreeFds == {fd \in Fds : peer[fd] = NoPort}

Idle == stack = <<>>

\* A process connects; accept gives it the lowest free descriptor.  With no
\* descriptor left server_add_fd refuses it, which leaves no trace.
Accept(port) ==
  /\ Idle
  /\ \A fd \in Fds : peer[fd] = port => fd \in gone
  /\ \E fd \in FreeFds : /\ \A f \in FreeFds : fd <= f
                         /\ peer' = [peer EXCEPT ![fd] = port]
  /\ out' = {}
  /\ UNCHANGED <<db, gone, stack>>

\* The process on fd exits or closes; it may happen while a handler runs.
PeerGone(fd) == /\ IsOpen(fd)
                /\ fd \notin gone
                /\ gone' = gone \cup {fd}
                /\ UNCHANGED <<db, peer, stack, out>>

\* The handler returns -1: server_run closes the connection, nothing more.
Refuse(fd) == /\ CloseFd(fd)
              /\ out' = {}
              /\ UNCHANGED <<db, stack>>

ClientClosedOnly(fd) ==  \* variant: the user stays registered
  /\ Idle
  /\ IsOpen(fd)
  /\ fd \in gone
  /\ Refuse(fd)

\* receive_message finds the connection closed, or a frame it refuses.
ClientClosed(fd) ==
  /\ Idle
  /\ IsOpen(fd)
  /\ fd \in gone \/ "FOREIGN" \in Inputs
  /\ \/ /\ port_from_socket(db, fd) = NoPort
        /\ Refuse(fd)
     \/ /\ port_from_socket(db, fd) # NoPort
        /\ out' = {}
        /\ DisconnectUser(port_from_socket(db, fd), <<>>)

\* A message from a user that is not registered, or of the wrong length.
HandlerRefuses(fd) == /\ Idle
                      /\ IsOpen(fd)
                      /\ "FOREIGN" \in Inputs
                      /\ Refuse(fd)

-----------------------------------------------------------------------------
(* handle_client_message.                                                  *)

\* A message of a registered user reaches its handler.
From(fd) == Idle /\ IsOpen(fd) /\ port_from_socket(db, fd) # NoPort

UserPort(fd) == port_from_socket(db, fd)

HandleHello(fd, port) ==
  /\ Idle
  /\ IsOpen(fd)
  /\ port = peer[fd] \/ "FOREIGN" \in Inputs
  /\ port_from_socket(db, fd) # peer[fd] \/ "HELLO_AGAIN" \in Inputs
  /\ \/ /\ CanAddUser(db, port)
        /\ SendAvailableCard(add_user(db, fd, port), <<>>)
        /\ out' = {}
        /\ UNCHANGED <<peer, gone>>
     \/ /\ ~CanAddUser(db, port)
        /\ Refuse(fd)

HandleCreateCard(fd, id, column) ==
  /\ From(fd)
  /\ CanCreate(db, id)
  /\ SendAvailableCard(create_card(db, id, column), <<>>)
  /\ out' = {}
  /\ UNCHANGED <<peer, gone>>

HandleUserList(fd) ==
  /\ From(fd)
  /\ "USER_LIST" \in Inputs
  /\ SendOk(fd)
  /\ out' = {<<fd, UserList(db, UserPort(fd))>>}
  /\ UNCHANGED <<db, peer, gone, stack>>

HandleAckCardUnoffered(fd, c) ==  \* variant: accepts a card that is not on offer
  /\ From(fd)
  /\ CanTake(db, UserPort(fd), c)
  /\ db' = clear_offered_card(card_doing(db, UserPort(fd), c))
  /\ out' = {}
  /\ UNCHANGED <<peer, gone, stack>>

HandleAckCard(fd, c) ==
  /\ From(fd)
  /\ db.offered_card_id = c
  /\ CanTake(db, UserPort(fd), c)
  /\ db' = clear_offered_card(card_doing(db, UserPort(fd), c))
  /\ out' = {}
  /\ UNCHANGED <<peer, gone, stack>>

HandleCardDoneQuiet(fd, c) ==  \* variant: offers nothing afterwards
  /\ From(fd)
  /\ CanFinish(db, UserPort(fd), c)
  /\ db' = card_done(db, UserPort(fd), c)
  /\ out' = {}
  /\ UNCHANGED <<peer, gone, stack>>

HandleCardDone(fd, c) ==
  /\ From(fd)
  /\ peer[fd] \notin Silent
  /\ CanFinish(db, UserPort(fd), c)
  /\ SendAvailableCard(card_done(db, UserPort(fd), c), <<>>)
  /\ out' = {}
  /\ UNCHANGED <<peer, gone>>

HandleQuit(fd) ==
  /\ From(fd)
  /\ \E port \in {UserPort(fd)} : DisconnectUser(port, <<>>)
  /\ out' = {}

HandlePong(fd) ==
  /\ From(fd)
  /\ peer[fd] \notin Silent
  /\ db' = user_clear_ping(card_reset_timestamp(db, UserPort(fd)), UserPort(fd))
  /\ out' = {}
  /\ UNCHANGED <<peer, gone, stack>>

-----------------------------------------------------------------------------
(* handle_stdin_message: the operator's commands.                          *)

MoveCardKeepsOffer(c, column, port) ==  \* variant: the offer survives
  /\ Idle
  /\ CanMove(db, c, column, port)
  /\ SendAvailableCard(move_card(db, c, column, port), <<>>)
  /\ out' = {}
  /\ UNCHANGED <<peer, gone>>

MoveCard(c, column, port) ==
  /\ Idle
  /\ CanMove(db, c, column, port)
  /\ SendAvailableCard(clear_offered_card(move_card(db, c, column, port)), <<>>)
  /\ out' = {}
  /\ UNCHANGED <<peer, gone>>

SendUserList(port) ==
  /\ Idle
  /\ "USER_LIST" \in Inputs
  /\ SendOk(socket_from_port(db, port))
  /\ out' = {<<socket_from_port(db, port), UserList(db, port)>>}
  /\ UNCHANGED <<db, peer, gone, stack>>

\* send_user_ping on the socket of a registered user; the user pinged is the
\* one the socket is found to belong to.
SendPing(fd) ==
  LET port == port_from_socket(db, fd)
  IN  /\ StatusOf(db, port) = "ACTIVE"
      /\ SendOk(fd)
      /\ db' = user_set_ping(db, port)
      /\ out' = {<<fd, Bare("PING_USER")>>}

PingRefused(fd) ==
  /\ StatusOf(db, port_from_socket(db, fd)) # "ACTIVE" \/ SendFails(fd)
  /\ out' = {}
  /\ UNCHANGED db

PingUser(port) ==
  /\ Idle
  /\ "PING_USER" \in Inputs
  /\ IsRegistered(db, port)
  /\ SendPing(socket_from_port(db, port))
  /\ UNCHANGED <<peer, gone, stack>>

AskOffer == /\ Idle
            /\ "AVAILABLE_CARD" \in Inputs
            /\ SendAvailableCard(db, <<>>)
            /\ out' = {}
            /\ UNCHANGED <<peer, gone>>

-----------------------------------------------------------------------------
(* check_timeout: the cards first, then, on what that left, the users.  A  *)
(* pass that finds neither changes nothing and is left out.                *)

\* The cards come in creation order, which the ids do not give: any order.
WorkLoop == [op |-> "work", card |-> NoCard,
             rest |-> {<<0, c>> : c \in TimedOutCards(db)}]

CheckPing == [op |-> "check_ping", card |-> NoCard, rest |-> {}]

CheckTimeout ==
  /\ Idle
  /\ TimedOutCards(db) # {} \/ TimedOutUsers(db) # {}
  /\ stack' = IF TimedOutCards(db) = {} THEN <<CheckPing>> ELSE <<WorkLoop, CheckPing>>
  /\ out' = {}
  /\ UNCHANGED <<db, peer, gone>>

\* One iteration of check_working_timeout.
WorkStep ==
  /\ Running("work")
  /\ \E e \in Least(Head(stack).rest) :
       LET port == db.cards[e[2]].assigned_user_port
           fd == socket_from_port(db, port)
       IN  \/ /\ fd # Missing
              /\ SendPing(fd) \/ PingRefused(fd)
              /\ stack' = After(e)
              /\ UNCHANGED <<peer, gone>>
           \/ /\ fd = Missing
              /\ DisconnectUser(port, After(e))
              /\ out' = {}

\* check_ping_timeout collects the users whose ping has gone unanswered.
CheckPingStep ==
  /\ Running("check_ping")
  /\ stack' = IF TimedOutUsers(db) = {} THEN Tail(stack)
              ELSE <<[op |-> "evict", card |-> NoCard,
                      rest |-> {<<i, db.users[i].port>> : i \in TimedOutUsers(db)}]>>
                   \o Tail(stack)
  /\ out' = {}
  /\ UNCHANGED <<db, peer, gone>>

\* One iteration of check_ping_timeout: QUIT, sent or not, and disconnect.
EvictStep ==
  /\ Running("evict")
  /\ \E e \in Least(Head(stack).rest) :
       LET fd == socket_from_port(db, e[2])
       IN  /\ \/ SendOk(fd) /\ out' = {<<fd, Bare("QUIT")>>}
              \/ SendFails(fd) /\ out' = {}
           /\ DisconnectUser(e[2], After(e))

\* Time passes, in the middle of a handler too.
Tick == /\ OneSecondLater(db) # db
        /\ db' = OneSecondLater(db)
        /\ UNCHANGED <<peer, gone, stack, out>>

-----------------------------------------------------------------------------
Init == /\ db = DatabaseInit
        /\ peer = [fd \in Fds |-> NoPort]
        /\ gone = {}
        /\ stack = <<>>
        /\ out = {}

Loops == OfferStep \/ WorkStep \/ CheckPingStep \/ EvictStep

Connections == \/ \E port \in Ports : Accept(port)
               \/ \E fd \in Fds : PeerGone(fd) \/ ClientClosed(fd) \/ HandlerRefuses(fd)

Messages == \E fd \in Fds :
              \/ \E port \in Ports : HandleHello(fd, port)
              \/ \E id \in CardIds \cup {0}, column \in CreateColumns :
                   HandleCreateCard(fd, id, column)
              \/ HandleUserList(fd)
              \/ \E c \in CardIds : HandleAckCard(fd, c) \/ HandleCardDone(fd, c)
              \/ HandleQuit(fd)
              \/ HandlePong(fd)

Commands == \/ \E c \in CardIds, column \in MoveColumns, port \in Ports \cup {NoPort} :
                 MoveCard(c, column, port)
            \/ \E port \in Ports : SendUserList(port) \/ PingUser(port)
            \/ AskOffer

Next == Loops \/ CheckTimeout \/ Tick \/ Connections \/ Messages \/ Commands

Spec == Init /\ [][Next]_vars

\* The process never blocks for ever in a handler, its main loop comes back to
\* check_timeout after every pass over the descriptors, select reports a closed
\* connection again and again until it is read, and time passes.
Fairness == /\ WF_vars(Loops)
            /\ WF_vars(Tick)
            /\ SF_vars(CheckTimeout)
            /\ \A fd \in Fds : SF_vars(ClientClosed(fd))

FairSpec == Spec /\ Fairness

-----------------------------------------------------------------------------
(* Invariants.                                                             *)

\* No two registered users have the same port: a lookup by port finds the user.
UniquePorts == \A i, j \in UsedSlots(db) : db.users[i].port = db.users[j].port => i = j

\* The counter, which sizes the list of users before it is filled, is exact.
CountExact == db.num_users = Cardinality(UsedSlots(db))

\* A card is on offer only while it waits in TODO and two users can vote on it.
OfferSound == db.offered_card_id # NoCard => /\ db.offered_card_id \in InColumn(db, "TODO")
                                             /\ db.num_users > 1

\* The board never sits idle: with two users and a card in TODO, a card is on
\* offer or being worked on, after every handler and in the middle of each.
NeverIdle == db.num_users > 1 /\ InColumn(db, "TODO") # {}
               => db.offered_card_id # NoCard \/ has_doing_cards(db)

\* Without DOING in CREATE_CARD and without MOVE_CARD, a card in DOING is that
\* of a registered user, who has no other and is not seen as free.
DoingOwned == \A c \in InColumn(db, "DOING") :
                LET port == db.cards[c].assigned_user_port
                IN  /\ IsRegistered(db, port)
                    /\ UserAt(db, port).assigned_card_id = c
                    /\ UserAt(db, port).status \in {"ACTIVE", "PINGED"}

\* The board works on one card at a time, and offers none meanwhile.
OneAtATime == /\ Cardinality(InColumn(db, "DOING")) <= 1
              /\ db.offered_card_id # NoCard => ~has_doing_cards(db)

\* A user that leaves, however it leaves, leaves no card in DOING behind it
\* (lavagna_utils.c:229: its card goes back to TODO).
LeaverReturnsCards ==
  [][\A port \in RegisteredPorts(db) \ RegisteredPorts(db') :
       \A c \in InColumn(db', "DOING") : db'.cards[c].assigned_user_port # port]_vars

\* Whoever wins the vote on the offered card, the board accepts its ACK_CARD
\* (doc.md:26: the winner sends ACK_CARD, the board moves the card to DOING).
AckAccepted == Idle /\ db.offered_card_id # NoCard =>
                 \A port \in RegisteredPorts(db) : CanTake(db, port, db.offered_card_id)

\* A registered user is a connected one (database.h:21).
RegisteredConnected == Idle => \A i \in UsedSlots(db) : IsOpen(db.users[i].socket_fd)

\* A card is offered only to two or more users (the course text, line 99).
EnoughVoters == \A e \in out : e[2].type = "AVAILABLE_CARD" => e[2].total > 1

-----------------------------------------------------------------------------
(* disconnect_user and send_available_card call each other.                *)

\* What is left of the loops of stack s: pairs of a frame and an entry of it.
Left(s) == UNION {{k} \X s[k].rest : k \in DOMAIN s}

\* The entries that can start a loop without removing a user: users already
\* removed, cards without one, and the check of the pings still to be made.
Restarts(d, s) == {x \in Left(s) : s[x[1]].op = "work" \/ ~IsRegistered(d, x[2][2])}
                    \cup ({k \in DOMAIN s : s[k].op = "check_ping"} \X {<<0, 0>>})

Descends(a, b) == \/ a[1] < b[1]
                  \/ a[1] = b[1] /\ a[2] < b[2]
                  \/ a[1] = b[1] /\ a[2] = b[2] /\ a[3] < b[3]

Measure(d, s) == <<d.num_users, Cardinality(Restarts(d, s)), Cardinality(Left(s))>>

\* Every handler returns, whatever fails meanwhile: a step of a loop lessens,
\* in this order, the users, the entries that can restart a loop, the entries.
LoopsDescend == [][stack # <<>> /\ stack' # stack
                     => Descends(Measure(db', stack'), Measure(db, stack))]_vars

-----------------------------------------------------------------------------
(* Liveness, under FairSpec.                                               *)

WorksOn(port, c) == c \in InColumn(db, "DOING") /\ db.cards[c].assigned_user_port = port

\* A card whose worker hangs or dies does not stay in DOING with it.
StalledWorkReturns ==
  \A port \in Ports, c \in CardIds :
    (WorksOn(port, c) /\ (port \in Silent \/ socket_from_port(db, port) \in gone))
      ~> ~WorksOn(port, c)

\* A card in DOING with no registered worker goes back to TODO.
UnownedReturns ==
  \A c \in CardIds :
    (c \in InColumn(db, "DOING") /\ ~IsRegistered(db, db.cards[c].assigned_user_port))
      ~> c \notin InColumn(db, "DOING")

-----------------------------------------------------------------------------
(* Refinement: without MOVE_CARD, and without DOING in CREATE_CARD, the    *)
(* board implements KanbanBoard.                                           *)

Board == INSTANCE KanbanBoard WITH
           users  <- RegisteredPorts(db),
           column <- [c \in CardIds |-> IF db.cards[c].used THEN db.cards[c].status ELSE "NONE"],
           worker <- [c \in CardIds |-> IF c \in InColumn(db, "DOING")
                                        THEN db.cards[c].assigned_user_port ELSE NoPort]

\* The board implements the kanban the course text describes.
ImplementsBoard == Board!Spec
=============================================================================
