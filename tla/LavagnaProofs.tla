---------------------------- MODULE LavagnaProofs ----------------------------
(***************************************************************************)
(* The board keeps its database consistent, offers only what can be taken  *)
(* and never sits idle: TypeOK, UniquePorts, CountExact, OfferSound and    *)
(* NeverIdle, for every number of users, cards, ports and descriptors.     *)
(*                                                                         *)
(* The invariant IInv says of the database that it is Good, which is what  *)
(* the last four say, about an arbitrary database: every handler builds    *)
(* one in a few calls and hands it to send_available_card, so the lemmas   *)
(* are about databases, and a step only has to say which one it leaves.    *)
(***************************************************************************)
EXTENDS Lavagna, DatabaseProofs

\* A card is on offer only while it waits in TODO, with two users to vote.
Sound(d) == d.offered_card_id # NoCard => /\ d.offered_card_id \in InColumn(d, "TODO")
                                          /\ d.num_users > 1

\* With two users and a card in TODO, a card is on offer or being worked on.
NotIdle(d) == d.num_users > 1 /\ InColumn(d, "TODO") # {}
                => d.offered_card_id # NoCard \/ has_doing_cards(d)

Good(d) == Consistent(d) /\ Sound(d) /\ NotIdle(d)

ControlTyped == /\ peer \in [Fds -> Ports \cup {NoPort}]
                /\ gone \subseteq Fds
                /\ stack \in Seq(Frame)
                /\ out \subseteq Fds \X Message

IInv == Good(db) /\ ControlTyped

-----------------------------------------------------------------------------
(* send_available_card, as a function of the database it is given.         *)

Offered(d) == IF OfferDue(d) THEN set_offered_card(d, next_todo_card(d)) ELSE d

\* Whatever it is given, send_available_card leaves a board that is not idle,
\* and an offer of a card in TODO to two users if the old one was such.
LEMMA OfferedGood ==
  ASSUME NEW d, Consistent(d), Sound(d)
  PROVE  Good(Offered(d))
<1>1. CASE ~OfferDue(d)
  <2>1. NotIdle(d)
    BY <1>1, NextTodo DEF NotIdle, OfferDue
  <2>2. QED
    BY <1>1, <2>1 DEF Offered, Good
<1>2. CASE OfferDue(d)
  <2> DEFINE c == next_todo_card(d)
             e == set_offered_card(d, c)
  <2>1. c # NoCard /\ c \in InColumn(d, "TODO") /\ d.num_users > 1
    BY <1>2, NextTodo DEF OfferDue
  <2>2. c \in CardIds \cup {NoCard}
    BY <2>1, UsedTypes
  <2> HIDE DEF c
  <2>3. /\ Consistent(e)
        /\ e.offered_card_id = c
        /\ e.cards = d.cards
        /\ e.num_users = d.num_users
    BY <2>2, OfferConsistent
  <2>4. Offered(d) = e
    BY <1>2 DEF Offered, c
  <2> HIDE DEF e
  <2>5. InColumn(e, "TODO") = InColumn(d, "TODO")
    BY <2>3 DEF InColumn, UsedCards
  <2>6. Sound(e) /\ NotIdle(e)
    BY <2>1, <2>3, <2>5 DEF Sound, NotIdle
  <2>7. QED
    BY <2>3, <2>4, <2>6 DEF Good
<1>3. QED
  BY <1>1, <1>2

\* Changes that keep the columns and the number of users keep it Good.
LEMMA SameCardsGood ==
  ASSUME NEW d, NEW e, Good(d), Consistent(e), SameCards(d, e), e.num_users = d.num_users
  PROVE  Good(e)
<1>1. \A column : InColumn(e, column) = InColumn(d, column)
  BY DEF SameCards, InColumn, UsedCards
<1>2. e.offered_card_id = d.offered_card_id
  BY DEF SameCards
<1>3. Sound(e)
  BY <1>1, <1>2 DEF Good, Sound
<1>4. NotIdle(e)
  BY <1>1, <1>2 DEF Good, NotIdle, has_doing_cards
<1>5. QED
  BY <1>3, <1>4 DEF Good

\* disconnect_user, before it offers a card again, withdraws the offer.
LEMMA DisconnectedSound ==
  ASSUME NEW d, Consistent(d), NEW port
  PROVE  /\ Consistent(clear_offered_card(remove_user(card_todo(d, port), port)))
         /\ Sound(clear_offered_card(remove_user(card_todo(d, port), port)))
<1>1. Consistent(card_todo(d, port))
  BY TodoConsistent
<1>2. Consistent(remove_user(card_todo(d, port), port))
  BY <1>1, RemoveUserConsistent
<1>3. QED
  BY <1>2, ClearOfferConsistent DEF Sound

\* A user more does not spoil the offer.
LEMMA AddUserSound ==
  ASSUME NEW d, Good(d), NEW fd \in Fds, NEW port \in Ports, CanAddUser(d, port)
  PROVE  Consistent(add_user(d, fd, port)) /\ Sound(add_user(d, fd, port))
<1> DEFINE e == add_user(d, fd, port)
<1>1. /\ Consistent(e)
      /\ e.cards = d.cards
      /\ e.offered_card_id = d.offered_card_id
      /\ e.num_users = d.num_users + 1
  BY AddUserConsistent DEF Good
<1>2. d.num_users \in Int
  BY DEF Good, Consistent, Databases
<1> HIDE DEF e
<1>3. InColumn(e, "TODO") = InColumn(d, "TODO")
  BY <1>1 DEF InColumn, UsedCards
<1>4. Sound(e)
  BY <1>1, <1>2, <1>3 DEF Sound, Good
<1>5. QED
  BY <1>1, <1>4 DEF e

\* Nor does a new card, which is not the one on offer.
LEMMA CreateSound ==
  ASSUME NEW d, Good(d), NEW id, NEW column \in Columns, CanCreate(d, id)
  PROVE  Consistent(create_card(d, id, column)) /\ Sound(create_card(d, id, column))
<1> DEFINE e == create_card(d, id, column)
<1>1. /\ Consistent(e)
      /\ e.num_users = d.num_users
      /\ e.offered_card_id = d.offered_card_id
      /\ \A c \in UsedCards(d) : e.cards[c] = d.cards[c]
  BY CreateConsistent DEF Good
<1> HIDE DEF e
<1>2. ASSUME NEW c \in InColumn(d, "TODO")
      PROVE  c \in InColumn(e, "TODO")
  BY <1>1, <1>2 DEF InColumn, UsedCards
<1>3. Sound(e)
  BY <1>1, <1>2 DEF Sound, Good
<1>4. QED
  BY <1>1, <1>3 DEF e

\* Nor does the end of a card in DOING, which is not the one on offer.
LEMMA FinishSound ==
  ASSUME NEW d, Good(d), NEW port, NEW c, CanFinish(d, port, c)
  PROVE  Consistent(card_done(d, port, c)) /\ Sound(card_done(d, port, c))
<1> DEFINE e == card_done(d, port, c)
<1>1. /\ Consistent(e)
      /\ e.num_users = d.num_users
      /\ e.offered_card_id = d.offered_card_id
      /\ \A x \in CardIds \ {c} : e.cards[x] = d.cards[x]
  BY FinishConsistent DEF Good
<1> HIDE DEF e
<1>2. d.cards[c].status = "DOING"
  BY DEF CanFinish, InColumn
<1>3. ASSUME NEW x \in InColumn(d, "TODO")
      PROVE  x \in InColumn(e, "TODO")
  BY <1>1, <1>2, <1>3 DEF InColumn, UsedCards
<1>4. Sound(e)
  BY <1>1, <1>3 DEF Sound, Good
<1>5. QED
  BY <1>1, <1>4 DEF e

\* A card taken withdraws the offer, and the board works on it.
LEMMA TakeGood ==
  ASSUME NEW d, Good(d), NEW port \in Ports \cup {NoPort}, NEW c, CanTake(d, port, c)
  PROVE  Good(clear_offered_card(card_doing(d, port, c)))
<1> DEFINE a == card_doing(d, port, c)
           e == clear_offered_card(a)
<1>1. Consistent(a) /\ c \in InColumn(a, "DOING")
  BY TakeConsistent DEF Good
<1> HIDE DEF a
<1>2. Consistent(e) /\ e.offered_card_id = NoCard /\ e.cards = a.cards
  BY <1>1, ClearOfferConsistent
<1> HIDE DEF e
<1>3. c \in InColumn(e, "DOING")
  BY <1>1, <1>2 DEF InColumn, UsedCards
<1>4. Sound(e) /\ NotIdle(e)
  BY <1>2, <1>3 DEF Sound, NotIdle, has_doing_cards
<1>5. QED
  BY <1>2, <1>4 DEF Good, a, e

\* A card moved by hand withdraws the offer.
LEMMA MoveSound ==
  ASSUME NEW d, Consistent(d), NEW c, NEW column \in Columns,
         NEW port \in Ports \cup {NoPort}, CanMove(d, c, column, port)
  PROVE  /\ Consistent(clear_offered_card(move_card(d, c, column, port)))
         /\ Sound(clear_offered_card(move_card(d, c, column, port)))
<1>1. Consistent(move_card(d, c, column, port))
  BY MoveConsistent
<1>2. QED
  BY <1>1, ClearOfferConsistent DEF Sound
-----------------------------------------------------------------------------
(* The control part: descriptors, loops and messages.                      *)

\* What the lookups return.
LEMMA LookupTypes ==
  ASSUME NEW d, Consistent(d)
  PROVE  /\ RegisteredPorts(d) \subseteq Ports \cup {NoPort}
         /\ \A fd : port_from_socket(d, fd) \in Ports \cup {NoPort}
         /\ next_todo_card(d) \in CardIds \cup {NoCard}
<1>1. \A i \in UsedSlots(d) : d.users[i].port \in Ports \cup {NoPort}
  BY UsedTypes DEF Consistent, Databases, User
<1>2. RegisteredPorts(d) \subseteq Ports \cup {NoPort}
  BY <1>1 DEF RegisteredPorts
<1>3. ASSUME NEW fd
      PROVE  port_from_socket(d, fd) \in Ports \cup {NoPort}
  BY <1>1, FindSocket DEF port_from_socket
<1>4. next_todo_card(d) \in CardIds \cup {NoCard}
  BY NextTodo, UsedTypes
<1>5. QED
  BY <1>2, <1>3, <1>4

\* The messages the board sends are messages.
LEMMA MessageTypes ==
  ASSUME NEW d, Consistent(d)
  PROVE  /\ \A c \in CardIds \cup {NoCard} : \A port : AvailableCard(d, c, port) \in Message
         /\ \A port : UserList(d, port) \in Message
         /\ \A type \in {"PING_USER", "QUIT"} : Bare(type) \in Message
<1>1. d.num_users \in Int
  BY DEF Consistent, Databases
<1>2. \A port : users_list_except(d, port) \subseteq Ports \cup {NoPort}
  BY LookupTypes DEF users_list_except
<1>3. QED
  BY <1>1, <1>2 DEF AvailableCard, UserList, Bare, Message

\* The loops that start are frames.
LEMMA FrameTypes ==
  ASSUME NEW d, Consistent(d)
  PROVE  OfferLoop(d) \in Frame
<1>1. next_todo_card(d) \in CardIds \cup {NoCard}
  BY LookupTypes
<1>2. RegisteredPorts(d) \subseteq Nat
  <2>1. RegisteredPorts(d) \subseteq Ports \cup {NoPort}
    BY LookupTypes
  <2>2. Ports \cup {NoPort} \subseteq Nat
    BY IdsAssumption DEF NoPort
  <2>3. QED
    BY <2>1, <2>2
<1>3. Keyed(RegisteredPorts(d)) \in SUBSET (Nat \X Nat)
  BY <1>2 DEF Keyed
<1>4. QED
  BY <1>1, <1>3 DEF OfferLoop, Frame

\* The loop under way, and what is left of the loops after an iteration.
LEMMA AfterType ==
  ASSUME stack \in Seq(Frame), stack # <<>>, NEW e
  PROVE  /\ After(e) \in Seq(Frame)
         /\ Head(stack).card \in CardIds \cup {NoCard}
<1> DEFINE rest == Head(stack).rest \ {e}
           frame == [Head(stack) EXCEPT !.rest = rest]
<1>1. Head(stack) \in Frame /\ Tail(stack) \in Seq(Frame)
  OBVIOUS
<1>2. frame \in Frame /\ Head(stack).card \in CardIds \cup {NoCard}
  BY <1>1 DEF Frame
<1>3. After(e) = IF rest = {} THEN Tail(stack) ELSE <<frame>> \o Tail(stack)
  BY DEF After
<1> HIDE DEF frame, rest
<1>4. <<frame>> \o Tail(stack) \in Seq(Frame)
  BY <1>1, <1>2
<1>5. QED
  BY <1>1, <1>2, <1>3, <1>4

\* send_available_card in a step.
LEMMA SendAvailableCardStep ==
  ASSUME NEW d, Consistent(d), Sound(d), NEW k \in Seq(Frame), SendAvailableCard(d, k)
  PROVE  Good(db') /\ stack' \in Seq(Frame)
<1>1. db' = Offered(d)
  BY DEF SendAvailableCard, Offered
<1>2. Good(db')
  BY <1>1, OfferedGood
<1>3. stack' \in Seq(Frame)
  <2>1. OfferLoop(d) \in Frame
    BY FrameTypes
  <2>2. <<OfferLoop(d)>> \o k \in Seq(Frame)
    BY <2>1
  <2>3. QED
    BY <2>2 DEF SendAvailableCard
<1>4. QED
  BY <1>2, <1>3

\* The connections stay typed when one is closed.
LEMMA CloseFdStep ==
  ASSUME ControlTyped, NEW fd, CloseFd(fd)
  PROVE  peer' \in [Fds -> Ports \cup {NoPort}] /\ gone' \subseteq Fds
BY DEF ControlTyped, CloseFd

\* disconnect_user in a step.
LEMMA DisconnectUserStep ==
  ASSUME IInv, NEW port, NEW k \in Seq(Frame), DisconnectUser(port, k)
  PROVE  /\ Good(db') /\ stack' \in Seq(Frame)
         /\ peer' \in [Fds -> Ports \cup {NoPort}] /\ gone' \subseteq Fds
<1> DEFINE d == clear_offered_card(remove_user(card_todo(db, port), port))
<1>1. CloseFd(socket_from_port(db, port)) /\ SendAvailableCard(d, k)
  BY DEF DisconnectUser
<1>2. Consistent(d) /\ Sound(d)
  BY DisconnectedSound DEF IInv, Good
<1> HIDE DEF d
<1>3. Good(db') /\ stack' \in Seq(Frame)
  BY <1>1, <1>2, SendAvailableCardStep
<1>4. QED
  BY <1>1, <1>3, CloseFdStep DEF IInv
\* A ping sent in a step.
LEMMA SendPingStep ==
  ASSUME IInv, NEW fd, SendPing(fd)
  PROVE  Good(db') /\ out' \subseteq Fds \X Message
<1> DEFINE port == port_from_socket(db, fd)
<1>1. db' = user_set_ping(db, port) /\ out' = {<<fd, Bare("PING_USER")>>} /\ fd \in Fds
  BY DEF SendPing, SendOk, IsOpen
<1>2. Good(db) /\ Consistent(db)
  BY DEF IInv, Good
<1> HIDE DEF port
<1>3. Good(user_set_ping(db, port))
  BY <1>2, PingConsistent, SameCardsGood
<1>4. Bare("PING_USER") \in Message
  BY <1>2, MessageTypes
<1>5. QED
  BY <1>1, <1>3, <1>4

\* The loop that disconnects the users whose ping was not answered.
LEMMA EvictType ==
  ASSUME NEW d, Consistent(d)
  PROVE  [op |-> "evict", card |-> NoCard,
          rest |-> {<<i, d.users[i].port>> : i \in TimedOutUsers(d)}] \in Frame
<1>1. TimedOutUsers(d) \subseteq UsedSlots(d) /\ UsedSlots(d) \subseteq Slots /\ Slots \subseteq Nat
  BY UsedTypes DEF TimedOutUsers
<1>2. \A i \in Slots : d.users[i].port \in Ports \cup {NoPort}
  BY DEF Consistent, Databases, User
<1>3. Ports \cup {NoPort} \subseteq Nat
  BY IdsAssumption DEF NoPort
<1>4. \A i \in TimedOutUsers(d) : i \in Nat /\ d.users[i].port \in Nat
  BY <1>1, <1>2, <1>3
<1>5. {<<i, d.users[i].port>> : i \in TimedOutUsers(d)} \in SUBSET (Nat \X Nat)
  BY <1>4
<1>6. QED
  BY <1>5 DEF Frame

-----------------------------------------------------------------------------
(* The steps.                                                              *)

\* The empty database is Good.
LEMMA InitInv == Init => IInv
<1> SUFFICES ASSUME Init PROVE IInv
  OBVIOUS
<1>1. db = DatabaseInit
  BY DEF Init
<1>2. Consistent(db) /\ db.offered_card_id = NoCard /\ db.num_users = 0
  BY <1>1, InitConsistent
<1>3. Good(db)
  BY <1>2 DEF Good, Sound, NotIdle
<1>4. ControlTyped
  <2>1. <<>> \in Seq(Frame)
    OBVIOUS
  <2>2. QED
    BY <2>1 DEF Init, ControlTyped
<1>5. QED
  BY <1>3, <1>4 DEF IInv

\* The iterations of the four loops.
LEMMA LoopsInv == ASSUME IInv, Loops PROVE IInv'
<1> USE DEF IInv
<1>1. CASE OfferStep
  <2>1. PICK e : \/ /\ SendOk(socket_from_port(db, e[2]))
                    /\ out' = {<<socket_from_port(db, e[2]),
                                 AvailableCard(db, Head(stack).card, e[2])>>}
                    /\ stack' = After(e)
                    /\ UNCHANGED <<db, peer, gone>>
                 \/ out' = {} /\ DisconnectUser(e[2], After(e))
    BY <1>1 DEF OfferStep
  <2>2. After(e) \in Seq(Frame) /\ Head(stack).card \in CardIds \cup {NoCard}
    BY <1>1, AfterType DEF ControlTyped, OfferStep, Running
  <2>3. AvailableCard(db, Head(stack).card, e[2]) \in Message
    BY <2>2, MessageTypes DEF Good
  <2>4. CASE SendOk(socket_from_port(db, e[2])) /\ stack' = After(e)
             /\ out' = {<<socket_from_port(db, e[2]),
                          AvailableCard(db, Head(stack).card, e[2])>>}
             /\ UNCHANGED <<db, peer, gone>>
    BY <2>2, <2>3, <2>4 DEF ControlTyped, SendOk, IsOpen
  <2>5. CASE out' = {} /\ DisconnectUser(e[2], After(e))
    BY <2>2, <2>5, DisconnectUserStep DEF ControlTyped
  <2>6. QED
    BY <2>1, <2>4, <2>5
<1>2. CASE WorkStep
  <2> DEFINE port(e) == db.cards[e[2]].assigned_user_port
             fd(e) == socket_from_port(db, port(e))
  <2>1. PICK e : \/ /\ SendPing(fd(e)) \/ PingRefused(fd(e))
                    /\ stack' = After(e)
                    /\ UNCHANGED <<peer, gone>>
                 \/ DisconnectUser(port(e), After(e)) /\ out' = {}
    BY <1>2 DEF WorkStep
  <2>2. After(e) \in Seq(Frame)
    BY <1>2, AfterType DEF ControlTyped, WorkStep, Running
  <2> HIDE DEF port, fd
  <2>3. CASE SendPing(fd(e)) /\ stack' = After(e) /\ UNCHANGED <<peer, gone>>
    BY <2>2, <2>3, SendPingStep DEF ControlTyped
  <2>4. CASE PingRefused(fd(e)) /\ stack' = After(e) /\ UNCHANGED <<peer, gone>>
    BY <2>2, <2>4 DEF ControlTyped, PingRefused
  <2>5. CASE DisconnectUser(port(e), After(e)) /\ out' = {}
    BY <2>2, <2>5, DisconnectUserStep DEF ControlTyped
  <2>6. QED
    BY <2>1, <2>3, <2>4, <2>5
<1>3. CASE CheckPingStep
  <2> DEFINE evict == [op |-> "evict", card |-> NoCard,
                       rest |-> {<<i, db.users[i].port>> : i \in TimedOutUsers(db)}]
  <2>1. Tail(stack) \in Seq(Frame)
    BY <1>3 DEF ControlTyped, CheckPingStep, Running
  <2>2. evict \in Frame
    BY EvictType DEF Good
  <2>3. stack' = Tail(stack) \/ stack' = <<evict>> \o Tail(stack)
    BY <1>3 DEF CheckPingStep
  <2> HIDE DEF evict
  <2>4. stack' \in Seq(Frame)
    BY <2>1, <2>2, <2>3
  <2>5. QED
    BY <1>3, <2>4 DEF CheckPingStep, ControlTyped
<1>4. CASE EvictStep
  <2>1. PICK e : /\ \/ /\ SendOk(socket_from_port(db, e[2]))
                        /\ out' = {<<socket_from_port(db, e[2]), Bare("QUIT")>>}
                     \/ out' = {}
                 /\ DisconnectUser(e[2], After(e))
    BY <1>4 DEF EvictStep
  <2>2. After(e) \in Seq(Frame)
    BY <1>4, AfterType DEF ControlTyped, EvictStep, Running
  <2>3. out' \subseteq Fds \X Message
    BY <2>1, MessageTypes DEF Good, SendOk, IsOpen
  <2>4. QED
    BY <2>1, <2>2, <2>3, DisconnectUserStep DEF ControlTyped
<1>5. QED
  BY <1>1, <1>2, <1>3, <1>4 DEF Loops
\* check_timeout starts its loops, time passes.
LEMMA TimeInv == ASSUME IInv, CheckTimeout \/ Tick PROVE IInv'
<1> USE DEF IInv
<1>1. CASE CheckTimeout
  <2>1. CheckPing \in Frame
    BY DEF CheckPing, Frame
  <2>2. WorkLoop \in Frame
    <3>1. TimedOutCards(db) \subseteq Nat
      BY UsedTypes DEF TimedOutCards
    <3>2. {<<0, c>> : c \in TimedOutCards(db)} \in SUBSET (Nat \X Nat)
      BY <3>1
    <3>3. QED
      BY <3>2 DEF WorkLoop, Frame
  <2>3. stack' \in Seq(Frame)
    BY <1>1, <2>1, <2>2 DEF CheckTimeout
  <2>4. UNCHANGED <<db, peer, gone>> /\ out' = {}
    BY <1>1 DEF CheckTimeout
  <2>5. QED
    BY <2>3, <2>4 DEF ControlTyped
<1>2. CASE Tick
  <2>1. Good(OneSecondLater(db))
    BY TimeConsistent, SameCardsGood DEF Good
  <2>2. QED
    BY <1>2, <2>1 DEF Tick, ControlTyped
<1>3. QED
  BY <1>1, <1>2

\* Processes connect, close, and are refused.
LEMMA ConnectionsInv == ASSUME IInv, Connections PROVE IInv'
<1> USE DEF IInv
<1>1. ASSUME NEW port \in Ports, Accept(port)
      PROVE  IInv'
  <2>1. UNCHANGED <<db, gone, stack>> /\ out' = {}
    BY <1>1 DEF Accept
  <2>2. peer' \in [Fds -> Ports \cup {NoPort}]
    BY <1>1 DEF Accept, ControlTyped
  <2>3. QED
    BY <2>1, <2>2 DEF ControlTyped
<1>2. ASSUME NEW fd \in Fds, PeerGone(fd)
      PROVE  IInv'
  BY <1>2 DEF PeerGone, ControlTyped
<1>3. ASSUME NEW fd \in Fds, Refuse(fd)
      PROVE  IInv'
  BY <1>3, CloseFdStep DEF Refuse, ControlTyped
<1>4. ASSUME NEW fd \in Fds, ClientClosed(fd)
      PROVE  IInv'
  <2>1. CASE Refuse(fd)
    BY <1>3, <2>1
  <2>2. CASE out' = {} /\ DisconnectUser(port_from_socket(db, fd), <<>>)
    <3>1. <<>> \in Seq(Frame)
      OBVIOUS
    <3>2. QED
      BY <2>2, <3>1, DisconnectUserStep DEF ControlTyped
  <2>3. QED
    BY <1>4, <2>1, <2>2 DEF ClientClosed
<1>5. ASSUME NEW fd \in Fds, HandlerRefuses(fd)
      PROVE  IInv'
  BY <1>3, <1>5 DEF HandlerRefuses
<1>6. QED
  BY <1>1, <1>2, <1>4, <1>5 DEF Connections

\* A handler that ends in send_available_card, nothing being sent before.
LEMMA OfferingStep ==
  ASSUME IInv, NEW d, Consistent(d), Sound(d), SendAvailableCard(d, <<>>), out' = {},
         UNCHANGED <<peer, gone>>
  PROVE  IInv'
<1>1. <<>> \in Seq(Frame)
  OBVIOUS
<1>2. Good(db') /\ stack' \in Seq(Frame)
  BY <1>1, SendAvailableCardStep
<1>3. QED
  BY <1>2 DEF IInv, ControlTyped

\* The messages of the users.
LEMMA MessagesInv == ASSUME IInv, Messages PROVE IInv'
<1>1. Good(db) /\ Consistent(db)
  BY DEF IInv, Good
<1>2. ASSUME NEW fd \in Fds, NEW port \in Ports, HandleHello(fd, port)
      PROVE  IInv'
  <2>1. CASE CanAddUser(db, port)
    BY <1>1, <1>2, <2>1, AddUserSound, OfferingStep DEF HandleHello
  <2>2. CASE ~CanAddUser(db, port)
    <3>1. CloseFd(fd) /\ out' = {} /\ UNCHANGED <<db, stack>>
      BY <1>2, <2>2 DEF HandleHello, Refuse
    <3>2. QED
      BY <3>1, CloseFdStep DEF IInv, ControlTyped
  <2>3. QED
    BY <2>1, <2>2
<1>3. ASSUME NEW fd \in Fds, NEW id, NEW column \in CreateColumns,
             HandleCreateCard(fd, id, column)
      PROVE  IInv'
  <2>1. column \in Columns
    BY InputsAssumption
  <2>2. QED
    BY <1>1, <1>3, <2>1, CreateSound, OfferingStep DEF HandleCreateCard
<1>4. ASSUME NEW fd \in Fds, HandleUserList(fd)
      PROVE  IInv'
  BY <1>1, <1>4, MessageTypes DEF HandleUserList, IInv, ControlTyped
<1>5. ASSUME NEW fd \in Fds, NEW c \in CardIds, HandleAckCard(fd, c)
      PROVE  IInv'
  <2>1. UserPort(fd) \in Ports \cup {NoPort}
    BY <1>1, LookupTypes DEF UserPort
  <2>2. Good(clear_offered_card(card_doing(db, UserPort(fd), c)))
    BY <1>1, <1>5, <2>1, TakeGood DEF HandleAckCard
  <2>3. QED
    BY <1>5, <2>2 DEF HandleAckCard, IInv, ControlTyped
<1>6. ASSUME NEW fd \in Fds, NEW c \in CardIds, HandleCardDone(fd, c)
      PROVE  IInv'
  BY <1>1, <1>6, FinishSound, OfferingStep DEF HandleCardDone
<1>7. ASSUME NEW fd \in Fds, HandleQuit(fd)
      PROVE  IInv'
  <2>1. <<>> \in Seq(Frame)
    OBVIOUS
  <2>2. QED
    BY <1>7, <2>1, DisconnectUserStep DEF HandleQuit, IInv, ControlTyped
<1>8. ASSUME NEW fd \in Fds, HandlePong(fd)
      PROVE  IInv'
  <2> DEFINE d == card_reset_timestamp(db, UserPort(fd))
  <2>1. Good(d) /\ Consistent(d)
    BY <1>1, ResetTimestampConsistent, SameCardsGood DEF Good
  <2>2. db' = user_clear_ping(d, UserPort(fd)) /\ out' = {} /\ UNCHANGED <<peer, gone, stack>>
    BY <1>8 DEF HandlePong
  <2> HIDE DEF d
  <2>3. Good(user_clear_ping(d, UserPort(fd)))
    BY <2>1, PingConsistent, SameCardsGood
  <2>4. QED
    BY <2>2, <2>3 DEF IInv, ControlTyped
<1>9. QED
  BY <1>2, <1>3, <1>4, <1>5, <1>6, <1>7, <1>8 DEF Messages

\* The operator's commands.
LEMMA CommandsInv == ASSUME IInv, Commands PROVE IInv'
<1>1. Good(db) /\ Consistent(db) /\ Sound(db)
  BY DEF IInv, Good
<1>2. ASSUME NEW c \in CardIds, NEW column \in MoveColumns, NEW port \in Ports \cup {NoPort},
             MoveCard(c, column, port)
      PROVE  IInv'
  <2>1. column \in Columns
    BY InputsAssumption
  <2>2. QED
    BY <1>1, <1>2, <2>1, MoveSound, OfferingStep DEF MoveCard
<1>3. ASSUME NEW port \in Ports, SendUserList(port)
      PROVE  IInv'
  BY <1>1, <1>3, MessageTypes DEF SendUserList, SendOk, IsOpen, IInv, ControlTyped
<1>4. ASSUME NEW port \in Ports, PingUser(port)
      PROVE  IInv'
  BY <1>4, SendPingStep DEF PingUser, IInv, ControlTyped
<1>5. CASE AskOffer
  BY <1>1, <1>5, OfferingStep DEF AskOffer
<1>6. QED
  BY <1>2, <1>3, <1>4, <1>5 DEF Commands

\* Every step keeps IInv.
LEMMA NextInv == ASSUME IInv, [Next]_vars PROVE IInv'
<1>1. CASE Next
  BY <1>1, LoopsInv, TimeInv, ConnectionsInv, MessagesInv, CommandsInv DEF Next
<1>2. CASE UNCHANGED vars
  BY <1>2 DEF vars, IInv, ControlTyped
<1>3. QED
  BY <1>1, <1>2

-----------------------------------------------------------------------------
(* The theorems.                                                           *)

\* IInv holds of every reachable state: it is the invariant the others are
\* read off.
THEOREM Invariance == Spec => []IInv
<1>1. Init => IInv
  BY InitInv
<1>2. IInv /\ [Next]_vars => IInv'
  BY NextInv
<1>3. QED
  BY <1>1, <1>2, PTL DEF Spec

\* The fields keep their ranges, the loops of a handler included.
THEOREM TypesCorrect == Spec => []TypeOK
<1>1. IInv => TypeOK
  BY DEF IInv, ControlTyped, Good, Consistent, TypeOK
<1>2. QED
  BY <1>1, Invariance, PTL

\* database_add_user lets no port in twice, whatever is removed in between.
THEOREM PortsAreUnique == Spec => []UniquePorts
<1>1. IInv => UniquePorts
  BY DEF IInv, Good, Consistent, PortsUnique, UniquePorts
<1>2. QED
  BY <1>1, Invariance, PTL

\* num_users counts the slots in use in every state, also between the
\* removals of nested loops.
THEOREM CounterIsExact == Spec => []CountExact
<1>1. IInv => CountExact
  BY DEF IInv, Good, Consistent, Counted, CountExact
<1>2. QED
  BY <1>1, Invariance, PTL

\* A card on offer waits in TODO and two users can vote on it, whatever
\* joins, leaves, finishes or is moved while the offer stands.
THEOREM OffersAreSound == Spec => []OfferSound
<1>1. IInv => OfferSound
  BY DEF IInv, Good, Sound, OfferSound
<1>2. QED
  BY <1>1, Invariance, PTL

\* Every path of the program that could leave work undone ends in
\* send_available_card: the board never sits idle.
THEOREM BoardNeverIdle == Spec => []NeverIdle
<1>1. IInv => NeverIdle
  BY DEF IInv, Good, NotIdle, NeverIdle
<1>2. QED
  BY <1>1, Invariance, PTL
=============================================================================
