----------------------------- MODULE BoardProofs -----------------------------
(***************************************************************************)
(* The board as a kanban: OneAtATime, DoingOwned, LeaverReturnsCards and   *)
(* the implementation of KanbanBoard, for every value of the constants     *)
(* under the conditions each theorem names; and that its handlers do not   *)
(* call each other for ever (LoopsDescend).  The last section, that a      *)
(* user's slot has its own connection, is for the modules that extend it.  *)
(*                                                                         *)
(* Lemma Steps says once and for all what a step of the board, whatever    *)
(* handler or loop it belongs to, does to the database; the rest is about  *)
(* two databases d and e, before and after.                                *)
(***************************************************************************)
EXTENDS LavagnaProofs

\* What a step does to the database.
Calm(d, e) == SameBoard(d, e) /\ e.offered_card_id = d.offered_card_id

Joins(d, e) == \E fd \in Fds, port \in Ports :
                 CanAddUser(d, port) /\ e = Offered(add_user(d, fd, port))

Leaver(d, port) == clear_offered_card(remove_user(card_todo(d, port), port))

Departs(d, e) == \E port : e = Offered(Leaver(d, port))

Creates(d, e) == \E id \in CardIds \cup {0}, column \in CreateColumns :
                   CanCreate(d, id) /\ e = Offered(create_card(d, id, column))

Takes(d, e) == \E port \in Ports \cup {NoPort}, c \in CardIds :
                 /\ d.offered_card_id = c
                 /\ CanTake(d, port, c)
                 /\ e = clear_offered_card(card_doing(d, port, c))

Finishes(d, e) == \E port \in Ports \cup {NoPort}, c \in CardIds :
                    /\ IsRegistered(d, port)
                    /\ CanFinish(d, port, c)
                    /\ e = Offered(card_done(d, port, c))

Moves(d, e) == \E c \in CardIds, column \in MoveColumns, port \in Ports \cup {NoPort} :
                 /\ CanMove(d, c, column, port)
                 /\ e = Offered(clear_offered_card(move_card(d, c, column, port)))

DatabaseStep(d, e) == \/ Calm(d, e) \/ e = Offered(d)
                      \/ Joins(d, e) \/ Departs(d, e) \/ Creates(d, e)
                      \/ Takes(d, e) \/ Finishes(d, e) \/ Moves(d, e)

\* An unchanged database is a calm step.
LEMMA CalmSelf == \A d : Calm(d, d)
BY DEF Calm, SameBoard

\* send_available_card and disconnect_user, as functions of the database.
LEMMA HandsOver ==
  ASSUME NEW d, NEW k
  PROVE  /\ SendAvailableCard(d, k) => db' = Offered(d)
         /\ \A port : DisconnectUser(port, k) => Departs(db, db')
BY DEF SendAvailableCard, Offered, DisconnectUser, Departs, Leaver

\* A user found by its socket is registered.
LEMMA SocketRegistered ==
  ASSUME NEW d, NEW fd, port_from_socket(d, fd) # NoPort
  PROVE  IsRegistered(d, port_from_socket(d, fd))
BY FindSocket, FindUser DEF port_from_socket

\* A ping that is sent, and one that is not, are calm.
LEMMA PingCalm ==
  ASSUME IInv, NEW fd, SendPing(fd) \/ PingRefused(fd)
  PROVE  Calm(db, db')
<1>1. CASE SendPing(fd)
  BY <1>1, PingSameBoard, PingConsistent DEF SendPing, Calm, SameCards, IInv, Good
<1>2. CASE PingRefused(fd)
  BY <1>2, CalmSelf DEF PingRefused
<1>3. QED
  BY <1>1, <1>2

\* Every step of the board is one of the above.
LEMMA Steps == ASSUME IInv, [Next]_vars PROVE DatabaseStep(db, db')
<1> USE DEF DatabaseStep
<1>1. Consistent(db)
  BY DEF IInv, Good
<1>2. CASE db' = db
  BY <1>2, CalmSelf
<1>3. ASSUME Loops PROVE DatabaseStep(db, db')
  <2>1. CASE OfferStep
    BY <1>2, <2>1, HandsOver DEF OfferStep
  <2>2. CASE WorkStep
    BY <2>2, HandsOver, PingCalm DEF WorkStep
  <2>3. CASE CheckPingStep
    BY <1>2, <2>3 DEF CheckPingStep
  <2>4. CASE EvictStep
    BY <2>4, HandsOver DEF EvictStep
  <2>5. QED
    BY <1>3, <2>1, <2>2, <2>3, <2>4 DEF Loops
<1>4. ASSUME Connections PROVE DatabaseStep(db, db')
  <2>1. ASSUME NEW port, Accept(port) PROVE DatabaseStep(db, db')
    BY <1>2, <2>1 DEF Accept
  <2>2. ASSUME NEW fd, PeerGone(fd) PROVE DatabaseStep(db, db')
    BY <1>2, <2>2 DEF PeerGone
  <2>3. ASSUME NEW fd, ClientClosed(fd) PROVE DatabaseStep(db, db')
    BY <1>2, <2>3, HandsOver DEF ClientClosed, Refuse
  <2>4. ASSUME NEW fd, HandlerRefuses(fd) PROVE DatabaseStep(db, db')
    BY <1>2, <2>4 DEF HandlerRefuses, Refuse
  <2>5. QED
    BY <1>4, <2>1, <2>2, <2>3, <2>4 DEF Connections
<1>5. ASSUME Messages PROVE DatabaseStep(db, db')
  <2>1. ASSUME NEW fd \in Fds, NEW port \in Ports, HandleHello(fd, port)
        PROVE  DatabaseStep(db, db')
    <3>1. CanAddUser(db, port) => db' = Offered(add_user(db, fd, port))
      BY <2>1, HandsOver DEF HandleHello
    <3>2. ~CanAddUser(db, port) => db' = db
      BY <2>1 DEF HandleHello, Refuse
    <3>3. QED
      BY <1>2, <3>1, <3>2 DEF Joins
  <2>2. ASSUME NEW fd, NEW id \in CardIds \cup {0}, NEW column \in CreateColumns,
               HandleCreateCard(fd, id, column)
        PROVE  DatabaseStep(db, db')
    BY <2>2, HandsOver DEF HandleCreateCard, Creates
  <2>3. ASSUME NEW fd, HandleUserList(fd) PROVE DatabaseStep(db, db')
    BY <1>2, <2>3 DEF HandleUserList
  <2>4. ASSUME NEW fd, NEW c \in CardIds, HandleAckCard(fd, c) PROVE DatabaseStep(db, db')
    <3>1. UserPort(fd) \in Ports \cup {NoPort}
      BY <1>1, LookupTypes DEF UserPort
    <3>2. QED
      BY <2>4, <3>1 DEF HandleAckCard, Takes
  <2>5. ASSUME NEW fd, NEW c \in CardIds, HandleCardDone(fd, c) PROVE DatabaseStep(db, db')
    <3>1. IsRegistered(db, UserPort(fd)) /\ UserPort(fd) \in Ports \cup {NoPort}
      BY <1>1, <2>5, LookupTypes, SocketRegistered DEF HandleCardDone, From, UserPort
    <3>2. db' = Offered(card_done(db, UserPort(fd), c)) /\ CanFinish(db, UserPort(fd), c)
      BY <2>5, HandsOver DEF HandleCardDone
    <3>3. QED
      BY <3>1, <3>2 DEF Finishes
  <2>6. ASSUME NEW fd, HandleQuit(fd) PROVE DatabaseStep(db, db')
    BY <2>6, HandsOver DEF HandleQuit
  <2>7. ASSUME NEW fd, HandlePong(fd) PROVE DatabaseStep(db, db')
    <3> DEFINE d == card_reset_timestamp(db, UserPort(fd))
               e == user_clear_ping(d, UserPort(fd))
    <3>1. Consistent(d) /\ SameBoard(db, d) /\ SameCards(db, d)
      BY <1>1, ResetTimestampConsistent, ResetSameBoard
    <3> HIDE DEF d
    <3>2. SameBoard(d, e) /\ SameCards(d, e)
      BY <3>1, PingSameBoard, PingConsistent
    <3>3. db' = e
      BY <2>7 DEF HandlePong, d
    <3> HIDE DEF e
    <3>4. Calm(db, e)
      BY <3>1, <3>2 DEF Calm, SameBoard, SameCards
    <3>5. QED
      BY <3>3, <3>4
  <2>8. QED
    BY <1>5, <2>1, <2>2, <2>3, <2>4, <2>5, <2>6, <2>7 DEF Messages
<1>6. ASSUME Commands PROVE DatabaseStep(db, db')
  <2>1. ASSUME NEW c \in CardIds, NEW column \in MoveColumns, NEW port \in Ports \cup {NoPort},
               MoveCard(c, column, port)
        PROVE  DatabaseStep(db, db')
    <3>1. db' = Offered(clear_offered_card(move_card(db, c, column, port)))
      BY <2>1, HandsOver DEF MoveCard
    <3>2. CanMove(db, c, column, port)
      BY <2>1 DEF MoveCard
    <3>3. QED
      BY <3>1, <3>2 DEF Moves
  <2>2. ASSUME NEW port, SendUserList(port) PROVE DatabaseStep(db, db')
    BY <1>2, <2>2 DEF SendUserList
  <2>3. ASSUME NEW port, PingUser(port) PROVE DatabaseStep(db, db')
    BY <2>3, PingCalm DEF PingUser
  <2>4. CASE AskOffer
    BY <2>4, HandsOver DEF AskOffer
  <2>5. QED
    BY <1>6, <2>1, <2>2, <2>3, <2>4 DEF Commands
<1>7. CASE CheckTimeout
  BY <1>2, <1>7 DEF CheckTimeout
<1>8. CASE Tick
  BY <1>1, <1>8, TimeSameBoard, TimeConsistent DEF Tick, Calm, SameCards
<1>9. CASE UNCHANGED vars
  BY <1>2, <1>9 DEF vars
<1>10. QED
  BY <1>3, <1>4, <1>5, <1>6, <1>7, <1>8, <1>9 DEF Next

-----------------------------------------------------------------------------
(* One card at a time.                                                     *)

\* At most one card is in DOING, and none while one is on offer.
OneCard(d) == /\ \A a, b \in InColumn(d, "DOING") : a = b
              /\ d.offered_card_id # NoCard => InColumn(d, "DOING") = {}

\* Nobody but the board puts a card in DOING.
DoingByVote == "DOING" \notin CreateColumns \cup MoveColumns

\* send_available_card leaves the board as it is.
LEMMA OfferedSame ==
  ASSUME NEW d, Consistent(d)
  PROVE  /\ SameBoard(d, Offered(d))
         /\ \/ Offered(d).offered_card_id = d.offered_card_id
            \/ ~has_doing_cards(d)
<1>1. next_todo_card(d) \in CardIds \cup {NoCard}
  BY LookupTypes
<1>2. SameBoard(d, set_offered_card(d, next_todo_card(d)))
  BY <1>1, OfferSameBoard
<1>3. SameBoard(d, d)
  BY DEF SameBoard
<1>4. QED
  BY <1>2, <1>3 DEF Offered, OfferDue

\* The columns of two databases with the same board.
LEMMA SameColumns ==
  ASSUME NEW d, NEW e, SameBoard(d, e), NEW column
  PROVE  InColumn(e, column) = InColumn(d, column)
BY DEF SameBoard, InColumn, UsedCards

\* send_available_card keeps the cards one at a time.
LEMMA OfferedOne ==
  ASSUME NEW d, Consistent(d), OneCard(d)
  PROVE  OneCard(Offered(d))
<1>1. InColumn(Offered(d), "DOING") = InColumn(d, "DOING")
  BY OfferedSame, SameColumns
<1>2. QED
  BY <1>1, OfferedSame DEF OneCard, has_doing_cards

\* So does what puts no card in DOING and offers none.
LEMMA FewerOne ==
  ASSUME NEW d, NEW e, OneCard(d), InColumn(e, "DOING") \subseteq InColumn(d, "DOING"),
         e.offered_card_id \in {d.offered_card_id, NoCard}
  PROVE  OneCard(e)
BY DEF OneCard

\* disconnect_user empties DOING of the user's card.
LEMMA LeaverDoing ==
  ASSUME NEW d, Consistent(d), NEW port
  PROVE  /\ Consistent(Leaver(d, port))
         /\ Sound(Leaver(d, port))
         /\ Leaver(d, port).offered_card_id = NoCard
         /\ InColumn(Leaver(d, port), "DOING") \subseteq InColumn(d, "DOING")
<1> DEFINE a == card_todo(d, port)
           b == remove_user(a, port)
<1>1. Consistent(a)
  BY TodoConsistent
<1>2. InColumn(a, "DOING") \subseteq InColumn(d, "DOING")
  <2>1. CASE ~IsRegistered(d, port)
    BY <2>1 DEF card_todo
  <2>2. CASE IsRegistered(d, port)
    BY <2>2, TodoWrites DEF InColumn, UsedCards
  <2>3. QED
    BY <2>1, <2>2
<1> HIDE DEF a
<1>3. Consistent(b) /\ b.cards = a.cards
  BY <1>1, RemoveUserConsistent
<1> HIDE DEF b
<1>4. /\ Consistent(clear_offered_card(b))
      /\ clear_offered_card(b).offered_card_id = NoCard
      /\ clear_offered_card(b).cards = b.cards
  BY <1>3, ClearOfferConsistent
<1>5. Leaver(d, port) = clear_offered_card(b)
  BY DEF Leaver, a, b
<1>6. QED
  BY <1>2, <1>3, <1>4, <1>5 DEF InColumn, UsedCards, Sound

\* Every step keeps the cards one at a time.
LEMMA OneStep ==
  ASSUME DoingByVote, NEW d, NEW e, Good(d), OneCard(d), DatabaseStep(d, e)
  PROVE  OneCard(e)
<1>1. Consistent(d)
  BY DEF Good
<1>2. CASE Calm(d, e)
  BY <1>2, SameColumns, FewerOne DEF Calm
<1>3. CASE e = Offered(d)
  BY <1>1, <1>3, OfferedOne
<1>4. CASE Joins(d, e)
  <2>1. PICK fd \in Fds, port \in Ports :
               CanAddUser(d, port) /\ e = Offered(add_user(d, fd, port))
    BY <1>4 DEF Joins
  <2> DEFINE f == add_user(d, fd, port)
  <2>2. Consistent(f) /\ f.cards = d.cards /\ f.offered_card_id = d.offered_card_id
    BY <1>1, <2>1, AddUserConsistent
  <2> HIDE DEF f
  <2>3. InColumn(f, "DOING") = InColumn(d, "DOING")
    BY <2>2 DEF InColumn, UsedCards
  <2>4. QED
    BY <2>1, <2>2, <2>3, FewerOne, OfferedOne DEF f
<1>5. CASE Departs(d, e)
  BY <1>1, <1>5, LeaverDoing, FewerOne, OfferedOne DEF Departs
<1>6. CASE Creates(d, e)
  <2>1. PICK id \in CardIds \cup {0}, column \in CreateColumns :
               CanCreate(d, id) /\ e = Offered(create_card(d, id, column))
    BY <1>6 DEF Creates
  <2> DEFINE f == create_card(d, id, column)
  <2>2. column \in Columns /\ column # "DOING"
    BY InputsAssumption DEF DoingByVote
  <2>3. Consistent(f) /\ f.offered_card_id = d.offered_card_id
    BY <1>1, <2>1, <2>2, CreateConsistent
  <2>4. InColumn(f, "DOING") \subseteq InColumn(d, "DOING")
    BY <1>1, <2>1, <2>2, CreateWrites DEF InColumn, UsedCards
  <2> HIDE DEF f
  <2>5. QED
    BY <2>1, <2>3, <2>4, FewerOne, OfferedOne DEF f
<1>7. CASE Takes(d, e)
  <2>1. PICK port \in Ports \cup {NoPort}, c \in CardIds :
               /\ d.offered_card_id = c
               /\ CanTake(d, port, c)
               /\ e = clear_offered_card(card_doing(d, port, c))
    BY <1>7 DEF Takes
  <2> DEFINE f == card_doing(d, port, c)
  <2>2. InColumn(d, "DOING") = {}
    BY <2>1, IdsAssumption DEF OneCard, NoCard
  <2>3. Consistent(f) /\ \A x \in CardIds \ {c} : f.cards[x] = d.cards[x]
    BY <1>1, <2>1, TakeConsistent, TakeWrites
  <2> HIDE DEF f
  <2>4. InColumn(f, "DOING") \subseteq {c}
    BY <2>2, <2>3 DEF InColumn, UsedCards
  <2>5. e.offered_card_id = NoCard /\ e.cards = f.cards
    BY <2>1, <2>3, ClearOfferConsistent DEF f
  <2>6. InColumn(e, "DOING") \subseteq {c}
    BY <2>4, <2>5 DEF InColumn, UsedCards
  <2>7. QED
    BY <2>5, <2>6 DEF OneCard
<1>8. CASE Finishes(d, e)
  <2>1. PICK port \in Ports \cup {NoPort}, c \in CardIds :
               /\ IsRegistered(d, port)
               /\ CanFinish(d, port, c)
               /\ e = Offered(card_done(d, port, c))
    BY <1>8 DEF Finishes
  <2> DEFINE f == card_done(d, port, c)
  <2>2. Consistent(f) /\ f.offered_card_id = d.offered_card_id
    BY <1>1, <2>1, FinishConsistent
  <2>3. InColumn(f, "DOING") \subseteq InColumn(d, "DOING")
    BY <1>1, <2>1, FinishWrites DEF InColumn, UsedCards
  <2> HIDE DEF f
  <2>4. QED
    BY <2>1, <2>2, <2>3, FewerOne, OfferedOne DEF f
<1>9. CASE Moves(d, e)
  <2>1. PICK c \in CardIds, column \in MoveColumns, port \in Ports \cup {NoPort} :
               /\ CanMove(d, c, column, port)
               /\ e = Offered(clear_offered_card(move_card(d, c, column, port)))
    BY <1>9 DEF Moves
  <2> DEFINE f == move_card(d, c, column, port)
             g == clear_offered_card(f)
  <2>2. column \in Columns /\ column # "DOING"
    BY InputsAssumption DEF DoingByVote
  <2>3. Consistent(f)
    BY <1>1, <2>1, <2>2, MoveConsistent
  <2>4. InColumn(f, "DOING") \subseteq InColumn(d, "DOING")
    BY <1>1, <2>1, <2>2, MoveWrites DEF InColumn, UsedCards
  <2> HIDE DEF f
  <2>5. Consistent(g) /\ g.offered_card_id = NoCard /\ g.cards = f.cards
    BY <2>3, ClearOfferConsistent
  <2>6. InColumn(g, "DOING") \subseteq InColumn(d, "DOING")
    BY <2>4, <2>5 DEF InColumn, UsedCards
  <2>7. e = Offered(g)
    BY <2>1 DEF f, g
  <2> HIDE DEF g
  <2>8. QED
    BY <2>5, <2>6, <2>7, FewerOne, OfferedOne
<1>10. QED
  BY <1>2, <1>3, <1>4, <1>5, <1>6, <1>7, <1>8, <1>9 DEF DatabaseStep

OneInv == IInv /\ OneCard(db)

\* OneInv holds at the start.
LEMMA OneInit == Init => OneInv
<1> SUFFICES ASSUME Init PROVE OneInv
  OBVIOUS
<1>1. db = DatabaseInit /\ IInv
  BY InitInv DEF Init
<1>2. OneCard(db)
  BY <1>1 DEF DatabaseInit, OneCard, InColumn, UsedCards, FreeCard
<1>3. QED
  BY <1>1, <1>2 DEF OneInv

\* Every step keeps OneInv.
LEMMA OneNext == ASSUME DoingByVote, OneInv, [Next]_vars PROVE OneInv'
<1>1. IInv'
  BY NextInv DEF OneInv
<1>2. OneCard(db')
  BY Steps, OneStep DEF OneInv, IInv
<1>3. QED
  BY <1>1, <1>2 DEF OneInv

\* The board works on one card at a time and offers none meanwhile, as long as
\* no user creates a card in DOING and the operator moves none there.
THEOREM OneCardAtATime == DoingByVote => (Spec => []OneAtATime)
<1> SUFFICES ASSUME DoingByVote PROVE Spec => []OneAtATime
  OBVIOUS
<1>1. Init => OneInv
  BY OneInit
<1>2. OneInv /\ [Next]_vars => OneInv'
  BY OneNext
<1>3. OneInv => OneAtATime
  <2> SUFFICES ASSUME OneInv PROVE OneAtATime
    OBVIOUS
  <2> DEFINE S == InColumn(db, "DOING")
  <2>1. \A a, b \in S : a = b
    BY DEF OneInv, OneCard
  <2> HIDE DEF S
  <2>2. Cardinality(S) <= 1
    <3>1. CASE S = {}
      BY <3>1, FS_EmptySet
    <3>2. CASE S # {}
      <4>1. PICK a \in S : TRUE
        BY <3>2
      <4>2. S = {a}
        BY <2>1, <4>1
      <4>3. Cardinality({a}) = 1
        BY FS_Singleton
      <4>4. QED
        BY <4>2, <4>3
    <3>3. QED
      BY <3>1, <3>2
  <2>3. QED
    BY <2>2 DEF S, OneAtATime, OneInv, OneCard, has_doing_cards
<1>4. QED
  BY <1>1, <1>2, <1>3, PTL DEF Spec

-----------------------------------------------------------------------------
(* Who works on what.  With no card moved by hand a user and its card name *)
(* each other: the port in the card, the card in the slot.                 *)

KanbanInputs == MoveColumns = {} /\ "DOING" \notin CreateColumns

Employed(d) ==
  /\ \A i \in UsedSlots(d) : d.users[i].port \in Ports
  /\ \A i \in UsedSlots(d) :
       LET c == d.users[i].assigned_card_id
       IN  c # NoCard => c \in InColumn(d, "DOING")
                         /\ d.cards[c].assigned_user_port = d.users[i].port
  /\ \A c \in InColumn(d, "DOING") :
       \E i \in UsedSlots(d) : /\ d.users[i].port = d.cards[c].assigned_user_port
                               /\ d.users[i].assigned_card_id = c
                               /\ d.users[i].status \in Busy

\* What KanbanBoard sees of a database, besides RegisteredPorts.
ColumnOf(d) == [c \in CardIds |-> IF d.cards[c].used THEN d.cards[c].status ELSE "NONE"]

WorkerOf(d) == [c \in CardIds |-> IF c \in InColumn(d, "DOING")
                                  THEN d.cards[c].assigned_user_port ELSE NoPort]

\* What leaves the board as it is leaves the users at their work.
LEMMA EmployedSame ==
  ASSUME NEW d, NEW e, SameBoard(d, e)
  PROVE  /\ Employed(d) => Employed(e)
         /\ RegisteredPorts(e) = RegisteredPorts(d)
         /\ ColumnOf(e) = ColumnOf(d)
         /\ WorkerOf(e) = WorkerOf(d)
<1>1. InColumn(e, "DOING") = InColumn(d, "DOING")
  BY SameColumns
<1>2. InColumn(d, "DOING") \subseteq CardIds
  BY UsedTypes
<1>3. Employed(d) => Employed(e)
  <2> SUFFICES ASSUME Employed(d) PROVE Employed(e)
    OBVIOUS
  <2>1. \A i \in UsedSlots(e) : e.users[i].port \in Ports
    BY DEF SameBoard, Employed
  <2>2. ASSUME NEW i \in UsedSlots(e), e.users[i].assigned_card_id # NoCard
        PROVE  /\ e.users[i].assigned_card_id \in InColumn(e, "DOING")
               /\ e.cards[e.users[i].assigned_card_id].assigned_user_port = e.users[i].port
    BY <1>1, <1>2, <2>2 DEF SameBoard, Employed
  <2>3. ASSUME NEW c \in InColumn(e, "DOING")
        PROVE  \E i \in UsedSlots(e) : /\ e.users[i].port = e.cards[c].assigned_user_port
                                       /\ e.users[i].assigned_card_id = c
                                       /\ e.users[i].status \in Busy
    BY <1>1, <1>2 DEF SameBoard, Employed
  <2>4. QED
    BY <2>1, <2>2, <2>3 DEF Employed
<1>4. RegisteredPorts(e) = RegisteredPorts(d)
  BY DEF SameBoard, RegisteredPorts
<1>5. ColumnOf(e) = ColumnOf(d)
  BY DEF SameBoard, ColumnOf
<1>6. WorkerOf(e) = WorkerOf(d)
  BY <1>1 DEF SameBoard, WorkerOf
<1>7. QED
  BY <1>3, <1>4, <1>5, <1>6

\* A user that joins has no card.
LEMMA JoinEmployed ==
  ASSUME NEW d, Consistent(d), Employed(d), NEW fd \in Fds, NEW port \in Ports,
         CanAddUser(d, port)
  PROVE  LET e == add_user(d, fd, port)
         IN  /\ Employed(e)
             /\ port \notin RegisteredPorts(d)
             /\ RegisteredPorts(e) = RegisteredPorts(d) \cup {port}
             /\ ColumnOf(e) = ColumnOf(d)
             /\ WorkerOf(e) = WorkerOf(d)
<1> DEFINE e == add_user(d, fd, port)
<1>1. e.cards = d.cards
  BY AddUserConsistent
<1>2. PICK i \in Slots \ UsedSlots(d) :
             /\ UsedSlots(e) = UsedSlots(d) \cup {i}
             /\ e.users[i].port = port
             /\ e.users[i].assigned_card_id = NoCard
             /\ \A j \in UsedSlots(d) : e.users[j] = d.users[j]
  BY AddUserWrites
<1>3. port \notin RegisteredPorts(d)
  BY RegisteredIff DEF CanAddUser
<1> HIDE DEF e
<1>4. InColumn(e, "DOING") = InColumn(d, "DOING")
  BY <1>1 DEF InColumn, UsedCards
<1>5. RegisteredPorts(e) = RegisteredPorts(d) \cup {port}
  BY <1>2 DEF RegisteredPorts
<1>6. ColumnOf(e) = ColumnOf(d) /\ WorkerOf(e) = WorkerOf(d)
  BY <1>1, <1>4 DEF ColumnOf, WorkerOf
<1>7. Employed(e)
  BY <1>1, <1>2, <1>4 DEF Employed
<1>8. QED
  BY <1>3, <1>5, <1>6, <1>7 DEF e

\* A user that leaves takes itself off, and its card back to TODO.
LEMMA LeaveEmployed ==
  ASSUME NEW d, Consistent(d), Employed(d), NEW port, IsRegistered(d, port)
  PROVE  LET e == Leaver(d, port)
         IN  /\ Employed(e)
             /\ port \in RegisteredPorts(d) /\ port \in Ports
             /\ RegisteredPorts(e) = RegisteredPorts(d) \ {port}
             /\ ColumnOf(e) = [c \in CardIds |-> IF WorkerOf(d)[c] = port THEN "TODO"
                                                 ELSE ColumnOf(d)[c]]
             /\ WorkerOf(e) = [c \in CardIds |-> IF WorkerOf(d)[c] = port THEN NoPort
                                                 ELSE WorkerOf(d)[c]]
<1> DEFINE a == card_todo(d, port)
           b == remove_user(a, port)
           e == clear_offered_card(b)
           i == find_user_index(d, port)
           c == d.users[i].assigned_card_id
<1>1. i \in UsedSlots(d) /\ d.users[i].port = port /\ port \in Ports
  BY FindUser DEF Employed
<1>2. Consistent(a)
  BY TodoConsistent
<1>3. /\ UsedSlots(a) = UsedSlots(d)
      /\ find_user_index(a, port) = i
      /\ \A j \in UsedSlots(d) \ {i} : a.users[j] = d.users[j]
      /\ \A x \in CardIds : IF x = c /\ x \in InColumn(d, "DOING")
                            THEN a.cards[x].used /\ a.cards[x].status = "TODO"
                            ELSE a.cards[x] = d.cards[x]
  BY TodoWrites
<1> HIDE DEF a
<1>4. IsRegistered(a, port)
  BY <1>3 DEF IsRegistered
<1>5. /\ Consistent(b) /\ b.cards = a.cards
      /\ UsedSlots(b) = UsedSlots(a) \ {i}
      /\ \A j \in UsedSlots(a) \ {i} : b.users[j] = a.users[j]
  BY <1>2, <1>3, <1>4, RemoveUserConsistent, RemoveUserWrites
<1> HIDE DEF b
<1>6. SameBoard(b, e) /\ e.cards = b.cards
  <2>1. NoCard \in CardIds \cup {NoCard}
    OBVIOUS
  <2>2. QED
    BY <1>5, <2>1, OfferSameBoard, ClearOfferConsistent
<1>7. Leaver(d, port) = e
  BY DEF Leaver, a, b, e
<1> HIDE DEF e, i, c
<1>8. InColumn(d, "DOING") \subseteq CardIds
  BY UsedTypes
<1>9. ASSUME NEW x \in CardIds
      PROVE  WorkerOf(d)[x] = port <=> x = c /\ x \in InColumn(d, "DOING")
  <2>1. port # NoPort
    BY <1>1, IdsAssumption DEF NoPort
  <2>2. WorkerOf(d)[x] = port <=> /\ x \in InColumn(d, "DOING")
                                  /\ d.cards[x].assigned_user_port = port
    BY <2>1 DEF WorkerOf
  <2>3. ASSUME x \in InColumn(d, "DOING"), d.cards[x].assigned_user_port = port
        PROVE  x = c
    <3>1. PICK k \in UsedSlots(d) : d.users[k].port = port /\ d.users[k].assigned_card_id = x
      BY <2>3 DEF Employed
    <3>2. k = i
      BY <1>1, <3>1 DEF Consistent, PortsUnique
    <3>3. QED
      BY <3>1, <3>2 DEF c
  <2>4. ASSUME x = c, x \in InColumn(d, "DOING")
        PROVE  d.cards[x].assigned_user_port = port
    <3>1. c # NoCard
      BY <2>4, <1>8, IdsAssumption DEF NoCard
    <3>2. QED
      BY <1>1, <2>4, <3>1 DEF Employed, c
  <2>5. QED
    BY <2>2, <2>3, <2>4
<1>10. \A x \in CardIds : IF WorkerOf(d)[x] = port
                          THEN b.cards[x].used /\ b.cards[x].status = "TODO"
                          ELSE b.cards[x] = d.cards[x]
  BY <1>3, <1>5, <1>9
<1>11. \A x \in CardIds : x \in InColumn(b, "DOING") <=> /\ x \in InColumn(d, "DOING")
                                                         /\ WorkerOf(d)[x] # port
  <2>1. \A x \in CardIds : WorkerOf(d)[x] = port => x \in InColumn(d, "DOING")
    BY <1>9
  <2>2. QED
    BY <1>10, <2>1 DEF InColumn, UsedCards
<1>12. ColumnOf(b) = [x \in CardIds |-> IF WorkerOf(d)[x] = port THEN "TODO"
                                        ELSE ColumnOf(d)[x]]
  BY <1>10 DEF ColumnOf
<1>13. WorkerOf(b) = [x \in CardIds |-> IF WorkerOf(d)[x] = port THEN NoPort
                                        ELSE WorkerOf(d)[x]]
  <2>1. ASSUME NEW x \in CardIds
        PROVE  WorkerOf(b)[x] = IF WorkerOf(d)[x] = port THEN NoPort ELSE WorkerOf(d)[x]
    BY <1>10, <1>11 DEF WorkerOf
  <2>2. QED
    BY <2>1 DEF WorkerOf
<1>14. RegisteredPorts(b) = RegisteredPorts(d) \ {port} /\ port \in RegisteredPorts(d)
  <2>1. \A j \in UsedSlots(d) : d.users[j].port = port => j = i
    BY <1>1 DEF Consistent, PortsUnique
  <2>2. UsedSlots(b) = UsedSlots(d) \ {i} /\ \A j \in UsedSlots(b) : b.users[j] = d.users[j]
    BY <1>3, <1>5
  <2>3. QED
    BY <1>1, <2>1, <2>2 DEF RegisteredPorts
<1>15. Employed(b)
  <2>1. UsedSlots(b) = UsedSlots(d) \ {i} /\ \A j \in UsedSlots(b) : b.users[j] = d.users[j]
    BY <1>3, <1>5
  <2>2. InColumn(b, "DOING") \subseteq InColumn(d, "DOING")
    BY <1>8, <1>11, UsedTypes
  <2>3. ASSUME NEW x \in InColumn(b, "DOING")
        PROVE  /\ b.cards[x] = d.cards[x]
               /\ \E j \in UsedSlots(b) : /\ b.users[j].port = b.cards[x].assigned_user_port
                                          /\ b.users[j].assigned_card_id = x
                                          /\ b.users[j].status \in Busy
    <3>1. x \in InColumn(d, "DOING") /\ x \in CardIds /\ WorkerOf(d)[x] # port
      BY <1>8, <1>11, <2>2
    <3>2. b.cards[x] = d.cards[x] /\ x # c
      BY <1>9, <1>10, <3>1
    <3>3. PICK k \in UsedSlots(d) : /\ d.users[k].port = d.cards[x].assigned_user_port
                                    /\ d.users[k].assigned_card_id = x
                                    /\ d.users[k].status \in Busy
      BY <3>1 DEF Employed
    <3>4. k # i
      BY <3>2, <3>3 DEF c
    <3>5. QED
      BY <2>1, <3>2, <3>3, <3>4
  <2>4. ASSUME NEW j \in UsedSlots(b), b.users[j].assigned_card_id # NoCard
        PROVE  /\ b.users[j].assigned_card_id \in InColumn(b, "DOING")
               /\ b.cards[b.users[j].assigned_card_id].assigned_user_port = b.users[j].port
    <3> DEFINE x == d.users[j].assigned_card_id
    <3>1. b.users[j] = d.users[j] /\ j \in UsedSlots(d) /\ j # i
      BY <2>1
    <3>2. /\ x \in InColumn(d, "DOING") /\ d.cards[x].assigned_user_port = d.users[j].port
          /\ x \in CardIds
      BY <1>8, <2>4, <3>1 DEF Employed
    <3>3. d.users[j].port # port
      BY <1>1, <3>1 DEF Consistent, PortsUnique
    <3>4. WorkerOf(d)[x] # port
      BY <3>2, <3>3 DEF WorkerOf
    <3>5. x \in InColumn(b, "DOING") /\ b.cards[x] = d.cards[x]
      BY <1>10, <1>11, <3>2, <3>4
    <3>6. QED
      BY <3>1, <3>2, <3>5
  <2>5. \A j \in UsedSlots(b) : b.users[j].port \in Ports
    BY <2>1 DEF Employed
  <2>6. QED
    BY <2>3, <2>4, <2>5 DEF Employed
<1>16. QED
  BY <1>1, <1>6, <1>7, <1>12, <1>13, <1>14, <1>15, EmployedSame

\* A card created starts in TODO or in DONE, and nobody works on it.
LEMMA CreateEmployed ==
  ASSUME NEW d, Consistent(d), Employed(d), NEW id, NEW column \in Columns,
         column # "DOING", CanCreate(d, id)
  PROVE  LET e == create_card(d, id, column)
             new == NewCardId(d, id)
         IN  /\ Employed(e)
             /\ new \in CardIds /\ ColumnOf(d)[new] = "NONE"
             /\ RegisteredPorts(e) = RegisteredPorts(d)
             /\ ColumnOf(e) = [ColumnOf(d) EXCEPT ![new] = column]
             /\ WorkerOf(e) = WorkerOf(d)
<1> DEFINE e == create_card(d, id, column)
           new == NewCardId(d, id)
<1>1. /\ new \in CardIds \ UsedCards(d)
      /\ e.users = d.users
      /\ \A c \in CardIds \ {new} : e.cards[c] = d.cards[c]
      /\ e.cards[new].used /\ e.cards[new].status = column
  BY CreateWrites
<1> HIDE DEF e, new
<1>2. UsedSlots(e) = UsedSlots(d)
  BY <1>1 DEF UsedSlots
<1>3. InColumn(e, "DOING") = InColumn(d, "DOING") /\ new \notin InColumn(d, "DOING")
  BY <1>1 DEF InColumn, UsedCards
<1>4. \A c \in InColumn(d, "DOING") : e.cards[c] = d.cards[c]
  BY <1>1, <1>3, UsedTypes
<1>5. Employed(e)
  BY <1>1, <1>2, <1>3, <1>4 DEF Employed
<1>6. RegisteredPorts(e) = RegisteredPorts(d)
  BY <1>1, <1>2 DEF RegisteredPorts
<1>7. ColumnOf(d)[new] = "NONE" /\ ColumnOf(e) = [ColumnOf(d) EXCEPT ![new] = column]
  BY <1>1 DEF ColumnOf, UsedCards
<1>8. WorkerOf(e) = WorkerOf(d)
  BY <1>3, <1>4 DEF WorkerOf
<1>9. QED
  BY <1>1, <1>5, <1>6, <1>7, <1>8 DEF e, new

\* The winner of the vote and its card name each other; it had none before.
LEMMA TakeEmployed ==
  ASSUME NEW d, Good(d), OneCard(d), Employed(d), NEW port \in Ports \cup {NoPort},
         NEW c \in CardIds, d.offered_card_id = c, CanTake(d, port, c)
  PROVE  LET e == card_doing(d, port, c)
         IN  /\ Consistent(e) /\ Employed(e)
             /\ port \in Ports /\ port \in RegisteredPorts(d)
             /\ Cardinality(RegisteredPorts(d)) > 1
             /\ ColumnOf(d)[c] = "TODO"
             /\ \A x \in CardIds : ColumnOf(d)[x] # "DOING"
             /\ RegisteredPorts(e) = RegisteredPorts(d)
             /\ ColumnOf(e) = [ColumnOf(d) EXCEPT ![c] = "DOING"]
             /\ WorkerOf(e) = [WorkerOf(d) EXCEPT ![c] = port]
<1> DEFINE e == card_doing(d, port, c)
           i == find_user_index(d, port)
<1>1. Consistent(d) /\ c # NoCard /\ d.num_users > 1
  BY IdsAssumption DEF Good, Sound, NoCard
<1>2. InColumn(d, "DOING") = {}
  BY <1>1 DEF OneCard
<1>3. /\ i \in UsedSlots(d) /\ d.users[i].port = port
      /\ port \in Ports /\ port \in RegisteredPorts(d)
  BY FindUser, RegisteredIff DEF CanTake, Employed
<1>4. \A j \in UsedSlots(d) : d.users[j].assigned_card_id = NoCard
  BY <1>2 DEF Employed
<1>5. /\ Consistent(e)
      /\ UsedSlots(e) = UsedSlots(d)
      /\ \A j \in UsedSlots(d) \ {i} : e.users[j] = d.users[j]
      /\ e.users[i].port = d.users[i].port
      /\ e.users[i].assigned_card_id = c
      /\ e.users[i].status = "ACTIVE"
      /\ \A x \in CardIds \ {c} : e.cards[x] = d.cards[x]
      /\ e.cards[c].used
      /\ e.cards[c].status = "DOING"
      /\ e.cards[c].assigned_user_port = port
  BY <1>1, TakeConsistent, TakeWrites
<1> HIDE DEF e, i
<1>6. InColumn(e, "DOING") = {c}
  BY <1>2, <1>5 DEF InColumn, UsedCards
<1>7. Employed(e)
  BY <1>3, <1>4, <1>5, <1>6 DEF Employed, Busy
<1>8. RegisteredPorts(e) = RegisteredPorts(d)
  <2>1. \A j \in UsedSlots(d) : e.users[j].port = d.users[j].port
    BY <1>5
  <2>2. QED
    BY <1>5, <2>1 DEF RegisteredPorts
<1>9. d.cards[c].used /\ d.cards[c].status = "TODO"
  BY DEF CanTake, InColumn, UsedCards
<1>10. ColumnOf(d)[c] = "TODO" /\ \A x \in CardIds : ColumnOf(d)[x] # "DOING"
  BY <1>2, <1>9 DEF ColumnOf, InColumn, UsedCards
<1>11. ColumnOf(e) = [ColumnOf(d) EXCEPT ![c] = "DOING"]
  BY <1>5 DEF ColumnOf
<1>12. WorkerOf(e) = [WorkerOf(d) EXCEPT ![c] = port]
  BY <1>2, <1>5, <1>6 DEF WorkerOf
<1>13. Cardinality(RegisteredPorts(d)) > 1
  BY <1>1, PortsCounted
<1>14. QED
  BY <1>3, <1>5, <1>7, <1>8, <1>10, <1>11, <1>12, <1>13 DEF e

\* The card finished is that of the user that finishes it, who has none then.
LEMMA FinishEmployed ==
  ASSUME NEW d, Consistent(d), OneCard(d), Employed(d), NEW port, NEW c \in CardIds,
         IsRegistered(d, port), CanFinish(d, port, c)
  PROVE  LET e == card_done(d, port, c)
         IN  /\ Consistent(e) /\ Employed(e)
             /\ ColumnOf(d)[c] = "DOING"
             /\ WorkerOf(d)[c] \in RegisteredPorts(d)
             /\ RegisteredPorts(e) = RegisteredPorts(d)
             /\ ColumnOf(e) = [ColumnOf(d) EXCEPT ![c] = "DONE"]
             /\ WorkerOf(e) = [WorkerOf(d) EXCEPT ![c] = NoPort]
<1> DEFINE e == card_done(d, port, c)
           i == find_user_index(d, port)
<1>1. /\ i \in UsedSlots(d) /\ d.users[i].port = port /\ port \in RegisteredPorts(d)
  BY FindUser, RegisteredIff
<1>2. c \in InColumn(d, "DOING") /\ d.cards[c].assigned_user_port = port
  BY DEF CanFinish
<1>3. /\ Consistent(e)
      /\ UsedSlots(e) = UsedSlots(d)
      /\ \A j \in UsedSlots(d) \ {i} : e.users[j] = d.users[j]
      /\ e.users[i].port = d.users[i].port
      /\ e.users[i].assigned_card_id = NoCard
      /\ \A x \in CardIds \ {c} : e.cards[x] = d.cards[x]
      /\ e.cards[c].used
      /\ e.cards[c].status = "DONE"
  BY FinishConsistent, FinishWrites
<1> HIDE DEF e, i
<1>4. InColumn(d, "DOING") = {c} /\ InColumn(e, "DOING") = {}
  BY <1>2, <1>3 DEF OneCard, InColumn, UsedCards
<1>5. ASSUME NEW j \in UsedSlots(d)
      PROVE  e.users[j].assigned_card_id = NoCard /\ e.users[j].port = d.users[j].port
  <2>1. CASE j = i
    BY <1>3, <2>1
  <2>2. CASE j # i
    <3>1. e.users[j] = d.users[j]
      BY <1>3, <2>2
    <3>2. d.users[j].assigned_card_id = c => d.users[j].port = port
      BY <1>2, IdsAssumption DEF Employed, NoCard
    <3>3. d.users[j].port # port
      BY <1>1, <2>2 DEF Consistent, PortsUnique
    <3>4. d.users[j].assigned_card_id \in {NoCard, c}
      BY <1>4 DEF Employed
    <3>5. QED
      BY <3>1, <3>2, <3>3, <3>4
  <2>3. QED
    BY <2>1, <2>2
<1>6. Employed(e)
  BY <1>3, <1>4, <1>5 DEF Employed
<1>7. RegisteredPorts(e) = RegisteredPorts(d)
  BY <1>3, <1>5 DEF RegisteredPorts
<1>8. ColumnOf(d)[c] = "DOING" /\ ColumnOf(e) = [ColumnOf(d) EXCEPT ![c] = "DONE"]
  BY <1>2, <1>3 DEF ColumnOf, InColumn, UsedCards
<1>9. WorkerOf(d)[c] = port
  BY <1>2 DEF WorkerOf
<1>10. WorkerOf(e) = [WorkerOf(d) EXCEPT ![c] = NoPort]
  BY <1>3, <1>4 DEF WorkerOf
<1>11. QED
  BY <1>1, <1>3, <1>6, <1>7, <1>8, <1>9, <1>10 DEF e

\* What send_available_card hands over to KanbanBoard: nothing.
LEMMA OfferedEmployed ==
  ASSUME NEW d, Consistent(d), Employed(d)
  PROVE  /\ Employed(Offered(d))
         /\ RegisteredPorts(Offered(d)) = RegisteredPorts(d)
         /\ ColumnOf(Offered(d)) = ColumnOf(d)
         /\ WorkerOf(Offered(d)) = WorkerOf(d)
BY OfferedSame, EmployedSame

WorkInv == OneInv /\ Employed(db)

\* KanbanBoard counts as the board does.
LEMMA SameCardinality == \A S : Board!Cardinality(S) = Cardinality(S)
BY Zenon DEF Board!Cardinality, Cardinality

\* The two actions of KanbanBoard that rewrite one card, as seen from here.
LEMMA BoardActions ==
  ASSUME NEW c, NEW port, RegisteredPorts(db') = RegisteredPorts(db)
  PROVE  /\ (\E col \in {"TODO", "DONE"} : /\ ColumnOf(db)[c] = "NONE"
                                           /\ ColumnOf(db') = [ColumnOf(db) EXCEPT ![c] = col]
                                           /\ WorkerOf(db') = WorkerOf(db))
           => Board!Create(c)
         /\ (/\ port \in RegisteredPorts(db)
             /\ Cardinality(RegisteredPorts(db)) > 1
             /\ ColumnOf(db)[c] = "TODO"
             /\ \A x \in CardIds : ColumnOf(db)[x] # "DOING"
             /\ ColumnOf(db') = [ColumnOf(db) EXCEPT ![c] = "DOING"]
             /\ WorkerOf(db') = [WorkerOf(db) EXCEPT ![c] = port])
           => Board!Take(port, c)
<1>1. ASSUME NEW col \in {"TODO", "DONE"}, ColumnOf(db)[c] = "NONE",
             ColumnOf(db') = [ColumnOf(db) EXCEPT ![c] = col], WorkerOf(db') = WorkerOf(db)
      PROVE  Board!Create(c)
  BY <1>1, Zenon DEF Board!Create, ColumnOf, WorkerOf
<1>2. ASSUME port \in RegisteredPorts(db), Cardinality(RegisteredPorts(db)) > 1,
             ColumnOf(db)[c] = "TODO",
             \A x \in CardIds : ColumnOf(db)[x] # "DOING",
             ColumnOf(db') = [ColumnOf(db) EXCEPT ![c] = "DOING"],
             WorkerOf(db') = [WorkerOf(db) EXCEPT ![c] = port]
      PROVE  Board!Take(port, c)
  BY <1>2, SameCardinality, Zenon DEF Board!Take, ColumnOf, WorkerOf
<1>3. QED
  BY <1>1, <1>2

\* A step of the board is a step of KanbanBoard or leaves it unchanged.
LEMMA KanbanStep ==
  ASSUME KanbanInputs, WorkInv, [Next]_vars
  PROVE  Employed(db') /\ [Board!Next]_(Board!boardVars)
<1> DEFINE Same == /\ RegisteredPorts(db') = RegisteredPorts(db)
                   /\ ColumnOf(db') = ColumnOf(db)
                   /\ WorkerOf(db') = WorkerOf(db)
<1>1. DatabaseStep(db, db')
  BY Steps DEF WorkInv, OneInv
<1>2. Good(db) /\ Consistent(db) /\ OneCard(db) /\ Employed(db)
  BY DEF WorkInv, OneInv, IInv, Good
<1>3. Same => UNCHANGED Board!boardVars
  BY DEF Board!boardVars, ColumnOf, WorkerOf
<1>4. CASE Calm(db, db')
  BY <1>2, <1>3, <1>4, EmployedSame DEF Calm
<1>5. CASE db' = Offered(db)
  BY <1>2, <1>3, <1>5, OfferedEmployed
<1>6. CASE Joins(db, db')
  <2>1. PICK fd \in Fds, port \in Ports :
               CanAddUser(db, port) /\ db' = Offered(add_user(db, fd, port))
    BY <1>6 DEF Joins
  <2> DEFINE e == add_user(db, fd, port)
  <2>2. Consistent(e)
    BY <1>2, <2>1, AddUserConsistent
  <2>3. /\ Employed(e)
        /\ port \notin RegisteredPorts(db)
        /\ RegisteredPorts(e) = RegisteredPorts(db) \cup {port}
        /\ ColumnOf(e) = ColumnOf(db)
        /\ WorkerOf(e) = WorkerOf(db)
    BY <1>2, <2>1, JoinEmployed
  <2> HIDE DEF e
  <2>4. /\ Employed(db')
        /\ RegisteredPorts(db') = RegisteredPorts(db) \cup {port}
        /\ ColumnOf(db') = ColumnOf(db)
        /\ WorkerOf(db') = WorkerOf(db)
    BY <2>1, <2>2, <2>3, OfferedEmployed DEF e
  <2>5. Board!Join(port)
    BY <2>3, <2>4 DEF Board!Join, ColumnOf, WorkerOf
  <2>6. QED
    BY <2>4, <2>5 DEF Board!Next
<1>7. CASE Departs(db, db')
  <2>1. PICK port : db' = Offered(Leaver(db, port))
    BY <1>7 DEF Departs
  <2>2. Consistent(Leaver(db, port))
    BY <1>2, LeaverDoing
  <2>3. CASE ~IsRegistered(db, port)
    <3>1. Leaver(db, port) = clear_offered_card(db)
      BY <2>3 DEF Leaver, card_todo, remove_user
    <3>2. SameBoard(db, Leaver(db, port))
      <4>1. NoCard \in CardIds \cup {NoCard}
        OBVIOUS
      <4>2. QED
        BY <1>2, <3>1, <4>1, OfferSameBoard
    <3>3. Employed(db') /\ Same
      BY <1>2, <2>1, <2>2, <3>2, EmployedSame, OfferedEmployed
    <3>4. QED
      BY <1>3, <3>3
  <2>4. CASE IsRegistered(db, port)
    <3> DEFINE e == Leaver(db, port)
    <3>1. /\ Employed(e)
          /\ port \in RegisteredPorts(db) /\ port \in Ports
          /\ RegisteredPorts(e) = RegisteredPorts(db) \ {port}
          /\ ColumnOf(e) = [c \in CardIds |-> IF WorkerOf(db)[c] = port THEN "TODO"
                                              ELSE ColumnOf(db)[c]]
          /\ WorkerOf(e) = [c \in CardIds |-> IF WorkerOf(db)[c] = port THEN NoPort
                                              ELSE WorkerOf(db)[c]]
      BY <1>2, <2>4, LeaveEmployed
    <3> HIDE DEF e
    <3>2. /\ Employed(db')
          /\ RegisteredPorts(db') = RegisteredPorts(e)
          /\ ColumnOf(db') = ColumnOf(e)
          /\ WorkerOf(db') = WorkerOf(e)
      BY <2>1, <2>2, <3>1, OfferedEmployed DEF e
    <3>3. Board!Leave(port)
      BY <3>1, <3>2 DEF Board!Leave, Board!NoPort, NoPort, ColumnOf, WorkerOf
    <3>4. QED
      BY <3>1, <3>2, <3>3 DEF Board!Next
  <2>5. QED
    BY <2>3, <2>4
<1>8. CASE Creates(db, db')
  <2>1. PICK id \in CardIds \cup {0}, column \in CreateColumns :
               CanCreate(db, id) /\ db' = Offered(create_card(db, id, column))
    BY <1>8 DEF Creates
  <2> DEFINE e == create_card(db, id, column)
  <2>2. column \in Columns /\ column # "DOING" /\ column \in {"TODO", "DONE"}
    BY InputsAssumption DEF KanbanInputs, Columns
  <2>3. Consistent(e)
    BY <1>2, <2>1, <2>2, CreateConsistent
  <2>4. PICK new \in CardIds : /\ Employed(e)
                               /\ ColumnOf(db)[new] = "NONE"
                               /\ RegisteredPorts(e) = RegisteredPorts(db)
                               /\ ColumnOf(e) = [ColumnOf(db) EXCEPT ![new] = column]
                               /\ WorkerOf(e) = WorkerOf(db)
    BY <1>2, <2>1, <2>2, CreateEmployed
  <2> HIDE DEF e
  <2>5. /\ Employed(db')
        /\ RegisteredPorts(db') = RegisteredPorts(e)
        /\ ColumnOf(db') = ColumnOf(e)
        /\ WorkerOf(db') = WorkerOf(e)
    BY <2>1, <2>3, <2>4, OfferedEmployed DEF e
  <2>6. Board!Create(new)
    BY <2>2, <2>4, <2>5, BoardActions
  <2>7. QED
    BY <2>4, <2>5, <2>6 DEF Board!Next
<1>9. CASE Takes(db, db')
  <2>1. PICK port \in Ports \cup {NoPort}, c \in CardIds :
               /\ db.offered_card_id = c
               /\ CanTake(db, port, c)
               /\ db' = clear_offered_card(card_doing(db, port, c))
    BY <1>9 DEF Takes
  <2> DEFINE e == card_doing(db, port, c)
  <2>2. /\ Consistent(e) /\ Employed(e)
        /\ port \in Ports /\ port \in RegisteredPorts(db)
        /\ Cardinality(RegisteredPorts(db)) > 1
        /\ ColumnOf(db)[c] = "TODO"
        /\ \A x \in CardIds : ColumnOf(db)[x] # "DOING"
        /\ RegisteredPorts(e) = RegisteredPorts(db)
        /\ ColumnOf(e) = [ColumnOf(db) EXCEPT ![c] = "DOING"]
        /\ WorkerOf(e) = [WorkerOf(db) EXCEPT ![c] = port]
    BY <1>2, <2>1, TakeEmployed
  <2> HIDE DEF e
  <2>3. SameBoard(e, db')
    BY <2>1, <2>2, OfferSameBoard DEF e
  <2>4. /\ Employed(db')
        /\ RegisteredPorts(db') = RegisteredPorts(e)
        /\ ColumnOf(db') = ColumnOf(e)
        /\ WorkerOf(db') = WorkerOf(e)
    BY <2>2, <2>3, EmployedSame
  <2>5. Board!Take(port, c)
    BY <2>2, <2>4, BoardActions
  <2>6. QED
    BY <2>2, <2>4, <2>5 DEF Board!Next
<1>10. CASE Finishes(db, db')
  <2>1. PICK port \in Ports \cup {NoPort}, c \in CardIds :
               /\ IsRegistered(db, port)
               /\ CanFinish(db, port, c)
               /\ db' = Offered(card_done(db, port, c))
    BY <1>10 DEF Finishes
  <2> DEFINE e == card_done(db, port, c)
  <2>2. /\ Consistent(e) /\ Employed(e)
        /\ ColumnOf(db)[c] = "DOING"
        /\ WorkerOf(db)[c] \in RegisteredPorts(db)
        /\ RegisteredPorts(e) = RegisteredPorts(db)
        /\ ColumnOf(e) = [ColumnOf(db) EXCEPT ![c] = "DONE"]
        /\ WorkerOf(e) = [WorkerOf(db) EXCEPT ![c] = NoPort]
    BY <1>2, <2>1, FinishEmployed
  <2> HIDE DEF e
  <2>3. /\ Employed(db')
        /\ RegisteredPorts(db') = RegisteredPorts(e)
        /\ ColumnOf(db') = ColumnOf(e)
        /\ WorkerOf(db') = WorkerOf(e)
    BY <2>1, <2>2, OfferedEmployed DEF e
  <2>4. Board!Finish(c)
    BY <2>2, <2>3 DEF Board!Finish, Board!NoPort, NoPort, ColumnOf, WorkerOf
  <2>5. QED
    BY <2>3, <2>4 DEF Board!Next
<1>11. CASE Moves(db, db')
  BY <1>11 DEF Moves, KanbanInputs
<1>12. QED
  BY <1>1, <1>4, <1>5, <1>6, <1>7, <1>8, <1>9, <1>10, <1>11 DEF DatabaseStep

\* WorkInv holds of every reachable state.
LEMMA WorkInvariance == KanbanInputs => (Spec => []WorkInv)
<1> SUFFICES ASSUME KanbanInputs PROVE Spec => []WorkInv
  OBVIOUS
<1>1. DoingByVote
  BY DEF KanbanInputs, DoingByVote
<1>2. Init => WorkInv
  <2> SUFFICES ASSUME Init PROVE WorkInv
    OBVIOUS
  <2>1. OneInv
    BY <1>1, OneInit
  <2>2. db = DatabaseInit
    BY DEF Init
  <2>3. UsedSlots(db) = {} /\ InColumn(db, "DOING") = {}
    BY <2>2 DEF DatabaseInit, UsedSlots, InColumn, UsedCards, FreeSlot, FreeCard
  <2>4. QED
    BY <2>1, <2>3 DEF WorkInv, Employed
<1>3. WorkInv /\ [Next]_vars => WorkInv'
  BY <1>1, OneNext, KanbanStep DEF WorkInv
<1>4. QED
  BY <1>2, <1>3, PTL DEF Spec

\* A card in DOING belongs to a registered user, who has no other and is not
\* seen as free, as long as nobody puts a card there by hand.
THEOREM DoingIsOwned == KanbanInputs => (Spec => []DoingOwned)
<1>1. WorkInv => DoingOwned
  <2> SUFFICES ASSUME WorkInv, NEW c \in InColumn(db, "DOING")
               PROVE  LET port == db.cards[c].assigned_user_port
                      IN  /\ IsRegistered(db, port)
                          /\ UserAt(db, port).assigned_card_id = c
                          /\ UserAt(db, port).status \in {"ACTIVE", "PINGED"}
    BY DEF DoingOwned
  <2>1. PICK i \in UsedSlots(db) : /\ db.users[i].port = db.cards[c].assigned_user_port
                                   /\ db.users[i].assigned_card_id = c
                                   /\ db.users[i].status \in Busy
    BY DEF WorkInv, Employed
  <2>2. PortsUnique(db)
    BY DEF WorkInv, OneInv, IInv, Good, Consistent
  <2>3. /\ IsRegistered(db, db.users[i].port)
        /\ find_user_index(db, db.users[i].port) = i
    BY <2>2, FindIndex
  <2>4. QED
    BY <2>1, <2>3 DEF UserAt, Busy
<1>2. QED
  BY <1>1, WorkInvariance, PTL

\* A user that leaves, by QUIT, by a broken connection, by a send that fails
\* or by an unanswered ping, leaves no card in DOING behind it.
THEOREM LeaversReturnCards == KanbanInputs => (Spec => LeaverReturnsCards)
<1> SUFFICES ASSUME KanbanInputs PROVE Spec => LeaverReturnsCards
  OBVIOUS
<1>1. ASSUME WorkInv'
      PROVE  \A port \in RegisteredPorts(db) \ RegisteredPorts(db') :
               \A c \in InColumn(db', "DOING") : db'.cards[c].assigned_user_port # port
  <2>1. Employed(db')
    BY <1>1 DEF WorkInv
  <2>2. \A c \in InColumn(db', "DOING") :
          db'.cards[c].assigned_user_port \in RegisteredPorts(db')
    BY <2>1 DEF Employed, RegisteredPorts
  <2>3. QED
    BY <2>2
<1>2. Spec => []WorkInv
  BY WorkInvariance
<1>3. QED
  BY <1>1, <1>2, PTL DEF LeaverReturnsCards

\* With no card moved by hand, the board implements KanbanBoard: every step of
\* every handler and of every loop is one of its steps, or none.
THEOREM BoardImplements == KanbanInputs => (Spec => ImplementsBoard)
<1> SUFFICES ASSUME KanbanInputs PROVE Spec => ImplementsBoard
  OBVIOUS
<1>1. Init => Board!Init
  <2> SUFFICES ASSUME Init PROVE Board!Init
    OBVIOUS
  <2>1. db = DatabaseInit
    BY DEF Init
  <2>2. RegisteredPorts(db) = {} /\ InColumn(db, "DOING") = {}
    BY <2>1 DEF DatabaseInit, RegisteredPorts, UsedSlots, InColumn, UsedCards, FreeSlot, FreeCard
  <2>3. \A c \in CardIds : /\ db.cards[c].used <=> c \in 1 .. INITIAL_CARDS
                           /\ db.cards[c].status = "TODO"
    BY <2>1 DEF DatabaseInit, FreeCard
  <2>4. QED
    BY <2>2, <2>3 DEF Board!Init, Board!NoPort, NoPort
<1>2. WorkInv /\ [Next]_vars => [Board!Next]_(Board!boardVars)
  BY KanbanStep
<1>3. Spec => []WorkInv
  BY WorkInvariance
<1>4. QED
  BY <1>1, <1>2, <1>3, PTL DEF ImplementsBoard, Board!Spec, Spec

-----------------------------------------------------------------------------
(* Every handler returns: the measure of LoopsDescend, added up frame by   *)
(* frame.                                                                  *)

Pile(g) == UNION {{k} \X g[k] : k \in DOMAIN g}

\* The entries of a frame that can start a loop without removing a user.
Sparks(d, f) == {x \in f.rest : f.op = "work" \/ ~IsRegistered(d, x[2])}
                  \cup (IF f.op = "check_ping" THEN {<<0, 0>>} ELSE {})

FiniteLoops(s) == \A k \in DOMAIN s : IsFiniteSet(s[k].rest)

\* A pile of finite sets is finite, and one more set adds its size.
LEMMA PileFinite ==
  ASSUME NEW n \in Nat, NEW g, DOMAIN g = 1 .. n, \A k \in 1 .. n : IsFiniteSet(g[k])
  PROVE  IsFiniteSet(Pile(g))
<1>1. IsFiniteSet(1 .. n)
  <2>1. 1 \in Int /\ n \in Int
    OBVIOUS
  <2>2. QED BY ONLY <2>1, FS_Interval
<1> DEFINE Layer(k) == {k} \X g[k]
           All == {Layer(k) : k \in 1 .. n}
<1>2. IsFiniteSet(All)
  <2> DEFINE f == [k \in 1 .. n |-> Layer(k)]
  <2> HIDE DEF Layer
  <2>1. f \in Surjection(1 .. n, All)
    BY DEF Surjection
  <2>2. QED
    BY <1>1, <2>1, FS_Surjection
<1>3. \A k \in 1 .. n : IsFiniteSet(Layer(k))
  BY FS_Singleton, FS_Product
<1>4. \A T \in All : IsFiniteSet(T)
  BY <1>3
<1>5. IsFiniteSet(UNION All)
  BY <1>2, <1>4, FS_UNION
<1>6. QED
  BY <1>5 DEF Pile

\* The size of a pile.
LEMMA PileCons ==
  ASSUME NEW n \in Nat, NEW g, DOMAIN g = 1 .. n, \A k \in 1 .. n : IsFiniteSet(g[k]),
         NEW h, DOMAIN h = 1 .. n + 1, IsFiniteSet(h[1]), \A k \in 1 .. n : h[k + 1] = g[k]
  PROVE  /\ Cardinality(Pile(h)) = Cardinality(h[1]) + Cardinality(Pile(g))
         /\ Cardinality(Pile(g)) \in Nat /\ Cardinality(h[1]) \in Nat
<1> DEFINE A == {1} \X h[1]
           B == Pile(h) \ A
           P == Pile(g)
<1>1. IsFiniteSet(P)
  BY PileFinite
<1>2. \A y : y \in P <=> \E k \in 1 .. n : \E x \in g[k] : y = <<k, x>>
  BY DEF Pile
<1>3. \A y : y \in Pile(h) <=> \E k \in 1 .. n + 1 : \E x \in h[k] : y = <<k, x>>
  BY DEF Pile
<1>4. \A y : y \in B <=> \E k \in 1 .. n : \E x \in g[k] : y = <<k + 1, x>>
  <2>1. ASSUME NEW y \in B PROVE \E k \in 1 .. n : \E x \in g[k] : y = <<k + 1, x>>
    <3>1. PICK k, x : k \in 1 .. n + 1 /\ x \in h[k] /\ y = <<k, x>>
      BY <1>3
    <3>2. k # 1
      BY <3>1
    <3>3. k - 1 \in 1 .. n /\ (k - 1) + 1 = k
      BY <3>1, <3>2
    <3>4. x \in g[k - 1] /\ y = <<(k - 1) + 1, x>>
      BY <3>1, <3>3
    <3>5. QED
      BY <3>3, <3>4
  <2>2. ASSUME NEW k \in 1 .. n, NEW x \in g[k] PROVE <<k + 1, x>> \in B
    <3>1. k + 1 \in 1 .. n + 1 /\ k + 1 # 1 /\ x \in h[k + 1]
      OBVIOUS
    <3>2. <<k + 1, x>> \in Pile(h) /\ <<k + 1, x>> \notin A
      BY <1>3, <3>1
    <3>3. QED
      BY <3>2
  <2>3. QED
    BY <2>1, <2>2
<1> DEFINE f == [y \in P |-> <<y[1] + 1, y[2]>>]
<1>5. f \in Bijection(P, B)
  <2>1. \A k \in 1 .. n : \A x \in g[k] : <<k, x>> \in P /\ f[<<k, x>>] = <<k + 1, x>>
    BY <1>2
  <2> HIDE DEF B, P
  <2>2. f \in [P -> B]
    <3> SUFFICES ASSUME NEW y \in P PROVE f[y] \in B
      OBVIOUS
    <3>1. PICK k, x : k \in 1 .. n /\ x \in g[k] /\ y = <<k, x>>
      BY <1>2
    <3>2. QED
      BY <1>4, <2>1, <3>1
  <2>3. \A a, b \in P : f[a] = f[b] => a = b
    <3> SUFFICES ASSUME NEW a \in P, NEW b \in P, f[a] = f[b] PROVE a = b
      OBVIOUS
    <3>1. PICK k, x : k \in 1 .. n /\ x \in g[k] /\ a = <<k, x>>
      BY <1>2
    <3>2. PICK l, y : l \in 1 .. n /\ y \in g[l] /\ b = <<l, y>>
      BY <1>2
    <3> HIDE DEF f
    <3>3. <<k + 1, x>> = <<l + 1, y>>
      BY <2>1, <3>1, <3>2
    <3>4. k + 1 = l + 1 /\ x = y
      BY <3>3
    <3>5. QED
      BY <3>1, <3>2, <3>4
  <2>4. \A z \in B : \E y \in P : f[y] = z
    <3> SUFFICES ASSUME NEW z \in B PROVE \E y \in P : f[y] = z
      OBVIOUS
    <3>1. PICK k, x : k \in 1 .. n /\ x \in g[k] /\ z = <<k + 1, x>>
      BY <1>4
    <3>2. QED
      BY <2>1, <3>1
  <2> HIDE DEF f
  <2>5. QED
    BY <2>2, <2>3, <2>4, Fun_IsBij
<1> HIDE DEF f
<1>6. ExistsBijection(P, B)
  BY <1>5 DEF ExistsBijection
<1>7. IsFiniteSet(B) /\ Cardinality(B) = Cardinality(P)
  BY <1>1, <1>6, FS_Bijection
<1>8. IsFiniteSet({1}) /\ Cardinality({1}) = 1 /\ Cardinality(h[1]) \in Nat
  BY FS_Singleton, FS_CardinalityType
<1>9. IsFiniteSet(A) /\ Cardinality(A) = Cardinality(h[1])
  BY <1>8, FS_Product
<1>10. 1 \in 1 .. n + 1
  OBVIOUS
<1>11. Pile(h) = A \cup B /\ A \cap B = {}
  BY <1>3, <1>10
<1> HIDE DEF A, B, P
<1>12. Cardinality(A \cup B) = Cardinality(A) + Cardinality(B) - Cardinality(A \cap B)
  BY <1>7, <1>9, FS_Union
<1>13. Cardinality(A \cap B) = 0 /\ Cardinality(P) \in Nat
  BY <1>1, <1>11, FS_EmptySet, FS_CardinalityType
<1>14. QED
  BY <1>7, <1>8, <1>9, <1>11, <1>12, <1>13 DEF P

\* The two counts of the measure are piles.
LEMMA MeasurePiles ==
  ASSUME NEW d, NEW s
  PROVE  /\ Left(s) = Pile([k \in DOMAIN s |-> s[k].rest])
         /\ Restarts(d, s) = Pile([k \in DOMAIN s |-> Sparks(d, s[k])])
<1> DEFINE g == [k \in DOMAIN s |-> s[k].rest]
           h == [k \in DOMAIN s |-> Sparks(d, s[k])]
<1>1. ASSUME NEW y PROVE y \in Left(s) <=> \E k \in DOMAIN s : \E x \in s[k].rest : y = <<k, x>>
  BY DEF Left
<1>2. ASSUME NEW y PROVE y \in Pile(g) <=> \E k \in DOMAIN s : \E x \in s[k].rest : y = <<k, x>>
  BY DEF Pile
<1>3. ASSUME NEW y
      PROVE  y \in Pile(h) <=> \E k \in DOMAIN s : \E x \in Sparks(d, s[k]) : y = <<k, x>>
  BY DEF Pile
<1>4. ASSUME NEW y \in Restarts(d, s)
      PROVE  \E k \in DOMAIN s : \E x \in Sparks(d, s[k]) : y = <<k, x>>
  <2>1. CASE y \in Left(s)
    <3>1. PICK k, x : k \in DOMAIN s /\ x \in s[k].rest /\ y = <<k, x>>
      BY <1>1, <2>1
    <3>2. x \in Sparks(d, s[k]) \/ \E l \in DOMAIN s : s[l].op = "check_ping" /\ y = <<l, <<0, 0>>>>
      BY <1>4, <3>1 DEF Restarts, Sparks
    <3>3. QED
      BY <3>1, <3>2 DEF Sparks
  <2>2. CASE y \notin Left(s)
    BY <1>4, <2>2 DEF Restarts, Sparks
  <2>3. QED
    BY <2>1, <2>2
<1>5. ASSUME NEW k \in DOMAIN s, NEW x \in Sparks(d, s[k])
      PROVE  <<k, x>> \in Restarts(d, s)
  <2>1. CASE x \in s[k].rest /\ (s[k].op = "work" \/ ~IsRegistered(d, x[2]))
    <3>1. <<k, x>> \in Left(s)
      BY <1>1, <2>1
    <3>2. QED
      BY <2>1, <3>1 DEF Restarts
  <2>2. CASE s[k].op = "check_ping" /\ x = <<0, 0>>
    BY <2>2 DEF Restarts
  <2>3. QED
    BY <2>1, <2>2 DEF Sparks
<1>6. \A y : y \in Restarts(d, s) <=> y \in Pile(h)
  BY <1>3, <1>4, <1>5
<1>7. \A y : y \in Left(s) <=> y \in Pile(g)
  BY <1>1, <1>2
<1> HIDE DEF g, h
<1>8. Left(s) = Pile(g) /\ Restarts(d, s) = Pile(h)
  BY <1>6, <1>7
<1>9. QED
  BY <1>8 DEF g, h

\* The sparks of a frame are finite, as its entries are.
LEMMA SparksFinite ==
  ASSUME NEW d, NEW f, IsFiniteSet(f.rest)
  PROVE  IsFiniteSet(Sparks(d, f))
<1> DEFINE S == {x \in f.rest : f.op = "work" \/ ~IsRegistered(d, x[2])}
           T == IF f.op = "check_ping" THEN {<<0, 0>>} ELSE {}
<1>1. IsFiniteSet(S)
  BY FS_Subset
<1>2. IsFiniteSet(T)
  BY FS_Singleton, FS_EmptySet
<1> HIDE DEF S, T
<1>3. IsFiniteSet(S \cup T)
  BY <1>1, <1>2, FS_Union
<1>4. QED
  BY <1>3 DEF Sparks, S, T

\* One more frame adds its entries and its sparks.
LEMMA LoopsCons ==
  ASSUME NEW d, NEW s \in Seq(Frame), FiniteLoops(s), NEW f \in Frame, IsFiniteSet(f.rest)
  PROVE  /\ FiniteLoops(<<f>> \o s)
         /\ Cardinality(Left(<<f>> \o s)) = Cardinality(f.rest) + Cardinality(Left(s))
         /\ Cardinality(Restarts(d, <<f>> \o s))
              = Cardinality(Sparks(d, f)) + Cardinality(Restarts(d, s))
         /\ Cardinality(Left(s)) \in Nat /\ Cardinality(Restarts(d, s)) \in Nat
         /\ Cardinality(f.rest) \in Nat /\ Cardinality(Sparks(d, f)) \in Nat
<1> DEFINE t == <<f>> \o s
           n == Len(s)
<1>1. /\ n \in Nat /\ DOMAIN s = 1 .. n /\ DOMAIN t = 1 .. n + 1
      /\ t[1] = f /\ \A k \in 1 .. n : t[k + 1] = s[k] /\ k + 1 \in 1 .. n + 1
  OBVIOUS
<1>2. \A k \in 1 .. n : IsFiniteSet(s[k].rest) /\ IsFiniteSet(Sparks(d, s[k]))
  BY <1>1, SparksFinite DEF FiniteLoops
<1>3. IsFiniteSet(Sparks(d, f))
  BY SparksFinite
<1> HIDE DEF t, n
<1>4. FiniteLoops(t)
  <2> SUFFICES ASSUME NEW k \in 1 .. n + 1 PROVE IsFiniteSet(t[k].rest)
    BY <1>1 DEF FiniteLoops
  <2>1. CASE k = 1
    BY <1>1, <2>1
  <2>2. CASE k # 1
    <3>1. k - 1 \in 1 .. n /\ (k - 1) + 1 = k
      BY <1>1, <2>2
    <3>2. QED
      BY <1>1, <1>2, <3>1
  <2>3. QED
    BY <2>1, <2>2
<1> DEFINE g == [k \in DOMAIN s |-> s[k].rest]
           h == [k \in DOMAIN t |-> t[k].rest]
<1>5. /\ Cardinality(Pile(h)) = Cardinality(f.rest) + Cardinality(Pile(g))
      /\ Cardinality(Pile(g)) \in Nat /\ Cardinality(f.rest) \in Nat
  <2>1. DOMAIN g = 1 .. n /\ \A k \in 1 .. n : IsFiniteSet(g[k])
    BY <1>1, <1>2
  <2>2. DOMAIN h = 1 .. n + 1 /\ h[1] = f.rest /\ \A k \in 1 .. n : h[k + 1] = g[k]
    BY <1>1
  <2> DEFINE r == f.rest
  <2> HIDE DEF g, h, r
  <2>3. IsFiniteSet(h[1]) /\ h[1] = r
    BY <2>2 DEF r
  <2>4. /\ Cardinality(Pile(h)) = Cardinality(h[1]) + Cardinality(Pile(g))
        /\ Cardinality(Pile(g)) \in Nat /\ Cardinality(h[1]) \in Nat
    BY <1>1, <2>1, <2>2, <2>3, PileCons
  <2>5. QED
    BY <2>3, <2>4 DEF r
<1> DEFINE a == [k \in DOMAIN s |-> Sparks(d, s[k])]
           b == [k \in DOMAIN t |-> Sparks(d, t[k])]
<1>6. /\ Cardinality(Pile(b)) = Cardinality(Sparks(d, f)) + Cardinality(Pile(a))
      /\ Cardinality(Pile(a)) \in Nat /\ Cardinality(Sparks(d, f)) \in Nat
  <2>1. DOMAIN a = 1 .. n /\ \A k \in 1 .. n : IsFiniteSet(a[k])
    BY <1>1, <1>2
  <2>2. DOMAIN b = 1 .. n + 1 /\ b[1] = Sparks(d, f) /\ \A k \in 1 .. n : b[k + 1] = a[k]
    BY <1>1
  <2> HIDE DEF a, b
  <2>3. QED
    BY <1>1, <1>3, <2>1, <2>2, PileCons
<1>7. Left(s) = Pile(g) /\ Left(t) = Pile(h) /\ Restarts(d, s) = Pile(a) /\ Restarts(d, t) = Pile(b)
  BY MeasurePiles
<1> HIDE DEF a, b, g, h
<1>8. QED
  BY <1>4, <1>5, <1>6, <1>7 DEF t

\* An iteration of a loop over cards or users takes one entry away, and the
\* loop it may have started.
LEMMA AfterCounts ==
  ASSUME stack \in Seq(Frame), stack # <<>>, FiniteLoops(stack),
         Head(stack).op # "check_ping", NEW e \in Head(stack).rest, NEW d
  PROVE  /\ FiniteLoops(After(e)) /\ After(e) \in Seq(Frame)
         /\ Cardinality(Left(After(e))) = Cardinality(Left(stack)) - 1
         /\ Cardinality(Restarts(d, After(e)))
              = Cardinality(Restarts(d, stack)) - Cardinality({e} \cap Sparks(d, Head(stack)))
         /\ Cardinality(Left(stack)) \in Nat /\ Cardinality(Restarts(d, stack)) \in Nat
         /\ Cardinality({e} \cap Sparks(d, Head(stack)))
              = IF e \in Sparks(d, Head(stack)) THEN 1 ELSE 0
<1> DEFINE h == Head(stack)
           k == Tail(stack)
           rest == h.rest \ {e}
           g == [h EXCEPT !.rest = rest]
<1>1. h \in Frame /\ k \in Seq(Frame) /\ stack = <<h>> \o k
  OBVIOUS
<1>2. g \in Frame /\ g.op = h.op /\ g.rest = rest
  BY <1>1 DEF Frame
<1>3. After(e) = IF rest = {} THEN k ELSE <<g>> \o k
  BY DEF After
<1>4. IsFiniteSet(h.rest) /\ FiniteLoops(k)
  <2>1. /\ 1 \in DOMAIN stack /\ stack[1] = h
        /\ \A x \in DOMAIN k : x + 1 \in DOMAIN stack /\ stack[x + 1] = k[x]
    BY <1>1
  <2> HIDE DEF h, k
  <2>2. QED
    BY <2>1 DEF FiniteLoops
<1>5. Sparks(d, g) = Sparks(d, h) \ {e}
  BY <1>2 DEF Sparks
<1>6. h.op # "check_ping" /\ e \in h.rest
  OBVIOUS
<1>7. rest = {} => Sparks(d, g) = {}
  BY <1>2, <1>6 DEF Sparks
<1>8. IsFiniteSet(rest) /\ Cardinality(rest) = Cardinality(h.rest) - 1
  BY <1>4, FS_RemoveElement
<1>9. Cardinality(Sparks(d, g))
        = Cardinality(Sparks(d, h)) - (IF e \in Sparks(d, h) THEN 1 ELSE 0)
  <2>1. IsFiniteSet(Sparks(d, h))
    BY <1>4, SparksFinite
  <2>2. Cardinality(Sparks(d, h)) \in Nat
    BY <2>1, FS_CardinalityType
  <2> DEFINE S == Sparks(d, h)
             T == Sparks(d, g)
  <2>3. Cardinality(S \ {e}) = IF e \in S THEN Cardinality(S) - 1 ELSE Cardinality(S)
    BY <2>1, FS_RemoveElement
  <2>4. T = S \ {e} /\ Cardinality(S) \in Nat
    BY <1>5, <2>2
  <2> HIDE DEF S, T
  <2>5. Cardinality(T) = Cardinality(S) - (IF e \in S THEN 1 ELSE 0)
    BY <2>3, <2>4
  <2>6. QED
    BY <2>5 DEF S, T
<1>10. Cardinality({e} \cap Sparks(d, h)) = IF e \in Sparks(d, h) THEN 1 ELSE 0
  <2>1. CASE e \in Sparks(d, h)
    <3>1. {e} \cap Sparks(d, h) = {e}
      BY <2>1
    <3>2. QED
      BY <2>1, <3>1, FS_Singleton
  <2>2. CASE e \notin Sparks(d, h)
    <3>1. {e} \cap Sparks(d, h) = {}
      BY <2>2
    <3>2. QED
      BY <2>2, <3>1, FS_EmptySet
  <2>3. QED
    BY <2>1, <2>2
<1> HIDE DEF g, rest, k, h
<1>11. /\ Cardinality(Left(stack)) = Cardinality(h.rest) + Cardinality(Left(k))
       /\ Cardinality(Restarts(d, stack)) = Cardinality(Sparks(d, h)) + Cardinality(Restarts(d, k))
       /\ Cardinality(Left(k)) \in Nat /\ Cardinality(Restarts(d, k)) \in Nat
       /\ Cardinality(h.rest) \in Nat /\ Cardinality(Sparks(d, h)) \in Nat
  BY <1>1, <1>4, LoopsCons
<1>12. /\ FiniteLoops(<<g>> \o k)
       /\ Cardinality(Left(<<g>> \o k)) = Cardinality(rest) + Cardinality(Left(k))
       /\ Cardinality(Restarts(d, <<g>> \o k))
            = Cardinality(Sparks(d, g)) + Cardinality(Restarts(d, k))
  BY <1>1, <1>2, <1>4, <1>8, LoopsCons
<1>13. /\ FiniteLoops(After(e)) /\ After(e) \in Seq(Frame)
       /\ Cardinality(Left(After(e))) = Cardinality(rest) + Cardinality(Left(k))
       /\ Cardinality(Restarts(d, After(e)))
            = Cardinality(Sparks(d, g)) + Cardinality(Restarts(d, k))
  <2>1. CASE rest = {}
    <3>1. Cardinality(rest) = 0 /\ Cardinality(Sparks(d, g)) = 0
      BY <1>7, <2>1, FS_EmptySet
    <3>2. QED
      BY <1>1, <1>3, <1>4, <1>11, <2>1, <3>1
  <2>2. CASE rest # {}
    <3>1. <<g>> \o k \in Seq(Frame)
      BY <1>1, <1>2
    <3>2. QED
      BY <1>3, <1>12, <2>2, <3>1
  <2>3. QED
    BY <2>1, <2>2
<1>14. PICK a \in Nat, b \in Nat, s \in Nat, t \in Nat :
         /\ a = Cardinality(h.rest) /\ b = Cardinality(Left(k))
         /\ s = Cardinality(Sparks(d, h)) /\ t = Cardinality(Restarts(d, k))
  BY <1>11
<1>15. PICK x \in {0, 1} : x = IF e \in Sparks(d, h) THEN 1 ELSE 0
  OBVIOUS
<1>16. /\ Cardinality(Left(stack)) = a + b /\ Cardinality(Restarts(d, stack)) = s + t
       /\ Cardinality(Left(After(e))) = (a - 1) + b
       /\ Cardinality(Restarts(d, After(e))) = (s - x) + t
  BY <1>8, <1>9, <1>11, <1>13, <1>14, <1>15
<1>17. Cardinality({e} \cap Sparks(d, h)) = x
  BY <1>10, <1>15
<1>18. /\ (a - 1) + b = (a + b) - 1 /\ (s - x) + t = (s + t) - x
       /\ a + b \in Nat /\ s + t \in Nat
  BY ONLY a \in Nat, b \in Nat, s \in Nat, t \in Nat, x \in {0, 1}
<1>19. /\ Cardinality(Left(After(e))) = Cardinality(Left(stack)) - 1
       /\ Cardinality(Restarts(d, After(e)))
            = Cardinality(Restarts(d, stack)) - Cardinality({e} \cap Sparks(d, h))
       /\ Cardinality(Left(stack)) \in Nat /\ Cardinality(Restarts(d, stack)) \in Nat
  BY ONLY <1>16, <1>17, <1>18
<1>20. QED
  BY <1>10, <1>13, <1>19 DEF h

\* The image of a finite set is finite.
LEMMA ImageFinite ==
  ASSUME NEW S, IsFiniteSet(S), NEW f, DOMAIN f = S
  PROVE  IsFiniteSet({f[x] : x \in S})
<1> DEFINE T == {f[x] : x \in S}
           g == [x \in S |-> f[x]]
<1>1. g \in [S -> T] /\ \A y \in T : \E x \in S : g[x] = y
  OBVIOUS
<1> HIDE DEF T, g
<1>2. g \in Surjection(S, T)
  BY <1>1 DEF Surjection
<1>3. QED
  BY <1>2, FS_Surjection DEF T

\* The loops the board starts go over finitely many users or cards.
LEMMA FreshFinite ==
  ASSUME NEW d
  PROVE  /\ IsFiniteSet(Keyed(RegisteredPorts(d)))
         /\ IsFiniteSet({<<0, c>> : c \in TimedOutCards(d)})
         /\ IsFiniteSet({<<i, d.users[i].port>> : i \in TimedOutUsers(d)})
<1>1. IsFiniteSet(UsedSlots(d))
  BY SlotsFinite
<1>2. IsFiniteSet(Keyed(RegisteredPorts(d)))
  <2> DEFINE f == [i \in UsedSlots(d) |-> <<d.users[i].port, d.users[i].port>>]
  <2>1. IsFiniteSet({f[i] : i \in UsedSlots(d)})
    <3>1. DOMAIN f = UsedSlots(d)
      OBVIOUS
    <3> HIDE DEF f
    <3>2. QED
      BY <1>1, <3>1, ImageFinite
  <2>2. {f[i] : i \in UsedSlots(d)} = Keyed(RegisteredPorts(d))
    BY DEF Keyed, RegisteredPorts
  <2>3. QED
    BY <2>1, <2>2
<1>3. IsFiniteSet({<<0, c>> : c \in TimedOutCards(d)})
  <2> DEFINE S == TimedOutCards(d)
             f == [c \in S |-> <<0, c>>]
  <2>1. IsFiniteSet(S)
    BY IdsAssumption, FS_Subset, UsedTypes DEF TimedOutCards, InColumn, UsedCards
  <2>2. {f[c] : c \in S} = {<<0, c>> : c \in S} /\ DOMAIN f = S
    OBVIOUS
  <2> HIDE DEF f, S
  <2>3. IsFiniteSet({f[c] : c \in S})
    BY <2>1, <2>2, ImageFinite
  <2>4. QED
    BY <2>2, <2>3 DEF S
<1>4. IsFiniteSet({<<i, d.users[i].port>> : i \in TimedOutUsers(d)})
  <2> DEFINE S == TimedOutUsers(d)
             f == [i \in S |-> <<i, d.users[i].port>>]
  <2>1. IsFiniteSet(S)
    BY <1>1, FS_Subset DEF TimedOutUsers
  <2>2. {f[i] : i \in S} = {<<i, d.users[i].port>> : i \in S} /\ DOMAIN f = S
    OBVIOUS
  <2> HIDE DEF f, S
  <2>3. IsFiniteSet({f[i] : i \in S})
    BY <2>1, <2>2, ImageFinite
  <2>4. QED
    BY <2>2, <2>3 DEF S
<1>5. QED
  BY <1>2, <1>3, <1>4

\* send_available_card adds one loop at most, and no spark.
LEMMA OfferCounts ==
  ASSUME NEW d, Consistent(d), NEW k \in Seq(Frame), FiniteLoops(k), SendAvailableCard(d, k)
  PROVE  /\ FiniteLoops(stack')
         /\ Cardinality(Restarts(d, stack')) = Cardinality(Restarts(d, k))
<1>1. CASE OfferDue(d)
  <2> DEFINE f == OfferLoop(d)
  <2>1. f \in Frame /\ IsFiniteSet(f.rest)
    BY FrameTypes, FreshFinite DEF OfferLoop
  <2>2. Sparks(d, f) = {}
    BY RegisteredIff DEF OfferLoop, Sparks, Keyed
  <2>3. stack' = <<f>> \o k
    BY <1>1 DEF SendAvailableCard
  <2> HIDE DEF f
  <2>4. Cardinality(Sparks(d, f)) = 0
    BY <2>2, FS_EmptySet
  <2>5. /\ FiniteLoops(stack')
        /\ Cardinality(Restarts(d, stack')) = Cardinality(Sparks(d, f)) + Cardinality(Restarts(d, k))
        /\ Cardinality(Restarts(d, k)) \in Nat
    BY <2>1, <2>3, LoopsCons
  <2>6. QED
    BY <2>4, <2>5
<1>2. CASE ~OfferDue(d)
  BY <1>2 DEF SendAvailableCard
<1>3. QED
  BY <1>1, <1>2

\* The sparks depend on who is registered only.
LEMMA SameRestarts ==
  ASSUME NEW d, NEW e, \A p : IsRegistered(e, p) <=> IsRegistered(d, p), NEW s
  PROVE  Restarts(e, s) = Restarts(d, s)
BY DEF Restarts

\* Databases with the same board have the same registered users.
LEMMA SameRegistered ==
  ASSUME NEW d, NEW e, SameBoard(d, e)
  PROVE  \A p : IsRegistered(e, p) <=> IsRegistered(d, p)
<1>1. RegisteredPorts(e) = RegisteredPorts(d)
  BY DEF SameBoard, RegisteredPorts
<1>2. QED
  BY <1>1, RegisteredIff

\* disconnect_user has one user less, or changes nothing but the offer.
LEMMA LeaverCounts ==
  ASSUME NEW d, Consistent(d), NEW port
  PROVE  IF IsRegistered(d, port) THEN Leaver(d, port).num_users = d.num_users - 1
         ELSE SameBoard(d, Leaver(d, port))
<1> DEFINE a == card_todo(d, port)
           b == remove_user(a, port)
<1>1. CASE IsRegistered(d, port)
  <2>1. /\ Consistent(a) /\ UsedSlots(a) = UsedSlots(d)
        /\ find_user_index(a, port) = find_user_index(d, port)
    BY <1>1, TodoConsistent, TodoWrites
  <2> HIDE DEF a
  <2>2. IsRegistered(a, port) /\ find_user_index(d, port) \in UsedSlots(d)
    BY <1>1, <2>1, FindUser DEF IsRegistered
  <2>3. Consistent(b) /\ UsedSlots(b) = UsedSlots(d) \ {find_user_index(d, port)}
    BY <2>1, <2>2, RemoveUserConsistent, RemoveUserWrites
  <2> HIDE DEF b
  <2>4. b.num_users = d.num_users - 1
    BY <2>2, <2>3, SlotsFinite, FS_RemoveElement DEF Consistent, Counted
  <2>5. clear_offered_card(b).num_users = b.num_users
    <3>1. NoCard \in CardIds \cup {NoCard}
      OBVIOUS
    <3>2. SameBoard(b, clear_offered_card(b))
      BY <2>3, <3>1, OfferSameBoard
    <3>3. QED
      BY <3>2 DEF SameBoard
  <2>6. Leaver(d, port) = clear_offered_card(b)
    BY DEF Leaver, a, b
  <2>7. QED
    BY <1>1, <2>4, <2>5, <2>6
<1>2. CASE ~IsRegistered(d, port)
  <2>1. Leaver(d, port) = clear_offered_card(d)
    BY <1>2 DEF Leaver, card_todo, remove_user
  <2>2. NoCard \in CardIds \cup {NoCard}
    OBVIOUS
  <2>3. QED
    BY <1>2, <2>1, <2>2, OfferSameBoard
<1>3. QED
  BY <1>1, <1>2

LoopInv == IInv /\ FiniteLoops(stack)

\* disconnect_user in a loop has one user less or one spark less.
LEMMA LeaveDescends ==
  ASSUME LoopInv, stack # <<>>, Head(stack).op # "check_ping", NEW e \in Head(stack).rest,
         NEW port, Head(stack).op = "work" \/ port = e[2], DisconnectUser(port, After(e))
  PROVE  FiniteLoops(stack') /\ Descends(Measure(db', stack'), Measure(db, stack))
<1> DEFINE d == Leaver(db, port)
           S == Sparks(db, Head(stack))
<1>1. Consistent(db) /\ stack \in Seq(Frame) /\ FiniteLoops(stack)
  BY DEF LoopInv, IInv, Good, ControlTyped
<1>2. SendAvailableCard(d, After(e)) /\ db' = Offered(d)
  BY HandsOver DEF DisconnectUser, Leaver
<1>3. Consistent(d)
  BY <1>1, LeaverDoing
<1>4. IF IsRegistered(db, port) THEN d.num_users = db.num_users - 1 ELSE SameBoard(db, d)
  BY <1>1, LeaverCounts
<1> HIDE DEF d
<1>5. SameBoard(d, db')
  BY <1>2, <1>3, OfferedSame
<1>6. /\ FiniteLoops(After(e)) /\ After(e) \in Seq(Frame)
      /\ Cardinality(Restarts(db, After(e)))
           = Cardinality(Restarts(db, stack)) - Cardinality({e} \cap S)
      /\ Cardinality(Restarts(db, stack)) \in Nat
      /\ Cardinality({e} \cap S) = IF e \in S THEN 1 ELSE 0
  BY <1>1, AfterCounts
<1>7. FiniteLoops(stack') /\ Cardinality(Restarts(d, stack')) = Cardinality(Restarts(d, After(e)))
  BY <1>2, <1>3, <1>6, OfferCounts
<1>8. db.num_users \in Int /\ db'.num_users = d.num_users
  BY <1>1, <1>5 DEF Consistent, Databases, SameBoard
<1>9. CASE IsRegistered(db, port)
  <2>1. db'.num_users < db.num_users
    BY <1>4, <1>8, <1>9
  <2>2. QED
    BY <1>7, <2>1 DEF Descends, Measure
<1>10. CASE ~IsRegistered(db, port)
  <2>1. e \in S
    BY <1>10 DEF Sparks
  <2>2. d.num_users = db.num_users
    BY <1>4, <1>10 DEF SameBoard
  <2>3. \A p : IsRegistered(d, p) <=> IsRegistered(db, p)
    BY <1>4, <1>10, SameRegistered
  <2>4. \A p : IsRegistered(db', p) <=> IsRegistered(d, p)
    BY <1>5, SameRegistered
  <2>5. \A s : Restarts(d, s) = Restarts(db, s)
    BY <2>3, SameRestarts
  <2>6. \A s : Restarts(db', s) = Restarts(d, s)
    BY <2>4, SameRestarts
  <2>7. Cardinality(Restarts(db', stack')) = Cardinality(Restarts(db, stack)) - 1
    BY <1>6, <1>7, <2>1, <2>5, <2>6
  <2>8. Cardinality(Restarts(db', stack')) < Cardinality(Restarts(db, stack))
    BY <1>6, <2>7
  <2>9. QED
    BY <1>7, <1>8, <2>2, <2>8 DEF Descends, Measure
<1>11. QED
  BY <1>9, <1>10

\* An iteration that moves no user lessens the sparks or the entries.
LEMMA IterationDescends ==
  ASSUME LoopInv, stack # <<>>, Head(stack).op # "check_ping", NEW e \in Head(stack).rest,
         stack' = After(e), SameBoard(db, db')
  PROVE  FiniteLoops(stack') /\ Descends(Measure(db', stack'), Measure(db, stack))
<1> DEFINE S == Sparks(db, Head(stack))
<1>1. Consistent(db) /\ stack \in Seq(Frame) /\ FiniteLoops(stack)
  BY DEF LoopInv, IInv, Good, ControlTyped
<1>2. /\ FiniteLoops(stack')
      /\ Cardinality(Left(stack')) = Cardinality(Left(stack)) - 1
      /\ Cardinality(Restarts(db, stack')) = Cardinality(Restarts(db, stack)) - Cardinality({e} \cap S)
      /\ Cardinality(Left(stack)) \in Nat /\ Cardinality(Restarts(db, stack)) \in Nat
      /\ Cardinality({e} \cap S) = IF e \in S THEN 1 ELSE 0
  BY <1>1, AfterCounts
<1>3. Restarts(db', stack') = Restarts(db, stack')
  BY SameRegistered, SameRestarts
<1>4. db'.num_users = db.num_users
  BY DEF SameBoard
<1>5. Cardinality(Left(stack')) < Cardinality(Left(stack))
  BY <1>2
<1>6. \/ Cardinality(Restarts(db', stack')) < Cardinality(Restarts(db, stack))
      \/ Cardinality(Restarts(db', stack')) = Cardinality(Restarts(db, stack))
  BY <1>2, <1>3
<1>7. QED
  BY <1>2, <1>4, <1>5, <1>6 DEF Descends, Measure

\* Every step keeps the loops finite, and a step of a loop descends.
LEMMA LoopsStep ==
  ASSUME LoopInv, [Next]_vars
  PROVE  /\ FiniteLoops(stack')
         /\ stack # <<>> /\ stack' # stack => Descends(Measure(db', stack'), Measure(db, stack))
<1> DEFINE Fine == /\ FiniteLoops(stack')
                   /\ stack # <<>> /\ stack' # stack
                        => Descends(Measure(db', stack'), Measure(db, stack))
<1>1. IInv /\ Consistent(db) /\ stack \in Seq(Frame) /\ FiniteLoops(stack)
  BY DEF LoopInv, IInv, Good, ControlTyped
<1>2. ASSUME stack' = stack PROVE Fine
  BY <1>1, <1>2
<1>3. FiniteLoops(<<>>) /\ <<>> \in Seq(Frame)
  BY DEF FiniteLoops
<1>4. ASSUME NEW d, Consistent(d), stack = <<>>, SendAvailableCard(d, <<>>) PROVE Fine
  BY <1>3, <1>4, OfferCounts
<1>5. ASSUME NEW port, stack = <<>>, DisconnectUser(port, <<>>) PROVE Fine
  <2>1. SendAvailableCard(Leaver(db, port), <<>>)
    BY <1>5 DEF DisconnectUser, Leaver
  <2>2. QED
    BY <1>1, <1>4, <1>5, <2>1, LeaverDoing
<1>6. CASE Loops
  <2>1. \A e \in Least(Head(stack).rest) : e \in Head(stack).rest
    BY DEF Least
  <2>2. SameBoard(db, db)
    BY DEF SameBoard
  <2>3. CASE OfferStep
    <3>1. stack # <<>> /\ Head(stack).op = "offer"
      BY <2>3 DEF OfferStep, Running
    <3>2. PICK e \in Least(Head(stack).rest) :
                 \/ stack' = After(e) /\ db' = db
                 \/ DisconnectUser(e[2], After(e))
      BY <2>3 DEF OfferStep
    <3>3. CASE stack' = After(e) /\ db' = db
      BY <2>1, <2>2, <3>1, <3>3, IterationDescends
    <3>4. CASE DisconnectUser(e[2], After(e))
      BY <2>1, <3>1, <3>4, LeaveDescends
    <3>5. QED
      BY <3>2, <3>3, <3>4
  <2>4. CASE WorkStep
    <3>1. stack # <<>> /\ Head(stack).op = "work"
      BY <2>4 DEF WorkStep, Running
    <3>2. PICK e \in Least(Head(stack).rest) :
                 \/ (\E fd : SendPing(fd) \/ PingRefused(fd)) /\ stack' = After(e)
                 \/ DisconnectUser(db.cards[e[2]].assigned_user_port, After(e))
      BY <2>4 DEF WorkStep
    <3>3. ASSUME NEW fd, SendPing(fd) \/ PingRefused(fd), stack' = After(e) PROVE Fine
      <4>1. SameBoard(db, db')
        BY <1>1, <3>3, PingCalm DEF Calm
      <4>2. QED
        BY <2>1, <3>1, <3>3, <4>1, IterationDescends
    <3>4. CASE DisconnectUser(db.cards[e[2]].assigned_user_port, After(e))
      BY <2>1, <3>1, <3>4, LeaveDescends
    <3>5. QED
      BY <3>2, <3>3, <3>4
  <2>5. CASE CheckPingStep
    <3> DEFINE h == Head(stack)
               k == Tail(stack)
               f == [op |-> "evict", card |-> NoCard,
                     rest |-> {<<i, db.users[i].port>> : i \in TimedOutUsers(db)}]
    <3>1. h \in Frame /\ k \in Seq(Frame) /\ stack = <<h>> \o k /\ h.op = "check_ping"
      BY <1>1, <2>5 DEF CheckPingStep, Running
    <3>2. f \in Frame /\ IsFiniteSet(f.rest)
      BY <1>1, EvictType, FreshFinite
    <3>3. Sparks(db, f) = {}
      <4>1. \A i \in TimedOutUsers(db) : IsRegistered(db, db.users[i].port)
        BY FindUser DEF TimedOutUsers
      <4>2. QED
        BY <4>1 DEF Sparks
    <3>4. stack' = k \/ stack' = <<f>> \o k
      BY <2>5 DEF CheckPingStep
    <3>5. IsFiniteSet(h.rest) /\ FiniteLoops(k)
      <4>1. /\ 1 \in DOMAIN stack /\ stack[1] = h
            /\ \A x \in DOMAIN k : x + 1 \in DOMAIN stack /\ stack[x + 1] = k[x]
        BY <3>1
      <4> HIDE DEF h, k, f
      <4>2. QED
        BY <1>1, <4>1 DEF FiniteLoops
    <3>6. db' = db
      BY <2>5 DEF CheckPingStep
    <3>7. <<0, 0>> \in Sparks(db, h)
      BY <3>1 DEF Sparks
    <3> HIDE DEF f, h, k
    <3>8. Cardinality(Sparks(db, f)) = 0 /\ Cardinality(Sparks(db, h)) > 0
      <4>1. IsFiniteSet(Sparks(db, h))
        BY <3>5, SparksFinite
      <4>2. Cardinality(Sparks(db, h)) \in Nat /\ Cardinality(Sparks(db, h)) # 0
        BY <3>7, <4>1, FS_CardinalityType, FS_EmptySet
      <4>3. QED
        BY <3>3, <4>2, FS_EmptySet
    <3>9. /\ Cardinality(Restarts(db, stack)) = Cardinality(Sparks(db, h)) + Cardinality(Restarts(db, k))
          /\ Cardinality(Restarts(db, k)) \in Nat /\ Cardinality(Sparks(db, h)) \in Nat
      BY <3>1, <3>5, LoopsCons
    <3>10. /\ FiniteLoops(<<f>> \o k)
           /\ Cardinality(Restarts(db, <<f>> \o k)) = Cardinality(Sparks(db, f)) + Cardinality(Restarts(db, k))
      BY <3>1, <3>2, <3>5, LoopsCons
    <3>11. FiniteLoops(stack') /\ Cardinality(Restarts(db, stack')) = Cardinality(Restarts(db, k))
      <4>1. CASE stack' = k
        BY <3>5, <4>1
      <4>2. CASE stack' = <<f>> \o k
        BY <3>8, <3>9, <3>10, <4>2
      <4>3. QED
        BY <3>4, <4>1, <4>2
    <3>12. Cardinality(Restarts(db, stack')) < Cardinality(Restarts(db, stack))
      BY <3>8, <3>9, <3>11
    <3>13. QED
      BY <3>6, <3>11, <3>12 DEF Descends, Measure
  <2>6. CASE EvictStep
    <3>1. stack # <<>> /\ Head(stack).op = "evict"
      BY <2>6 DEF EvictStep, Running
    <3>2. PICK e \in Least(Head(stack).rest) : DisconnectUser(e[2], After(e))
      BY <2>6 DEF EvictStep
    <3>3. QED
      BY <2>1, <3>1, <3>2, LeaveDescends
  <2>7. QED
    BY <1>6, <2>3, <2>4, <2>5, <2>6 DEF Loops
<1>7. CASE Connections
  <2>1. ASSUME NEW port, Accept(port) PROVE Fine
    BY <1>2, <2>1 DEF Accept
  <2>2. ASSUME NEW fd, PeerGone(fd) PROVE Fine
    BY <1>2, <2>2 DEF PeerGone
  <2>3. ASSUME NEW fd, ClientClosed(fd) PROVE Fine
    BY <1>2, <1>5, <2>3 DEF ClientClosed, Refuse, Idle
  <2>4. ASSUME NEW fd, HandlerRefuses(fd) PROVE Fine
    BY <1>2, <2>4 DEF HandlerRefuses, Refuse
  <2>5. QED
    BY <1>7, <2>1, <2>2, <2>3, <2>4 DEF Connections
<1>8. CASE Messages
  <2>1. ASSUME NEW fd \in Fds, NEW port \in Ports, HandleHello(fd, port) PROVE Fine
    <3>1. CASE CanAddUser(db, port)
      BY <1>1, <1>4, <2>1, <3>1, AddUserConsistent DEF HandleHello, Idle
    <3>2. CASE ~CanAddUser(db, port)
      BY <1>2, <2>1, <3>2 DEF HandleHello, Refuse
    <3>3. QED
      BY <3>1, <3>2
  <2>2. ASSUME NEW fd, NEW id, NEW column \in CreateColumns, HandleCreateCard(fd, id, column)
        PROVE  Fine
    BY <1>1, <1>4, <2>2, InputsAssumption, CreateConsistent DEF HandleCreateCard, From, Idle
  <2>3. ASSUME NEW fd, HandleUserList(fd) PROVE Fine
    BY <1>2, <2>3 DEF HandleUserList
  <2>4. ASSUME NEW fd, NEW c, HandleAckCard(fd, c) PROVE Fine
    BY <1>2, <2>4 DEF HandleAckCard
  <2>5. ASSUME NEW fd, NEW c, HandleCardDone(fd, c) PROVE Fine
    BY <1>1, <1>4, <2>5, FinishConsistent DEF HandleCardDone, From, Idle
  <2>6. ASSUME NEW fd, HandleQuit(fd) PROVE Fine
    BY <1>5, <2>6 DEF HandleQuit, From, Idle
  <2>7. ASSUME NEW fd, HandlePong(fd) PROVE Fine
    BY <1>2, <2>7 DEF HandlePong
  <2>8. QED
    BY <1>8, <2>1, <2>2, <2>3, <2>4, <2>5, <2>6, <2>7 DEF Messages
<1>9. CASE Commands
  <2>1. ASSUME NEW c \in CardIds, NEW column \in MoveColumns, NEW port \in Ports \cup {NoPort},
               MoveCard(c, column, port)
        PROVE  Fine
    <3> DEFINE f == move_card(db, c, column, port)
    <3>1. /\ SendAvailableCard(clear_offered_card(f), <<>>) /\ stack = <<>>
          /\ CanMove(db, c, column, port)
      BY <2>1 DEF MoveCard, Idle
    <3>2. Consistent(f)
      BY <1>1, <3>1, InputsAssumption, MoveConsistent
    <3> HIDE DEF f
    <3>3. QED
      BY <1>4, <3>1, <3>2, ClearOfferConsistent
  <2>2. ASSUME NEW port, SendUserList(port) PROVE Fine
    BY <1>2, <2>2 DEF SendUserList
  <2>3. ASSUME NEW port, PingUser(port) PROVE Fine
    BY <1>2, <2>3 DEF PingUser
  <2>4. CASE AskOffer
    BY <1>1, <1>4, <2>4 DEF AskOffer, Idle
  <2>5. QED
    BY <1>9, <2>1, <2>2, <2>3, <2>4 DEF Commands
<1>10. CASE CheckTimeout
  <2>1. stack = <<>> /\ (stack' = <<CheckPing>> \/ stack' = <<WorkLoop, CheckPing>>)
    BY <1>10 DEF CheckTimeout, Idle
  <2>2. IsFiniteSet(WorkLoop.rest) /\ IsFiniteSet(CheckPing.rest)
    BY FreshFinite, FS_EmptySet DEF WorkLoop, CheckPing
  <2>3. FiniteLoops(stack')
    BY <2>1, <2>2 DEF FiniteLoops
  <2>4. QED
    BY <2>1, <2>3
<1>11. CASE Tick
  BY <1>2, <1>11 DEF Tick
<1>12. CASE UNCHANGED vars
  BY <1>2, <1>12 DEF vars
<1>13. QED
  BY <1>6, <1>7, <1>8, <1>9, <1>10, <1>11, <1>12 DEF Next

\* disconnect_user and send_available_card call each other, but every handler
\* returns: each step of a loop lessens the users, the entries that can start
\* a loop without removing a user, or the entries, in this order.
THEOREM HandlersReturn == Spec => LoopsDescend
<1>1. Init => LoopInv
  <2>1. Init => FiniteLoops(stack)
    BY DEF Init, FiniteLoops
  <2>2. QED
    BY <2>1, InitInv DEF LoopInv
<1>2. LoopInv /\ [Next]_vars => LoopInv'
  BY NextInv, LoopsStep DEF LoopInv
<1>3. LoopInv /\ [Next]_vars => (stack # <<>> /\ stack' # stack
                                   => Descends(Measure(db', stack'), Measure(db, stack)))
  BY LoopsStep
<1>4. QED
  BY <1>1, <1>2, <1>3, PTL DEF Spec, LoopsDescend

-----------------------------------------------------------------------------
(* Users and connections.                                                  *)

\* Every user is on the descriptor of the process with its port; ports being
\* unique, no two users are on the same descriptor.
Wired(d, conn) == \A i \in UsedSlots(d) : /\ d.users[i].port \in Ports
                                          /\ d.users[i].socket_fd \in Fds
                                          /\ conn[d.users[i].socket_fd] = d.users[i].port

Closed(conn, fd) == [f \in Fds |-> IF f = fd THEN NoPort ELSE conn[f]]

\* The user a socket belongs to.
LEMMA UserOfSocket ==
  ASSUME NEW d, NEW conn, Wired(d, conn), NEW fd
  PROVE  IF \E i \in UsedSlots(d) : d.users[i].socket_fd = fd
         THEN port_from_socket(d, fd) = conn[fd] /\ conn[fd] \in Ports
         ELSE port_from_socket(d, fd) = NoPort
BY FindSocketHit DEF Wired, port_from_socket

\* Changes that move no user keep the users wired.
LEMMA WiredSame ==
  ASSUME NEW d, NEW e, SameWires(d, e), NEW conn, Wired(d, conn)
  PROVE  Wired(e, conn)
BY DEF SameWires, Wired

\* send_available_card moves no user.
LEMMA OfferedWires ==
  ASSUME NEW d, Consistent(d)
  PROVE  SameWires(d, Offered(d)) /\ SameWires(d, clear_offered_card(d))
<1>1. SameBoard(d, Offered(d))
  BY OfferedSame
<1>2. SameBoard(d, clear_offered_card(d))
  <2>1. NoCard \in CardIds \cup {NoCard}
    OBVIOUS
  <2>2. QED
    BY <2>1, OfferSameBoard
<1>3. QED
  BY <1>1, <1>2 DEF SameBoard, SameWires

\* A user that joins is on the descriptor its HELLO came from.
LEMMA WiredJoin ==
  ASSUME NEW d, Consistent(d), NEW conn, Wired(d, conn), NEW fd \in Fds, NEW port \in Ports,
         CanAddUser(d, port), conn[fd] = port
  PROVE  Wired(add_user(d, fd, port), conn)
<1> DEFINE e == add_user(d, fd, port)
<1>1. PICK i \in Slots \ UsedSlots(d) :
             /\ UsedSlots(e) = UsedSlots(d) \cup {i}
             /\ e.users[i].port = port
             /\ e.users[i].socket_fd = fd
             /\ \A j \in UsedSlots(d) : e.users[j] = d.users[j]
  BY AddUserWrites
<1> HIDE DEF e
<1>2. Wired(e, conn)
  BY <1>1 DEF Wired
<1>3. QED
  BY <1>2 DEF e

\* server_remove_client on a descriptor without a user.
LEMMA WiredClose ==
  ASSUME NEW d, NEW conn, Wired(d, conn), NEW fd, port_from_socket(d, fd) # conn[fd]
                                                  \/ port_from_socket(d, fd) = NoPort
  PROVE  Wired(d, Closed(conn, fd))
<1>1. \A i \in UsedSlots(d) : d.users[i].socket_fd # fd
  BY UserOfSocket, IdsAssumption DEF NoPort
<1>2. QED
  BY <1>1 DEF Wired, Closed
=============================================================================
