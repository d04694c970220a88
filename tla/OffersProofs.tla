----------------------------- MODULE OffersProofs -----------------------------
(***************************************************************************)
(* What the board says to its users: RegisteredConnected and OfferCoherent *)
(* for every value of the constants, when the clients are the utente       *)
(* program and say HELLO once per connection.                              *)
(***************************************************************************)
EXTENDS LavagnaOffers, BoardProofs

\* The clients are the utente program, and say HELLO once per connection.
OneHello == "FOREIGN" \notin Inputs /\ "HELLO_AGAIN" \notin Inputs

-----------------------------------------------------------------------------
(* Users and connections.                                                  *)

\* disconnect_user closes the descriptor of the user it removes, and no other.
LEMMA WiredLeave ==
  ASSUME NEW d, Consistent(d), NEW conn, Wired(d, conn), NEW port
  PROVE  Wired(Leaver(d, port), Closed(conn, socket_from_port(d, port)))
<1> DEFINE fd == socket_from_port(d, port)
<1>1. CASE ~IsRegistered(d, port)
  <2>1. fd = Missing /\ Leaver(d, port) = clear_offered_card(d)
    BY <1>1 DEF socket_from_port, Leaver, card_todo, remove_user
  <2>2. Wired(Leaver(d, port), conn)
    BY <2>1, OfferedWires, WiredSame
  <2>3. \A f \in Fds : Closed(conn, fd)[f] = conn[f]
    BY <2>1, IdsAssumption DEF Closed, Missing
  <2> HIDE DEF fd
  <2>4. QED
    BY <2>2, <2>3 DEF Wired, fd
<1>2. CASE IsRegistered(d, port)
  <2> DEFINE a == card_todo(d, port)
             b == remove_user(a, port)
             i == find_user_index(d, port)
  <2>1. i \in UsedSlots(d) /\ d.users[i].port = port /\ fd = d.users[i].socket_fd
    BY <1>2, FindUser DEF socket_from_port, UserAt
  <2>2. /\ Consistent(a)
        /\ UsedSlots(a) = UsedSlots(d)
        /\ find_user_index(a, port) = i
        /\ \A j \in UsedSlots(d) \ {i} : a.users[j] = d.users[j]
    BY <1>2, TodoConsistent, TodoWrites
  <2> HIDE DEF a
  <2>3. IsRegistered(a, port)
    BY <1>2, <2>2 DEF IsRegistered
  <2>4. /\ Consistent(b)
        /\ UsedSlots(b) = UsedSlots(a) \ {i}
        /\ \A j \in UsedSlots(a) \ {i} : b.users[j] = a.users[j]
    BY <2>2, <2>3, RemoveUserConsistent, RemoveUserWrites
  <2> HIDE DEF b
  <2>5. SameWires(b, Leaver(d, port))
    BY <2>4, OfferedWires DEF Leaver, a, b
  <2> HIDE DEF i, fd
  <2>6. \A j \in UsedSlots(b) : /\ j \in UsedSlots(d) /\ j # i
                                /\ b.users[j] = d.users[j]
    BY <2>2, <2>4
  <2>7. \A j \in UsedSlots(b) : d.users[j].socket_fd # fd
    BY <2>1, <2>6 DEF Wired, Consistent, PortsUnique
  <2>8. Wired(b, Closed(conn, fd))
    BY <2>6, <2>7 DEF Wired, Closed
  <2>9. QED
    BY <2>5, <2>8, WiredSame DEF fd
<1>3. QED
  BY <1>1, <1>2

WiredInv == IInv /\ Wired(db, peer)

\* disconnect_user, in a step, leaves the other users wired.
LEMMA LeaveStep ==
  ASSUME WiredInv, NEW port, NEW k, DisconnectUser(port, k)
  PROVE  Wired(db', peer')
<1>1. Consistent(db) /\ Wired(db, peer)
  BY DEF WiredInv, IInv, Good
<1>2. db' = Offered(Leaver(db, port)) /\ peer' = Closed(peer, socket_from_port(db, port))
  BY HandsOver DEF DisconnectUser, Leaver, Closed, CloseFd
<1>3. Consistent(Leaver(db, port))
  BY <1>1, LeaverDoing
<1>4. QED
  BY <1>1, <1>2, <1>3, WiredLeave, OfferedWires, WiredSame

\* A ping moves no user.
LEMMA PingWires ==
  ASSUME IInv, NEW fd, SendPing(fd) \/ PingRefused(fd)
  PROVE  SameWires(db, db')
BY PingCalm DEF Calm, SameBoard, SameWires

\* Every step keeps the users wired.
LEMMA WiredNext == ASSUME OneHello, WiredInv, [Next]_vars PROVE Wired(db', peer')
<1>1. Consistent(db) /\ Wired(db, peer) /\ IInv
  BY DEF WiredInv, IInv, Good
<1>2. ASSUME db' = db, peer' = peer
      PROVE  Wired(db', peer')
  BY <1>1, <1>2
<1>3. ASSUME NEW d, Consistent(d), Wired(d, peer), db' = Offered(d), peer' = peer
      PROVE  Wired(db', peer')
  BY <1>3, OfferedWires, WiredSame
<1>4. CASE Loops
  <2>1. CASE OfferStep
    BY <1>2, <2>1, LeaveStep DEF OfferStep
  <2>2. CASE WorkStep
    <3>1. ASSUME NEW fd, SendPing(fd) \/ PingRefused(fd), UNCHANGED peer
          PROVE  Wired(db', peer')
      BY <1>1, <3>1, PingWires, WiredSame
    <3>2. QED
      BY <2>2, <3>1, LeaveStep DEF WorkStep
  <2>3. CASE CheckPingStep
    BY <1>2, <2>3 DEF CheckPingStep
  <2>4. CASE EvictStep
    BY <2>4, LeaveStep DEF EvictStep
  <2>5. QED
    BY <1>4, <2>1, <2>2, <2>3, <2>4 DEF Loops
<1>5. CASE Connections
  <2>1. ASSUME NEW port \in Ports, Accept(port)
        PROVE  Wired(db', peer')
    <3>1. PICK fd \in FreeFds : peer' = [peer EXCEPT ![fd] = port] /\ db' = db
      BY <2>1 DEF Accept
    <3>2. \A i \in UsedSlots(db) : db.users[i].socket_fd # fd
      BY <1>1, <3>1, IdsAssumption DEF Wired, FreeFds, NoPort
    <3>3. peer \in [Fds -> Ports \cup {NoPort}]
      BY <1>1 DEF IInv, ControlTyped
    <3>4. \A i \in UsedSlots(db) : peer'[db.users[i].socket_fd] = peer[db.users[i].socket_fd]
      BY <1>1, <3>1, <3>2, <3>3 DEF Wired, FreeFds
    <3>5. QED
      BY <1>1, <3>1, <3>4 DEF Wired
  <2>2. ASSUME NEW fd \in Fds, PeerGone(fd)
        PROVE  Wired(db', peer')
    BY <1>2, <2>2 DEF PeerGone
  <2>3. ASSUME NEW fd \in Fds, ClientClosed(fd)
        PROVE  Wired(db', peer')
    <3>1. CASE port_from_socket(db, fd) = NoPort
      <4>1. db' = db /\ peer' = Closed(peer, fd)
        BY <2>3, <3>1 DEF ClientClosed, Refuse, CloseFd, Closed
      <4>2. QED
        BY <1>1, <3>1, <4>1, WiredClose
    <3>2. CASE port_from_socket(db, fd) # NoPort
      BY <2>3, <3>2, LeaveStep DEF ClientClosed
    <3>3. QED
      BY <3>1, <3>2
  <2>4. ASSUME NEW fd \in Fds, HandlerRefuses(fd)
        PROVE  Wired(db', peer')
    BY <2>4 DEF HandlerRefuses, OneHello
  <2>5. QED
    BY <1>5, <2>1, <2>2, <2>3, <2>4 DEF Connections
<1>6. CASE Messages
  <2>1. ASSUME NEW fd \in Fds, NEW port \in Ports, HandleHello(fd, port)
        PROVE  Wired(db', peer')
    <3>1. port = peer[fd] /\ port_from_socket(db, fd) # peer[fd]
      BY <2>1 DEF HandleHello, OneHello
    <3>2. CASE CanAddUser(db, port)
      <4>1. db' = Offered(add_user(db, fd, port)) /\ peer' = peer
        BY <2>1, <3>2, HandsOver DEF HandleHello
      <4>2. Consistent(add_user(db, fd, port)) /\ Wired(add_user(db, fd, port), peer)
        BY <1>1, <3>1, <3>2, AddUserConsistent, WiredJoin
      <4>3. QED
        BY <1>3, <4>1, <4>2
    <3>3. CASE ~CanAddUser(db, port)
      <4>1. db' = db /\ peer' = Closed(peer, fd)
        BY <2>1, <3>3 DEF HandleHello, Refuse, CloseFd, Closed
      <4>2. QED
        BY <1>1, <3>1, <4>1, WiredClose
    <3>4. QED
      BY <3>2, <3>3
  <2>2. ASSUME NEW fd \in Fds, NEW id \in CardIds \cup {0}, NEW column \in CreateColumns,
               HandleCreateCard(fd, id, column)
        PROVE  Wired(db', peer')
    <3> DEFINE d == create_card(db, id, column)
    <3>1. db' = Offered(d) /\ peer' = peer
      BY <2>2, HandsOver DEF HandleCreateCard
    <3>2. Consistent(d)
      BY <1>1, <2>2, InputsAssumption, CreateConsistent DEF HandleCreateCard
    <3>3. Wired(d, peer)
      BY <1>1, CardWires, WiredSame
    <3> HIDE DEF d
    <3>4. QED
      BY <1>3, <3>1, <3>2, <3>3
  <2>3. ASSUME NEW fd \in Fds, HandleUserList(fd)
        PROVE  Wired(db', peer')
    BY <1>2, <2>3 DEF HandleUserList
  <2>4. ASSUME NEW fd \in Fds, NEW c \in CardIds, HandleAckCard(fd, c)
        PROVE  Wired(db', peer')
    <3> DEFINE d == card_doing(db, UserPort(fd), c)
    <3>1. db' = clear_offered_card(d) /\ peer' = peer /\ CanTake(db, UserPort(fd), c)
      BY <2>4 DEF HandleAckCard
    <3>2. Consistent(d)
      BY <1>1, <3>1, TakeConsistent, LookupTypes DEF UserPort
    <3>3. Wired(d, peer)
      BY <1>1, CardWires, WiredSame
    <3> HIDE DEF d
    <3>4. QED
      BY <3>1, <3>2, <3>3, OfferedWires, WiredSame
  <2>5. ASSUME NEW fd \in Fds, NEW c \in CardIds, HandleCardDone(fd, c)
        PROVE  Wired(db', peer')
    <3> DEFINE d == card_done(db, UserPort(fd), c)
    <3>1. db' = Offered(d) /\ peer' = peer /\ CanFinish(db, UserPort(fd), c)
      BY <2>5, HandsOver DEF HandleCardDone
    <3>2. Consistent(d)
      BY <1>1, <3>1, FinishConsistent
    <3>3. Wired(d, peer)
      BY <1>1, CardWires, WiredSame
    <3> HIDE DEF d
    <3>4. QED
      BY <1>3, <3>1, <3>2, <3>3
  <2>6. ASSUME NEW fd \in Fds, HandleQuit(fd)
        PROVE  Wired(db', peer')
    BY <2>6, LeaveStep DEF HandleQuit
  <2>7. ASSUME NEW fd \in Fds, HandlePong(fd)
        PROVE  Wired(db', peer')
    <3> DEFINE d == card_reset_timestamp(db, UserPort(fd))
    <3>1. db' = user_clear_ping(d, UserPort(fd)) /\ peer' = peer
      BY <2>7 DEF HandlePong
    <3>2. Consistent(d) /\ SameBoard(db, d)
      BY <1>1, ResetTimestampConsistent, ResetSameBoard
    <3> HIDE DEF d
    <3>3. SameBoard(d, db')
      BY <3>1, <3>2, PingSameBoard
    <3>4. SameWires(db, db')
      BY <3>2, <3>3 DEF SameBoard, SameWires
    <3>5. QED
      BY <1>1, <3>1, <3>4, WiredSame
  <2>8. QED
    BY <1>6, <2>1, <2>2, <2>3, <2>4, <2>5, <2>6, <2>7 DEF Messages
<1>7. CASE Commands
  <2>1. ASSUME NEW c \in CardIds, NEW column \in MoveColumns, NEW port \in Ports \cup {NoPort},
               MoveCard(c, column, port)
        PROVE  Wired(db', peer')
    <3> DEFINE d == move_card(db, c, column, port)
               e == clear_offered_card(d)
    <3>1. db' = Offered(e) /\ peer' = peer /\ CanMove(db, c, column, port)
      BY <2>1, HandsOver DEF MoveCard
    <3>2. Consistent(d)
      BY <1>1, <3>1, InputsAssumption, MoveConsistent
    <3>3. Wired(d, peer)
      BY <1>1, CardWires, WiredSame
    <3> HIDE DEF d
    <3>4. Consistent(e) /\ Wired(e, peer)
      BY <3>2, <3>3, ClearOfferConsistent, OfferedWires, WiredSame
    <3> HIDE DEF e
    <3>5. QED
      BY <1>3, <3>1, <3>4
  <2>2. ASSUME NEW port \in Ports, SendUserList(port)
        PROVE  Wired(db', peer')
    BY <1>2, <2>2 DEF SendUserList
  <2>3. ASSUME NEW port \in Ports, PingUser(port)
        PROVE  Wired(db', peer')
    BY <1>1, <2>3, PingWires, WiredSame DEF PingUser
  <2>4. CASE AskOffer
    BY <1>1, <1>3, <2>4, HandsOver DEF AskOffer
  <2>5. QED
    BY <1>7, <2>1, <2>2, <2>3, <2>4 DEF Commands
<1>8. CASE CheckTimeout
  BY <1>2, <1>8 DEF CheckTimeout
<1>9. CASE Tick
  <2>1. SameBoard(db, db') /\ peer' = peer
    BY <1>1, <1>9, TimeSameBoard DEF Tick
  <2>2. QED
    BY <1>1, <2>1, WiredSame DEF SameBoard, SameWires
<1>10. CASE UNCHANGED vars
  BY <1>2, <1>10 DEF vars
<1>11. QED
  BY <1>4, <1>5, <1>6, <1>7, <1>8, <1>9, <1>10 DEF Next

\* WiredInv holds of every reachable state.
LEMMA WiredInvariance == OneHello => (Spec => []WiredInv)
<1> SUFFICES ASSUME OneHello PROVE Spec => []WiredInv
  OBVIOUS
<1>1. Init => WiredInv
  <2> SUFFICES ASSUME Init PROVE WiredInv
    OBVIOUS
  <2>1. IInv /\ db = DatabaseInit
    BY InitInv DEF Init
  <2>2. UsedSlots(db) = {}
    BY <2>1 DEF DatabaseInit, UsedSlots, FreeSlot
  <2>3. QED
    BY <2>1, <2>2 DEF WiredInv, Wired
<1>2. WiredInv /\ [Next]_vars => WiredInv'
  BY WiredNext, NextInv DEF WiredInv
<1>3. QED
  BY <1>1, <1>2, PTL DEF Spec

\* A registered user is a connected one: no path closes a descriptor and
\* forgets the user on it, or the other way round.
THEOREM UsersAreConnected == OneHello => (Spec => []RegisteredConnected)
<1>1. WiredInv => RegisteredConnected
  BY IdsAssumption DEF WiredInv, Wired, RegisteredConnected, IsOpen, NoPort
<1>2. QED
  BY <1>1, WiredInvariance, PTL

-----------------------------------------------------------------------------
(* The loops of send_available_card under way.                             *)

Frames(s) == {s[k] : k \in {x \in DOMAIN s : s[x].op = "offer"}}

Pending(s) == {p \in Ports : \E f \in Frames(s) : <<p, p>> \in f.rest}

OfferOf(f) == IF f.op = "offer" THEN {f} ELSE {}

\* The frames of a stack are its head, if it is one, and those of the rest.
LEMMA FramesCons ==
  ASSUME NEW k \in Seq(Frame), NEW f \in Frame
  PROVE  Frames(<<f>> \o k) = OfferOf(f) \cup Frames(k)
<1> DEFINE s == <<f>> \o k
<1>1. /\ DOMAIN s = 1 .. Len(k) + 1 /\ DOMAIN k = 1 .. Len(k) /\ Len(k) \in Nat
      /\ s[1] = f
      /\ \A i \in 1 .. Len(k) : s[i + 1] = k[i]
  OBVIOUS
<1> HIDE DEF s
<1>2. ASSUME NEW x \in Frames(s) PROVE x \in OfferOf(f) \cup Frames(k)
  <2>1. PICK i \in DOMAIN s : s[i].op = "offer" /\ x = s[i]
    BY <1>2 DEF Frames
  <2>2. CASE i = 1
    BY <1>1, <2>1, <2>2 DEF OfferOf
  <2>3. CASE i # 1
    <3>1. i - 1 \in 1 .. Len(k) /\ s[i] = k[i - 1]
      BY <1>1, <2>3
    <3>2. QED
      BY <1>1, <2>1, <3>1 DEF Frames
  <2>4. QED
    BY <2>2, <2>3
<1>3. ASSUME NEW x \in OfferOf(f) \cup Frames(k) PROVE x \in Frames(s)
  <2>1. CASE x \in OfferOf(f)
    <3>1. x = s[1] /\ s[1].op = "offer" /\ 1 \in DOMAIN s
      BY <1>1, <2>1 DEF OfferOf
    <3>2. QED
      BY <3>1 DEF Frames
  <2>2. CASE x \in Frames(k)
    <3>1. PICK i \in DOMAIN k : k[i].op = "offer" /\ x = k[i]
      BY <2>2 DEF Frames
    <3>2. i + 1 \in DOMAIN s /\ s[i + 1] = k[i]
      BY <1>1, <3>1
    <3>3. QED
      BY <3>1, <3>2 DEF Frames
  <2>3. QED
    BY <1>3, <2>1, <2>2
<1>4. QED
  BY <1>2, <1>3 DEF s

\* No frame on an empty stack.
LEMMA FramesEmpty == Frames(<<>>) = {}
BY DEF Frames

\* An iteration takes one entry off the innermost loop.
LEMMA AfterFrames ==
  ASSUME stack \in Seq(Frame), stack # <<>>, NEW e
  PROVE  /\ Head(stack).op # "offer" => Frames(After(e)) = Frames(stack)
         /\ Head(stack).op = "offer" => Head(stack) \in Frames(stack)
         /\ \A g \in Frames(After(e)) :
              \E f \in Frames(stack) : g.card = f.card /\ g.rest \subseteq f.rest
         /\ \A f \in Frames(stack) : \A x \in f.rest :
              x # e => \E g \in Frames(After(e)) : x \in g.rest
<1> DEFINE h == Head(stack)
           k == Tail(stack)
           rest == h.rest \ {e}
           g == [h EXCEPT !.rest = rest]
<1>1. h \in Frame /\ k \in Seq(Frame) /\ stack = <<h>> \o k
  OBVIOUS
<1>2. g \in Frame /\ g.op = h.op /\ g.card = h.card /\ g.rest = rest /\ rest \subseteq h.rest
  BY <1>1 DEF Frame
<1>3. After(e) = IF rest = {} THEN k ELSE <<g>> \o k
  BY DEF After
<1>4. \A x \in h.rest : x # e => x \in rest
  OBVIOUS
<1> HIDE DEF g, rest, k, h
<1>5. Frames(stack) = OfferOf(h) \cup Frames(k)
  BY <1>1, FramesCons
<1>6. Frames(After(e)) = IF rest = {} THEN Frames(k) ELSE OfferOf(g) \cup Frames(k)
  BY <1>1, <1>2, <1>3, FramesCons
<1>7. h.op # "offer" => Frames(After(e)) = Frames(stack)
  BY <1>2, <1>5, <1>6 DEF OfferOf
<1>8. h.op = "offer" => h \in Frames(stack)
  BY <1>5 DEF OfferOf
<1>9. \A y \in Frames(After(e)) :
        \E f \in Frames(stack) : y.card = f.card /\ y.rest \subseteq f.rest
  BY <1>2, <1>5, <1>6 DEF OfferOf
<1>10. \A f \in Frames(stack) : \A x \in f.rest :
         x # e => \E y \in Frames(After(e)) : x \in y.rest
  BY <1>2, <1>4, <1>5, <1>6 DEF OfferOf
<1>11. QED
  BY <1>7, <1>8, <1>9, <1>10 DEF h

-----------------------------------------------------------------------------
(* What the users have been told.                                          *)

\* While an offer is being sent nothing else can be, and no card is in DOING:
\* the loops left by a failed send still speak of the card on offer.
FramesOk(d, s) ==
  /\ \A f \in Frames(s) : f.card = next_todo_card(d) /\ \A x \in f.rest : x[1] = x[2]
  /\ Frames(s) # {} => /\ InColumn(d, "DOING") = {}
                       /\ d.offered_card_id \in {NoCard, next_todo_card(d)}

Voters(d, t) == {p \in RegisteredPorts(d) : /\ t[p].type = "AVAILABLE_CARD"
                                            /\ t[p].card = d.offered_card_id}

Fits(d, t) == /\ Cardinality(Voters(d, t)) > 1
              /\ \A p \in Voters(d, t) : /\ t[p].total = Cardinality(Voters(d, t))
                                         /\ t[p].peers = Voters(d, t) \ {p}

\* With a card on offer, either every user has heard of it, or will before the
\* handler returns, what the board would say now; or the handler is done and
\* what was said fits.
Saying(d, s, t) ==
  d.offered_card_id # NoCard =>
    IF Frames(s) = {} THEN Fits(d, t)
    ELSE \A p \in RegisteredPorts(d) :
           p \in Pending(s) \/ t[p] = AvailableCard(d, d.offered_card_id, p)

\* The offers on the wire have been heard by their users, those who have left
\* have heard nothing.
Heard(d, o, t) ==
  /\ \A x \in o : x[2].type = "AVAILABLE_CARD" =>
       \A p \in RegisteredPorts(d) : socket_from_port(d, p) = x[1] => t[p] = x[2]
  /\ \A p \in Ports : ~IsRegistered(d, p) => t[p] = Bare("QUIT")

Said == /\ FramesOk(db, stack)
        /\ Saying(db, stack, told)
        /\ Heard(db, out, told)

OInv == WiredInv /\ Said

NoOffer(o) == \A x \in o : x[2].type # "AVAILABLE_CARD"

\* A step that sends no offer.
LEMMA HearNothing ==
  ASSUME Hear, NoOffer(out')
  PROVE  /\ \A p \in Ports : told'[p] = IF IsRegistered(db', p) THEN told[p] ELSE Bare("QUIT")
         /\ Heard(db', out', told')
<1>1. \A p : Offers(p) = {}
  BY DEF Offers, NoOffer
<1>2. \A p \in Ports : told'[p] = IF IsRegistered(db', p) THEN told[p] ELSE Bare("QUIT")
  BY <1>1 DEF Hear
<1>3. QED
  BY <1>2 DEF Heard, NoOffer

\* The sockets of two databases with the same users.
LEMMA SameSockets ==
  ASSUME NEW d, NEW e, SameWires(d, e)
  PROVE  /\ RegisteredPorts(e) = RegisteredPorts(d)
         /\ \A p : IsRegistered(e, p) <=> IsRegistered(d, p)
         /\ \A p : socket_from_port(e, p) = socket_from_port(d, p)
<1>1. \A p : find_user_index(e, p) = find_user_index(d, p)
  <2>1. \A p : {i \in UsedSlots(e) : e.users[i].port = p} = {i \in UsedSlots(d) : d.users[i].port = p}
    BY DEF SameWires
  <2>2. QED
    BY <2>1 DEF find_user_index
<1>2. RegisteredPorts(e) = RegisteredPorts(d)
  BY DEF SameWires, RegisteredPorts
<1>3. \A p : IsRegistered(e, p) <=> IsRegistered(d, p)
  BY <1>1 DEF IsRegistered
<1>4. ASSUME NEW p PROVE socket_from_port(e, p) = socket_from_port(d, p)
  BY <1>1, <1>3, FindUser DEF socket_from_port, UserAt, SameWires
<1>5. QED
  BY <1>2, <1>3, <1>4

\* A step that leaves the wire as it is tells nobody anything new.
LEMMA HearAgain ==
  ASSUME Hear, out' = out, SameWires(db, db'), Heard(db, out, told),
         RegisteredPorts(db) \subseteq Ports
  PROVE  /\ \A p \in Ports : told'[p] = told[p]
         /\ Heard(db', out', told')
<1>1. /\ RegisteredPorts(db') = RegisteredPorts(db)
      /\ \A p : IsRegistered(db', p) <=> IsRegistered(db, p)
      /\ \A p : socket_from_port(db', p) = socket_from_port(db, p)
  BY SameSockets
<1>2. ASSUME NEW p \in Ports PROVE told'[p] = told[p]
  <2>1. CASE ~IsRegistered(db, p)
    BY <1>1, <2>1 DEF Hear, Heard
  <2>2. CASE IsRegistered(db, p)
    <3>1. \A m \in Offers(p) : m = told[p]
      BY <1>1, <2>2, RegisteredIff DEF Offers, Heard
    <3>2. Offers(p) # {} => (CHOOSE m \in Offers(p) : TRUE) \in Offers(p)
      OBVIOUS
    <3>3. told'[p] = IF Offers(p) = {} THEN told[p] ELSE CHOOSE m \in Offers(p) : TRUE
      BY <1>1, <2>2 DEF Hear
    <3> HIDE DEF Offers
    <3>4. QED
      BY <3>1, <3>2, <3>3
  <2>3. QED
    BY <2>1, <2>2
<1>3. QED
  BY <1>1, <1>2 DEF Heard

\* The lookups of two databases with the same board.
LEMMA SameLookups ==
  ASSUME NEW d, NEW e, SameBoard(d, e)
  PROVE  /\ next_todo_card(e) = next_todo_card(d)
         /\ InColumn(e, "DOING") = InColumn(d, "DOING")
         /\ RegisteredPorts(e) = RegisteredPorts(d)
         /\ \A c, p : AvailableCard(e, c, p) = AvailableCard(d, c, p)
<1>1. /\ InColumn(e, "TODO") = InColumn(d, "TODO")
      /\ InColumn(e, "DOING") = InColumn(d, "DOING")
  BY SameColumns
<1>2. RegisteredPorts(e) = RegisteredPorts(d)
  BY DEF SameBoard, RegisteredPorts
<1>3. e.num_users = d.num_users
  BY DEF SameBoard
<1>4. QED
  BY <1>1, <1>2, <1>3 DEF next_todo_card, AvailableCard, users_list_except

\* The registered ports are ports of user processes.
LEMMA WiredPorts ==
  ASSUME NEW d, NEW conn, Wired(d, conn)
  PROVE  RegisteredPorts(d) \subseteq Ports
BY DEF Wired, RegisteredPorts

\* A step that changes neither the board, nor the offers under way, nor what
\* the users were told.
LEMMA QuietKeeps ==
  ASSUME OInv, Hear, SameBoard(db, db'), db'.offered_card_id = db.offered_card_id,
         Frames(stack') = Frames(stack), out' = out \/ NoOffer(out')
  PROVE  Said'
<1>1. Wired(db, peer) /\ FramesOk(db, stack) /\ Saying(db, stack, told) /\ Heard(db, out, told)
  BY DEF OInv, Said, WiredInv
<1>2. SameWires(db, db') /\ RegisteredPorts(db) \subseteq Ports
  BY <1>1, WiredPorts DEF SameBoard, SameWires
<1>3. (\A p \in Ports : told'[p] = told[p]) /\ Heard(db', out', told')
  <2>1. CASE out' = out
    BY <1>1, <1>2, <2>1, HearAgain
  <2>2. CASE NoOffer(out')
    <3>1. \A p \in Ports : ~IsRegistered(db', p) => told[p] = Bare("QUIT")
      BY <1>1, <1>2, SameSockets DEF Heard
    <3>2. QED
      BY <2>2, <3>1, HearNothing
  <2>3. QED
    BY <2>1, <2>2
<1>4. /\ next_todo_card(db') = next_todo_card(db)
      /\ InColumn(db', "DOING") = InColumn(db, "DOING")
      /\ RegisteredPorts(db') = RegisteredPorts(db)
      /\ \A c, p : AvailableCard(db', c, p) = AvailableCard(db, c, p)
  BY SameLookups
<1>5. FramesOk(db', stack')
  BY <1>1, <1>4 DEF FramesOk
<1>6. Voters(db', told') = Voters(db, told)
  BY <1>2, <1>3, <1>4 DEF Voters
<1>7. Fits(db, told) => Fits(db', told')
  <2>1. \A p \in Voters(db, told) : told'[p] = told[p]
    BY <1>2, <1>3 DEF Voters
  <2>2. QED
    BY <1>6, <2>1 DEF Fits
<1>8. Pending(stack') = Pending(stack)
  BY DEF Pending
<1>9. Saying(db', stack', told')
  BY <1>1, <1>2, <1>3, <1>4, <1>7, <1>8 DEF Saying
<1>10. QED
  BY <1>3, <1>5, <1>9 DEF Said

\* send_available_card with no card on offer: its loop is to reach every user.
LEMMA FreshOffer ==
  ASSUME NEW d, Consistent(d), RegisteredPorts(d) \subseteq Ports, d.offered_card_id = NoCard,
         NEW k \in Seq(Frame), FramesOk(d, k), SendAvailableCard(d, k), NEW t
  PROVE  FramesOk(db', stack') /\ Saying(db', stack', t)
<1>1. CASE OfferDue(d)
  <2> DEFINE c == next_todo_card(d)
             e == set_offered_card(d, c)
  <2>1. db' = e /\ stack' = <<OfferLoop(d)>> \o k
    BY <1>1 DEF SendAvailableCard
  <2>2. c \in CardIds \cup {NoCard} /\ InColumn(d, "DOING") = {}
    BY <1>1, LookupTypes DEF OfferDue, has_doing_cards
  <2>3. e.offered_card_id = c /\ SameBoard(d, e)
    BY <2>2, OfferConsistent, OfferSameBoard
  <2> HIDE DEF e
  <2>4. /\ next_todo_card(e) = c
        /\ InColumn(e, "DOING") = {}
        /\ RegisteredPorts(e) = RegisteredPorts(d)
    BY <2>2, <2>3, SameLookups
  <2>5. OfferLoop(d) \in Frame /\ OfferLoop(d).op = "offer" /\ OfferLoop(d).card = c
        /\ OfferLoop(d).rest = Keyed(RegisteredPorts(d))
    BY FrameTypes DEF OfferLoop
  <2> HIDE DEF c
  <2>6. Frames(stack') = {OfferLoop(d)} \cup Frames(k)
    BY <2>1, <2>5, FramesCons DEF OfferOf
  <2>7. \A f \in Frames(k) : f.card = c /\ \A x \in f.rest : x[1] = x[2]
    BY DEF FramesOk, c
  <2>8. \A x \in OfferLoop(d).rest : x[1] = x[2]
    BY <2>5 DEF Keyed
  <2>9. FramesOk(e, stack')
    BY <2>3, <2>4, <2>5, <2>6, <2>7, <2>8 DEF FramesOk
  <2>10. RegisteredPorts(e) \subseteq Pending(stack')
    BY <2>4, <2>5, <2>6 DEF Pending, Keyed
  <2>11. Frames(stack') # {}
    BY <2>6
  <2>12. QED
    BY <2>1, <2>9, <2>10, <2>11 DEF Saying
<1>2. CASE ~OfferDue(d)
  BY <1>2 DEF SendAvailableCard, Saying
<1>3. QED
  BY <1>1, <1>2

\* With no card in DOING, a user that leaves changes no column.
LEMMA LeaverTodo ==
  ASSUME NEW d, Consistent(d), InColumn(d, "DOING") = {}, NEW port
  PROVE  next_todo_card(Leaver(d, port)) = next_todo_card(d)
<1> DEFINE a == card_todo(d, port)
           b == remove_user(a, port)
<1>1. \A c \in CardIds : a.cards[c] = d.cards[c]
  <2>1. CASE ~IsRegistered(d, port)
    BY <2>1 DEF card_todo
  <2>2. CASE IsRegistered(d, port)
    BY <2>2, TodoWrites
  <2>3. QED
    BY <2>1, <2>2
<1>2. Consistent(a)
  BY TodoConsistent
<1> HIDE DEF a
<1>3. Consistent(b) /\ b.cards = a.cards
  BY <1>2, RemoveUserConsistent
<1> HIDE DEF b
<1>4. Leaver(d, port).cards = a.cards
  BY <1>3, ClearOfferConsistent DEF Leaver, a, b
<1>5. InColumn(Leaver(d, port), "TODO") = InColumn(d, "TODO")
  BY <1>1, <1>4 DEF InColumn, UsedCards
<1>6. QED
  BY <1>5 DEF next_todo_card

\* disconnect_user in a loop: the loops it interrupts go on about the same card.
LEMMA LeaveKeeps ==
  ASSUME OInv, Hear, stack # <<>>, NEW port, NEW e, DisconnectUser(port, After(e)),
         NoOffer(out')
  PROVE  Said'
<1> DEFINE d == Leaver(db, port)
<1>1. Consistent(db) /\ Wired(db, peer) /\ FramesOk(db, stack) /\ stack \in Seq(Frame)
  BY DEF OInv, Said, WiredInv, IInv, Good, ControlTyped
<1>2. SendAvailableCard(d, After(e))
  BY DEF DisconnectUser, Leaver
<1>3. /\ Consistent(d) /\ d.offered_card_id = NoCard
      /\ InColumn(d, "DOING") \subseteq InColumn(db, "DOING")
  BY <1>1, LeaverDoing
<1>4. RegisteredPorts(d) \subseteq Ports
  BY <1>1, WiredLeave, WiredPorts
<1>5. InColumn(db, "DOING") = {} => next_todo_card(d) = next_todo_card(db)
  BY <1>1, LeaverTodo
<1> HIDE DEF d
<1>6. After(e) \in Seq(Frame)
  BY <1>1, AfterType
<1>7. \A g \in Frames(After(e)) :
        \E f \in Frames(stack) : g.card = f.card /\ g.rest \subseteq f.rest
  BY <1>1, AfterFrames
<1>8. FramesOk(d, After(e))
  BY <1>1, <1>3, <1>5, <1>7 DEF FramesOk
<1>9. FramesOk(db', stack') /\ Saying(db', stack', told')
  BY <1>2, <1>3, <1>4, <1>6, <1>8, FreshOffer
<1>10. QED
  BY <1>9, HearNothing DEF Said

\* A handler that leaves the card on offer, whatever its users become, or that
\* leaves none, and calls send_available_card.
LEMMA IdleKeeps ==
  ASSUME OInv, Hear, Idle, NEW d, Consistent(d), RegisteredPorts(d) \subseteq Ports,
         \/ d.offered_card_id = NoCard
         \/ /\ d.offered_card_id = db.offered_card_id
            /\ RegisteredPorts(db) \subseteq RegisteredPorts(d),
         SendAvailableCard(d, <<>>), NoOffer(out')
  PROVE  Said'
<1>1. <<>> \in Seq(Frame) /\ FramesOk(d, <<>>)
  BY FramesEmpty DEF FramesOk
<1>2. Heard(db', out', told')
  BY HearNothing
<1>3. CASE d.offered_card_id = NoCard
  BY <1>1, <1>2, <1>3, FreshOffer DEF Said
<1>4. CASE d.offered_card_id # NoCard
  <2>1. db' = d /\ stack' = <<>>
    BY <1>4 DEF SendAvailableCard, OfferDue
  <2>2. Fits(db, told) /\ \A p \in Ports : ~IsRegistered(db, p) => told[p] = Bare("QUIT")
    BY <1>4, FramesEmpty DEF OInv, Said, Saying, Heard, Idle
  <2>3. \A p \in RegisteredPorts(d) : told'[p] = told[p]
    BY <2>1, HearNothing, RegisteredIff
  <2>4. Voters(d, told') = Voters(db, told)
    <3>1. ASSUME NEW p \in RegisteredPorts(d) \ RegisteredPorts(db)
          PROVE  told[p].type # "AVAILABLE_CARD"
      BY <2>2, RegisteredIff DEF Bare
    <3>2. QED
      BY <1>4, <2>3, <3>1 DEF Voters
  <2>5. Voters(d, told') \subseteq RegisteredPorts(d)
    BY DEF Voters
  <2>6. Fits(d, told')
    BY <2>2, <2>3, <2>4, <2>5 DEF Fits
  <2>7. Saying(db', stack', told')
    BY <2>1, <2>6, FramesEmpty DEF Saying
  <2>8. QED
    BY <1>1, <1>2, <2>1, <2>7 DEF Said
<1>5. QED
  BY <1>3, <1>4

\* A handler after which no card is on offer and no loop is left.
LEMMA NothingOnOffer ==
  ASSUME Hear, stack' = <<>>, db'.offered_card_id = NoCard, NoOffer(out')
  PROVE  Said'
<1>1. FramesOk(db', stack') /\ Saying(db', stack', told')
  BY FramesEmpty DEF FramesOk, Saying
<1>2. QED
  BY <1>1, HearNothing DEF Said

\* A registered user is the process on its socket.
LEMMA SocketOwner ==
  ASSUME NEW d, NEW conn, Wired(d, conn), NEW p, IsRegistered(d, p)
  PROVE  /\ p \in Ports
         /\ socket_from_port(d, p) \in Fds
         /\ conn[socket_from_port(d, p)] = p
BY FindUser DEF Wired, socket_from_port, UserAt

\* When every user has heard what the board would say, what was said fits.
LEMMA AllHeard ==
  ASSUME NEW d, Consistent(d), Sound(d), d.offered_card_id # NoCard, NEW t,
         \A p \in RegisteredPorts(d) : t[p] = AvailableCard(d, d.offered_card_id, p)
  PROVE  Fits(d, t)
<1>1. Cardinality(RegisteredPorts(d)) = d.num_users /\ d.num_users > 1
  BY PortsCounted DEF Sound
<1>2. \A p \in RegisteredPorts(d) : /\ t[p].type = "AVAILABLE_CARD"
                                    /\ t[p].card = d.offered_card_id
                                    /\ t[p].total = d.num_users
                                    /\ t[p].peers = users_list_except(d, p)
  <2>1. ASSUME NEW c, NEW p
        PROVE  LET m == AvailableCard(d, c, p)
               IN  /\ m.type = "AVAILABLE_CARD" /\ m.card = c /\ m.total = d.num_users
                   /\ m.peers = users_list_except(d, p)
    BY DEF AvailableCard
  <2>2. QED
    BY <2>1
<1> DEFINE R == RegisteredPorts(d)
           V == Voters(d, t)
<1>3. V = R
  BY <1>2 DEF Voters
<1>4. Cardinality(V) = d.num_users
  BY <1>1, <1>3
<1>5. Cardinality(V) > 1
  BY <1>1, <1>4
<1> HIDE DEF R, V
<1>6. \A p \in V : t[p].total = Cardinality(V) /\ t[p].peers = V \ {p}
  BY <1>2, <1>3, <1>4 DEF R, users_list_except
<1>7. QED
  BY Zenon, <1>5, <1>6 DEF Fits, V

\* A message of the loop: its user hears it, and no other.
LEMMA SendKeeps ==
  ASSUME OInv, Hear, Running("offer"), NEW e \in Least(Head(stack).rest),
         SendOk(socket_from_port(db, e[2])),
         out' = {<<socket_from_port(db, e[2]), AvailableCard(db, Head(stack).card, e[2])>>},
         stack' = After(e), db' = db
  PROVE  Said'
<1> DEFINE h == Head(stack)
           p == e[2]
           fd == socket_from_port(db, p)
           m == AvailableCard(db, h.card, p)
           R == RegisteredPorts(db)
<1>1. /\ Consistent(db) /\ Sound(db) /\ Wired(db, peer)
      /\ FramesOk(db, stack) /\ Saying(db, stack, told) /\ Heard(db, out, told)
      /\ stack \in Seq(Frame) /\ stack # <<>> /\ h.op = "offer"
  BY DEF OInv, Said, WiredInv, IInv, Good, ControlTyped, Running
<1>2. h \in Frames(stack) /\ e \in h.rest
  BY <1>1, AfterFrames DEF Least
<1>3. e[1] = p /\ h.card = next_todo_card(db) /\ e \in Nat \X Nat
  <2>1. h \in Frame
    BY <1>1
  <2>2. QED
    BY <1>1, <1>2, <2>1 DEF FramesOk, Frame
<1>4. e = <<p, p>>
  BY <1>3
<1>5. fd \in Fds /\ IsRegistered(db, p)
  BY IdsAssumption DEF SendOk, IsOpen, socket_from_port, Missing
<1>6. p \in Ports /\ R \subseteq Ports
  BY <1>1, <1>5, SocketOwner, WiredPorts
<1>7. \A q \in R : socket_from_port(db, q) = fd <=> q = p
  BY <1>1, <1>5, SocketOwner, RegisteredIff
<1>8. out' = {<<fd, m>>} /\ m.type = "AVAILABLE_CARD"
  BY DEF AvailableCard
<1> HIDE DEF fd, m
<1>9. \A q \in Ports : told'[q] = IF q \notin R THEN Bare("QUIT")
                                  ELSE IF q = p THEN m ELSE told[q]
  <2>1. ASSUME NEW q \in R PROVE Offers(q) = IF q = p THEN {m} ELSE {}
    <3> DEFINE x == <<fd, m>>
               X == {y \in out' : y[1] = socket_from_port(db', q) /\ y[2].type = "AVAILABLE_CARD"}
    <3>1. x[1] = fd /\ x[2] = m
      OBVIOUS
    <3>2. out' = {x} /\ socket_from_port(db', q) = socket_from_port(db, q)
      BY <1>8
    <3> HIDE DEF x
    <3>3. X = IF q = p THEN {x} ELSE {}
      BY <1>7, <1>8, <3>1, <3>2
    <3>4. Offers(q) = {y[2] : y \in X}
      BY DEF Offers
    <3> HIDE DEF X
    <3>5. QED
      BY <3>1, <3>3, <3>4
  <2>2. (CHOOSE x \in {m} : TRUE) = m
    OBVIOUS
  <2> HIDE DEF Offers
  <2>3. ASSUME NEW q \in Ports
        PROVE  told'[q] = IF q \notin R THEN Bare("QUIT") ELSE IF q = p THEN m ELSE told[q]
    <3>1. told'[q] = IF ~IsRegistered(db', q) THEN Bare("QUIT")
                     ELSE IF Offers(q) = {} THEN told[q]
                     ELSE CHOOSE x \in Offers(q) : TRUE
      BY DEF Hear
    <3>2. q \in R <=> IsRegistered(db', q)
      <4>1. db' = db
        OBVIOUS
      <4>2. q \in R <=> IsRegistered(db, q)
        BY RegisteredIff
      <4>3. QED
        BY <4>1, <4>2
    <3>3. CASE q \notin R
      BY <3>1, <3>2, <3>3
    <3>4. CASE q \in R /\ q = p
      BY <2>1, <2>2, <3>1, <3>2, <3>4
    <3>5. CASE q \in R /\ q # p
      BY <2>1, <3>1, <3>2, <3>5
    <3>6. QED
      BY <3>3, <3>4, <3>5
  <2>4. QED
    BY <2>3
<1>10. Heard(db', out', told')
  <2>1. \A q \in R : socket_from_port(db, q) = fd => told'[q] = m
    BY <1>6, <1>7, <1>9
  <2>2. \A q \in Ports : ~IsRegistered(db, q) => told'[q] = Bare("QUIT")
    BY <1>9, RegisteredIff
  <2>3. \A x \in out' : x[1] = fd /\ x[2] = m
    BY <1>8
  <2> HIDE DEF R
  <2>4. \A q \in RegisteredPorts(db) : socket_from_port(db, q) = fd => told'[q] = m
    BY <2>1 DEF R
  <2>5. Heard(db, out', told')
    BY <2>2, <2>3, <2>4 DEF Heard
  <2>6. QED
    BY <2>5
<1>11. /\ \A g \in Frames(stack') :
            \E f \in Frames(stack) : g.card = f.card /\ g.rest \subseteq f.rest
       /\ \A f \in Frames(stack) : \A x \in f.rest :
            x # e => \E g \in Frames(stack') : x \in g.rest
  BY <1>1, AfterFrames
<1>12. FramesOk(db', stack')
  BY <1>1, <1>11 DEF FramesOk
<1>13. Saying(db', stack', told')
  <2>1. SUFFICES ASSUME db.offered_card_id # NoCard PROVE Saying(db, stack', told')
    BY DEF Saying
  <2>2. db.offered_card_id = h.card
    BY <1>1, <1>2, <1>3, <2>1 DEF FramesOk
  <2>3. ASSUME NEW q \in R
        PROVE  q \in Pending(stack') \/ told'[q] = AvailableCard(db, db.offered_card_id, q)
    <3>1. CASE q = p
      BY <1>6, <1>9, <2>2, <3>1 DEF m
    <3>2. CASE q # p
      <4>1. q \in Pending(stack) \/ told[q] = AvailableCard(db, db.offered_card_id, q)
        BY <1>1, <1>2, <2>1 DEF Saying
      <4>2. q \in Pending(stack) => q \in Pending(stack')
        BY <1>4, <1>11, <3>2 DEF Pending
      <4>3. told'[q] = told[q]
        BY <1>6, <1>9, <3>2
      <4>4. QED
        BY <4>1, <4>2, <4>3
    <3>3. QED
      BY <3>1, <3>2
  <2>4. CASE Frames(stack') = {}
    <3>1. Pending(stack') = {}
      BY <2>4 DEF Pending
    <3>2. Fits(db, told')
      BY <1>1, <2>1, <2>3, <3>1, AllHeard
    <3>3. QED
      BY <2>4, <3>2 DEF Saying
  <2>5. CASE Frames(stack') # {}
    BY <2>3, <2>5 DEF Saying
  <2>6. QED
    BY <2>4, <2>5
<1>14. QED
  BY <1>10, <1>12, <1>13 DEF Said

\* Every step leaves what was said fit, or on its way.
LEMMA SaidNext == ASSUME OneHello, OInv, Hear, [Next]_vars PROVE Said'
<1>1. /\ Consistent(db) /\ Wired(db, peer) /\ IInv /\ WiredInv /\ Said
      /\ stack \in Seq(Frame) /\ RegisteredPorts(db) \subseteq Ports
  BY WiredPorts DEF OInv, WiredInv, IInv, Good, ControlTyped
<1>2. SameBoard(db, db)
  BY DEF SameBoard
<1>3. ASSUME Calm(db, db'), Frames(stack') = Frames(stack), out' = out \/ NoOffer(out')
      PROVE  Said'
  BY <1>3, QuietKeeps DEF Calm
<1>4. ASSUME db' = db, Frames(stack') = Frames(stack), out' = out \/ NoOffer(out')
      PROVE  Said'
  BY <1>2, <1>4, QuietKeeps
<1>5. NoOffer({}) /\ \A fd : NoOffer({<<fd, Bare("QUIT")>>}) /\ NoOffer({<<fd, Bare("PING_USER")>>})
  BY DEF NoOffer, Bare
<1>6. \A fd, p : NoOffer({<<fd, UserList(db, p)>>})
  BY DEF NoOffer, UserList
<1>7. ASSUME NEW port, DisconnectUser(port, <<>>), Idle, NoOffer(out')
      PROVE  Said'
  <2> DEFINE d == Leaver(db, port)
  <2>1. Consistent(d) /\ d.offered_card_id = NoCard /\ RegisteredPorts(d) \subseteq Ports
    BY <1>1, LeaverDoing, WiredLeave, WiredPorts
  <2>2. SendAvailableCard(d, <<>>)
    BY <1>7 DEF DisconnectUser, Leaver
  <2> HIDE DEF d
  <2>3. QED
    BY <1>7, <2>1, <2>2, IdleKeeps
<1>8. ASSUME NEW d, Consistent(d), SameWires(db, d), d.offered_card_id \in {NoCard, db.offered_card_id},
             SendAvailableCard(d, <<>>), Idle, NoOffer(out')
      PROVE  Said'
  <2>1. RegisteredPorts(d) = RegisteredPorts(db)
    BY <1>8, SameSockets
  <2>2. QED
    BY <1>1, <1>8, <2>1, IdleKeeps
<1>9. CASE Loops
  <2>1. CASE OfferStep
    <3>1. stack # <<>>
      BY <2>1 DEF OfferStep, Running
    <3>2. PICK e \in Least(Head(stack).rest) :
                 \/ /\ SendOk(socket_from_port(db, e[2]))
                    /\ out' = {<<socket_from_port(db, e[2]), AvailableCard(db, Head(stack).card, e[2])>>}
                    /\ stack' = After(e)
                    /\ UNCHANGED <<db, peer, gone>>
                 \/ /\ out' = {}
                    /\ DisconnectUser(e[2], After(e))
      BY <2>1 DEF OfferStep
    <3>3. CASE DisconnectUser(e[2], After(e)) /\ out' = {}
      BY <1>5, <3>1, <3>3, LeaveKeeps
    <3>4. QED
      BY <2>1, <3>2, <3>3, SendKeeps DEF OfferStep
  <2>2. CASE WorkStep
    <3>1. stack # <<>> /\ Head(stack).op = "work"
      BY <2>2 DEF WorkStep, Running
    <3>2. PICK e : \/ /\ \E fd : SendPing(fd) \/ PingRefused(fd)
                      /\ stack' = After(e)
                   \/ DisconnectUser(db.cards[e[2]].assigned_user_port, After(e)) /\ out' = {}
      BY <2>2 DEF WorkStep
    <3>3. CASE DisconnectUser(db.cards[e[2]].assigned_user_port, After(e)) /\ out' = {}
      BY <1>5, <3>1, <3>3, LeaveKeeps
    <3>4. ASSUME NEW fd, SendPing(fd) \/ PingRefused(fd), stack' = After(e)
          PROVE  Said'
      <4>1. Calm(db, db') /\ NoOffer(out')
        BY <1>1, <1>5, <3>4, PingCalm DEF SendPing, PingRefused
      <4>2. Frames(stack') = Frames(stack)
        BY <1>1, <3>1, <3>4, AfterFrames
      <4>3. QED
        BY <1>3, <4>1, <4>2
    <3>5. QED
      BY <3>2, <3>3, <3>4
  <2>3. CASE CheckPingStep
    <3> DEFINE h == [op |-> "evict", card |-> NoCard,
                     rest |-> {<<i, db.users[i].port>> : i \in TimedOutUsers(db)}]
    <3>1. h \in Frame /\ h.op = "evict"
      BY <1>1, EvictType
    <3>2. stack' = Tail(stack) \/ stack' = <<h>> \o Tail(stack)
      BY <2>3 DEF CheckPingStep
    <3> HIDE DEF h
    <3>3. Head(stack) \in Frame /\ Tail(stack) \in Seq(Frame)
          /\ stack = <<Head(stack)>> \o Tail(stack) /\ Head(stack).op = "check_ping"
      BY <1>1, <2>3 DEF CheckPingStep, Running
    <3>4. Frames(stack) = OfferOf(Head(stack)) \cup Frames(Tail(stack))
      BY <3>3, FramesCons
    <3>5. Frames(<<h>> \o Tail(stack)) = OfferOf(h) \cup Frames(Tail(stack))
      BY <3>1, <3>3, FramesCons
    <3>6. Frames(stack') = Frames(stack)
      BY <3>1, <3>2, <3>3, <3>4, <3>5 DEF OfferOf
    <3>7. QED
      BY <1>4, <1>5, <2>3, <3>6 DEF CheckPingStep
  <2>4. CASE EvictStep
    <3>1. stack # <<>>
      BY <2>4 DEF EvictStep, Running
    <3>2. PICK e : /\ \/ \E fd : out' = {<<fd, Bare("QUIT")>>}
                      \/ out' = {}
                   /\ DisconnectUser(e[2], After(e))
      BY <2>4 DEF EvictStep
    <3>3. QED
      BY <1>5, <3>1, <3>2, LeaveKeeps
  <2>5. QED
    BY <1>9, <2>1, <2>2, <2>3, <2>4 DEF Loops
<1>10. CASE Connections
  <2>1. ASSUME NEW port, Accept(port) PROVE Said'
    BY <1>4, <1>5, <2>1 DEF Accept
  <2>2. ASSUME NEW fd, PeerGone(fd) PROVE Said'
    BY <1>4, <2>2 DEF PeerGone
  <2>3. ASSUME NEW fd, ClientClosed(fd) PROVE Said'
    BY <1>4, <1>5, <1>7, <2>3 DEF ClientClosed, Refuse
  <2>4. ASSUME NEW fd, HandlerRefuses(fd) PROVE Said'
    BY <1>4, <1>5, <2>4 DEF HandlerRefuses, Refuse
  <2>5. QED
    BY <1>10, <2>1, <2>2, <2>3, <2>4 DEF Connections
<1>11. CASE Messages
  <2>1. ASSUME NEW fd \in Fds, NEW port \in Ports, HandleHello(fd, port)
        PROVE  Said'
    <3>1. CASE CanAddUser(db, port)
      <4> DEFINE d == add_user(db, fd, port)
      <4>1. SendAvailableCard(d, <<>>) /\ Idle /\ out' = {}
        BY <2>1, <3>1 DEF HandleHello
      <4>2. Consistent(d) /\ d.offered_card_id = db.offered_card_id
        BY <1>1, <3>1, AddUserConsistent
      <4>3. PICK i \in Slots \ UsedSlots(db) :
                   /\ UsedSlots(d) = UsedSlots(db) \cup {i}
                   /\ d.users[i].port = port
                   /\ \A j \in UsedSlots(db) : d.users[j] = db.users[j]
        BY <1>1, <3>1, AddUserWrites
      <4> HIDE DEF d
      <4>4. RegisteredPorts(d) \subseteq Ports /\ RegisteredPorts(db) \subseteq RegisteredPorts(d)
        BY <1>1, <4>3 DEF RegisteredPorts
      <4>5. QED
        BY <1>5, <4>1, <4>2, <4>4, IdleKeeps
    <3>2. CASE ~CanAddUser(db, port)
      BY <1>4, <1>5, <2>1, <3>2 DEF HandleHello, Refuse
    <3>3. QED
      BY <3>1, <3>2
  <2>2. ASSUME NEW fd, NEW id, NEW column \in CreateColumns, HandleCreateCard(fd, id, column)
        PROVE  Said'
    <3> DEFINE d == create_card(db, id, column)
    <3>1. SendAvailableCard(d, <<>>) /\ Idle /\ out' = {} /\ CanCreate(db, id)
      BY <2>2 DEF HandleCreateCard, From
    <3>2. Consistent(d) /\ d.offered_card_id = db.offered_card_id /\ SameWires(db, d)
      BY <1>1, <3>1, InputsAssumption, CreateConsistent, CardWires
    <3> HIDE DEF d
    <3>3. QED
      BY <1>5, <1>8, <3>1, <3>2
  <2>3. ASSUME NEW fd, HandleUserList(fd) PROVE Said'
    BY <1>4, <1>6, <2>3 DEF HandleUserList
  <2>4. ASSUME NEW fd, NEW c \in CardIds, HandleAckCard(fd, c) PROVE Said'
    <3>1. stack' = <<>> /\ out' = {} /\ db'.offered_card_id = NoCard
      <4> DEFINE d == card_doing(db, UserPort(fd), c)
      <4>1. Consistent(d)
        BY <1>1, <2>4, TakeConsistent, LookupTypes DEF HandleAckCard, UserPort
      <4>2. db' = clear_offered_card(d)
        BY <2>4 DEF HandleAckCard
      <4> HIDE DEF d
      <4>3. QED
        BY <2>4, <4>1, <4>2, ClearOfferConsistent DEF HandleAckCard, From, Idle
    <3>2. QED
      BY <1>5, <3>1, NothingOnOffer
  <2>5. ASSUME NEW fd, NEW c \in CardIds, HandleCardDone(fd, c) PROVE Said'
    <3> DEFINE d == card_done(db, UserPort(fd), c)
    <3>1. /\ SendAvailableCard(d, <<>>) /\ Idle /\ out' = {}
          /\ CanFinish(db, UserPort(fd), c)
      BY <2>5 DEF HandleCardDone, From
    <3>2. Consistent(d) /\ d.offered_card_id = db.offered_card_id /\ SameWires(db, d)
      BY <1>1, <3>1, FinishConsistent, CardWires
    <3> HIDE DEF d
    <3>3. QED
      BY <1>5, <1>8, <3>1, <3>2
  <2>6. ASSUME NEW fd, HandleQuit(fd) PROVE Said'
    BY <1>5, <1>7, <2>6 DEF HandleQuit, From
  <2>7. ASSUME NEW fd, HandlePong(fd) PROVE Said'
    <3> DEFINE d == card_reset_timestamp(db, UserPort(fd))
               e == user_clear_ping(d, UserPort(fd))
    <3>1. Consistent(d) /\ SameBoard(db, d) /\ SameCards(db, d)
      BY <1>1, ResetTimestampConsistent, ResetSameBoard
    <3> HIDE DEF d
    <3>2. SameBoard(d, e) /\ SameCards(d, e)
      BY <3>1, PingSameBoard, PingConsistent
    <3>3. db' = e /\ out' = {} /\ stack' = stack
      BY <2>7 DEF HandlePong, d
    <3> HIDE DEF e
    <3>4. Calm(db, e)
      BY <3>1, <3>2 DEF Calm, SameBoard, SameCards
    <3>5. QED
      BY <1>3, <1>5, <3>3, <3>4
  <2>8. QED
    BY <1>11, <2>1, <2>2, <2>3, <2>4, <2>5, <2>6, <2>7 DEF Messages
<1>12. CASE Commands
  <2>1. ASSUME NEW c \in CardIds, NEW column \in MoveColumns, NEW port \in Ports \cup {NoPort},
               MoveCard(c, column, port)
        PROVE  Said'
    <3> DEFINE f == move_card(db, c, column, port)
               d == clear_offered_card(f)
    <3>1. SendAvailableCard(d, <<>>) /\ Idle /\ out' = {} /\ CanMove(db, c, column, port)
      BY <2>1 DEF MoveCard
    <3>2. Consistent(f) /\ SameWires(db, f)
      BY <1>1, <3>1, InputsAssumption, MoveConsistent, CardWires
    <3> HIDE DEF f
    <3>3. Consistent(d) /\ d.offered_card_id = NoCard /\ SameWires(f, d)
      BY <3>2, ClearOfferConsistent, OfferedWires
    <3> HIDE DEF d
    <3>4. SameWires(db, d)
      BY <3>2, <3>3 DEF SameWires
    <3>5. QED
      BY <1>5, <1>8, <3>1, <3>3, <3>4
  <2>2. ASSUME NEW port, SendUserList(port) PROVE Said'
    BY <1>4, <1>6, <2>2 DEF SendUserList
  <2>3. ASSUME NEW port, PingUser(port) PROVE Said'
    <3>1. Calm(db, db') /\ NoOffer(out')
      BY <1>1, <1>5, <2>3, PingCalm DEF PingUser, SendPing
    <3>2. QED
      BY <1>3, <2>3, <3>1 DEF PingUser
  <2>4. CASE AskOffer
    BY <1>1, <1>5, <2>4, IdleKeeps DEF AskOffer
  <2>5. QED
    BY <1>12, <2>1, <2>2, <2>3, <2>4 DEF Commands
<1>13. CASE CheckTimeout
  <2>1. stack' = <<CheckPing>> \/ stack' = <<WorkLoop, CheckPing>>
    BY <1>13 DEF CheckTimeout
  <2>2. Frames(stack') = {}
    BY <2>1 DEF Frames, CheckPing, WorkLoop
  <2>3. QED
    BY <1>4, <1>5, <1>13, <2>2, FramesEmpty DEF CheckTimeout, Idle
<1>14. CASE Tick
  <2>1. Calm(db, db')
    BY <1>1, <1>14, TimeSameBoard, TimeConsistent DEF Tick, Calm, SameCards
  <2>2. QED
    BY <1>3, <1>14, <2>1 DEF Tick
<1>15. CASE UNCHANGED vars
  BY <1>4, <1>15 DEF vars
<1>16. QED
  BY <1>9, <1>10, <1>11, <1>12, <1>13, <1>14, <1>15 DEF Next

\* OInv holds at the start, and every step keeps it.
LEMMA OInvInit == OffersInit => OInv
<1> SUFFICES ASSUME OffersInit PROVE OInv
  OBVIOUS
<1>1. /\ IInv /\ db = DatabaseInit /\ stack = <<>> /\ out = {}
      /\ told = [p \in Ports |-> Bare("QUIT")]
  BY InitInv DEF OffersInit, Init
<1>2. UsedSlots(db) = {} /\ db.offered_card_id = NoCard
  BY <1>1 DEF DatabaseInit, UsedSlots, FreeSlot
<1>3. Wired(db, peer)
  BY <1>2 DEF Wired
<1>4. FramesOk(db, stack) /\ Saying(db, stack, told)
  BY <1>1, <1>2, FramesEmpty DEF FramesOk, Saying
<1>5. Heard(db, out, told)
  BY <1>1 DEF Heard
<1>6. QED
  BY <1>1, <1>3, <1>4, <1>5 DEF OInv, WiredInv, Said

\* What the board has said to its users fits together when it rests: those who
\* know of the card on offer are two or more, each told of all the others.
THEOREM OffersFit == OneHello => (OffersSpec => []OfferCoherent)
<1> SUFFICES ASSUME OneHello PROVE OffersSpec => []OfferCoherent
  OBVIOUS
<1>1. OffersInit => OInv
  BY OInvInit
<1>2. OInv /\ [OffersNext]_<<vars, told>> => OInv'
  <2> SUFFICES ASSUME OInv, [OffersNext]_<<vars, told>> PROVE OInv'
    OBVIOUS
  <2>1. [Next]_vars
    BY DEF OffersNext
  <2>2. WiredInv'
    BY <2>1, WiredNext, NextInv DEF OInv, WiredInv
  <2>3. Said'
    <3>1. CASE OffersNext
      BY <2>1, <3>1, SaidNext DEF OffersNext
    <3>2. CASE UNCHANGED <<vars, told>>
      <4>1. db' = db /\ stack' = stack /\ out' = out /\ told' = told
        BY <3>2 DEF vars
      <4>2. QED
        BY <4>1 DEF OInv, Said
    <3>3. QED
      BY <3>1, <3>2
  <2>4. QED
    BY <2>2, <2>3 DEF OInv
<1>3. OInv => OfferCoherent
  <2> SUFFICES ASSUME OInv, Idle, db.offered_card_id # NoCard
               PROVE  /\ Cardinality(Electors) > 1
                      /\ \A p \in Electors : /\ told[p].total = Cardinality(Electors)
                                             /\ told[p].peers = Electors \ {p}
    BY DEF OfferCoherent
  <2>1. Fits(db, told)
    BY FramesEmpty DEF OInv, Said, Saying, Idle
  <2>2. Electors = Voters(db, told)
    BY DEF Electors, Voters
  <2>3. QED
    BY <2>1, <2>2 DEF Fits
<1>4. QED
  BY <1>1, <1>2, <1>3, PTL DEF OffersSpec
=============================================================================
