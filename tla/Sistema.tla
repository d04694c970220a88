------------------------------- MODULE Sistema -------------------------------
(***************************************************************************)
(* The whole system: the board of module Lavagna and the processes of      *)
(* module Utente, joined by their connections.  A board step takes its     *)
(* input from what a user has sent, and what it sends reaches that user;   *)
(* a user that connects, closes or dies does so at both ends.              *)
(***************************************************************************)
EXTENDS Lavagna

CONSTANTS Costs,      \* bound: the costs rand() draws
          Typed,      \* the commands typed on the terminals, see module Utente
          Faults,     \* the failures that happen, see module Utente
          Mortal,     \* bound: the processes that may be signalled or killed
          QUEUE,      \* bound: relayed commands left unread
          TimePasses, \* the board's timeouts run
          Prompt      \* the work outlasts the messages of the vote before it

ASSUME SystemAssumption == TimePasses \in BOOLEAN /\ Prompt \in BOOLEAN

VARIABLES utente, main, p2p, worker, loose, stop,  \* the users, see module Utente
          toUser, toBoard, eof, wire               \* the channels

U == INSTANCE Utente WITH Users <- Ports

userVars == <<utente, main, p2p, worker, loose, stop>>
channels == <<toUser, toBoard, eof, wire>>
allVars == <<vars, userVars, channels>>

-----------------------------------------------------------------------------
(* The channels of the board.                                              *)

Connected == {peer[fd] : fd \in Fds} \ {NoPort}

Sent(p) == {e[2] : e \in {x \in out' : peer[x[1]] = p /\ x[1] \notin gone}}

\* A step of the board in which it reads a message of each port of "read".
\* What it sends goes to whom it was connected to before the step; closing a
\* connection drops what was unread.
Carry(read) ==
  /\ toUser' = [p \in Ports |-> IF Sent(p) = {} THEN toUser[p]
                                ELSE Append(toUser[p], CHOOSE m \in Sent(p) : TRUE)]
  /\ toBoard' = [p \in Ports |-> IF p \notin Connected' THEN <<>>
                                 ELSE IF p \in read THEN Tail(toBoard[p])
                                 ELSE toBoard[p]]
  /\ eof' = eof \cup (Connected \ Connected')
  /\ UNCHANGED <<userVars, wire>>

HasMessage(fd) == IsOpen(fd) /\ toBoard[peer[fd]] # <<>>

NextMessage(fd) == Head(toBoard[peer[fd]])

\* A handler that refuses what it is asked prints a line and changes nothing.
Ignored(fd, ok) == From(fd) /\ ~ok /\ out' = {} /\ UNCHANGED <<db, peer, gone, stack>>

\* handle_client: the next message on fd, whatever it is.  A user's first is HELLO,
\* which registers it or closes its connection: no other finds it unknown.
HandleMessage(fd) ==
  LET m == NextMessage(fd)
      p == UserPort(fd)
  IN  \/ m.type = "HELLO" /\ HandleHello(fd, peer[fd])
      \/ /\ m.type = "CREATE_CARD"
         /\ \/ HandleCreateCard(fd, 0, "TODO")
            \/ Ignored(fd, CanCreate(db, 0))
      \/ /\ m.type = "ACK_CARD"
         /\ \/ HandleAckCard(fd, m.card)
            \/ Ignored(fd, db.offered_card_id = m.card /\ CanTake(db, p, m.card))
      \/ /\ m.type = "CARD_DONE"
         /\ \/ HandleCardDone(fd, m.card)
            \/ Ignored(fd, CanFinish(db, p, m.card))
      \/ m.type = "PONG_LAVAGNA" /\ HandlePong(fd)
      \/ m.type = "QUIT" /\ HandleQuit(fd)

ServeClient(fd) == /\ HasMessage(fd)
                   /\ HandleMessage(fd)
                   /\ Carry({peer[fd]})

\* The end of a connection is read after all that was sent on it.
ServeEnd(fd) == /\ ~HasMessage(fd)
                /\ ClientClosed(fd)
                /\ Carry({})

LoopStep == Loops /\ Carry({})

TimeStep == /\ TimePasses
            /\ \/ CheckTimeout /\ Carry({})
               \/ Tick /\ UNCHANGED <<userVars, channels>>

-----------------------------------------------------------------------------
(* The users.                                                              *)

\* client_connect_to_server, accepted at once.
UserConnects(p) == /\ U!Connect(p)
                   /\ Accept(p)

\* The process closes its socket, or dies with it.
Leaves(p) == /\ IF \E fd \in Fds : peer[fd] = p
                THEN \E fd \in Fds : peer[fd] = p /\ PeerGone(fd)
                ELSE UNCHANGED vars
             /\ U!CloseUser(p) \/ U!Kill(p)

\* A step of a user that the board does not see.  No message of the board is
\* new any more.
Alone == out' = {} /\ UNCHANGED <<db, peer, gone, stack>>

UserStarts(p) == Alone /\ (U!StartUser(p) \/ U!P2PStarted(p) \/ U!SendHello(p) \/ U!SetIdle(p))

UserRuns(p) == Alone /\ (U!Receive(p) \/ U!Pending(p) \/ U!SeeStop(p) \/ U!SendQuit(p) \/ U!Exit(p))

UserTypes(p) == Alone /\ U!Terminal(p)

UserListens(p) == Alone /\ U!P2PThread(p)

\* The offers and the costs of a vote are all received.
Voted == /\ wire = {}
         /\ \A p \in Ports : U!Runs(p) =>
              /\ main[p].at # "broadcast"
              /\ \A i \in DOMAIN toUser[p] : toUser[p][i].type # "AVAILABLE_CARD"

\* The work takes five seconds or more, a vote less than one.
UserWorks(p) == Alone /\ \/ U!WorkerBegins(p)
                         \/ (Prompt => Voted) /\ (U!WorkerWakes(p) \/ U!LooseWorkerRuns(p))

UserStep(p) == UserConnects(p) \/ UserStarts(p) \/ UserRuns(p) \/ UserTypes(p) \/ UserListens(p)
                 \/ UserWorks(p) \/ Leaves(p) \/ (Alone /\ U!Signal(p))

-----------------------------------------------------------------------------
SystemInit == Init /\ U!Init

BoardStep == LoopStep \/ TimeStep \/ \E fd \in Fds : ServeClient(fd) \/ ServeEnd(fd)

SystemNext == BoardStep \/ \E p \in Ports : UserStep(p)

SystemSpec == SystemInit /\ [][SystemNext]_allVars

\* A handler goes on to its end, and the board comes back to select between two
\* checks of its timeouts as long as there is something to serve.
BoardFairness == /\ WF_allVars(LoopStep)
                 /\ SF_allVars(\E fd \in Fds : ServeClient(fd) \/ ServeEnd(fd))

\* All the users are started, and the threads of every process run.
SystemFairness ==
  /\ BoardFairness
  /\ \A p \in Ports : /\ WF_allVars(UserStarts(p) \/ UserConnects(p))
                      /\ WF_allVars(UserRuns(p))
                      /\ WF_allVars(Alone /\ (U!P2PReady(p) \/ U!P2PEnds(p) \/ U!Hear(p)))
                      /\ WF_allVars(UserWorks(p))

FairSystem == SystemSpec /\ SystemFairness

-----------------------------------------------------------------------------
(* Properties.                                                             *)

Holds(p, c) == utente[p].card_id = c /\ utente[p].state \in {"ACK_PENDING", "WORKING", "DONE_PENDING"}

\* Of all the users, each counting for itself costs that reach it in its own
\* order, at most one takes itself for the winner (doc.md:26).
OneWinner == Cardinality({p \in Ports : \E c \in CardIds : Holds(p, c)}) <= 1

OnItsWay(p, c) == \E i \in DOMAIN toBoard[p] : toBoard[p][i] = U!FromUser("CARD_DONE", c)

Leaving(p) == main[p].at \in {"quit", "leaving", "closing", "ended", "killed"}

\* A card the board shows in DOING is one its user works on, or is about to
\* report; or its user is going, however it goes, and the board has still to read
\* the end of its connection.  Nothing else would ever move the card (doc.md:26).
DoingIsReal == \A c \in InColumn(db, "DOING") :
                 LET p == db.cards[c].assigned_user_port
                 IN  \/ Holds(p, c)
                     \/ main[p].at = "join" /\ main[p].card = c
                     \/ OnItsWay(p, c)
                     \/ Leaving(p) /\ \E fd \in Fds : peer[fd] = p

\* "Worker active on the assigned card" (utente_state.h:13): a user works on what
\* the board has given it, or its ACK_CARD has not been read yet.
WorkIsGiven == \A p \in Ports : utente[p].state = "WORKING" /\ ~(p \in eof) =>
                 \/ WorksOn(p, utente[p].card_id)
                 \/ \E i \in DOMAIN toBoard[p] :
                      toBoard[p][i] = U!FromUser("ACK_CARD", utente[p].card_id)

AtWork(p, c) == p \notin eof /\ Holds(p, c) /\ utente[p].state = "WORKING" /\ main[p].at # "start"

\* The user at work on each card.
AtWorkOn == [c \in CardIds |-> IF \E p \in Ports : AtWork(p, c)
                               THEN CHOOSE p \in Ports : AtWork(p, c) ELSE NoPort]

\* The card's work has ended, and the board knows or is about to.
Ended(p, c) == \/ utente[p].state = "DONE_PENDING" /\ utente[p].card_id = c
               \/ main[p].at = "join" /\ main[p].card = c
               \/ OnItsWay(p, c)

Finished == {c \in CardIds : c \in InColumn(db, "DONE") \/ \E p \in Ports : Ended(p, c)}

Work == INSTANCE SharedWork WITH worker <- AtWorkOn, finished <- Finished

\* Each card is worked on once and by one user, one card at a time, also when the
\* costs of a vote are slower than the work (doc.md:26).
WorkedOnce == Work!Init /\ [][Work!Next]_(Work!vars)

\* The cards are shared out one at a time, none is worked on twice, and all are
\* worked on in the end: once the users have started, nothing more is needed.
SharesWork == Work!Spec

AllDone == \A c \in UsedCards(db) : db.cards[c].status = "DONE"

\* As long as two users stay, every card ends in DONE (doc.md:26).
WorkEnds == <>[]AllDone
=============================================================================
