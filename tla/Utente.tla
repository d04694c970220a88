-------------------------------- MODULE Utente --------------------------------
(***************************************************************************)
(* The user processes (src/utente.c, p2p_thread.c, p2p_utils.c,            *)
(* worker_thread.c and client.c), each with three threads over the state   *)
(* of module UserState: the main thread, which talks to the board and the  *)
(* terminal; the P2P thread, which receives the other users' costs; the    *)
(* worker, which sleeps and reports the end of the work.                   *)
(*                                                                         *)
(* A step is what a thread does from one point where another thread or     *)
(* process can be noticed to the next.  Here the board is any process that *)
(* sends the messages of the protocol; module Sistema puts Lavagna there.  *)
(***************************************************************************)
EXTENDS UserState, Sequences

CONSTANTS Users,     \* the ports where a process runs; the others are only named
          Typed,     \* the commands typed on the terminals, see Commands
          Faults,    \* the failures that happen, see FaultKinds
          Mortal,    \* bound: the processes that may be signalled or killed
          QUEUE      \* bound: messages the environment leaves unread

Commands == {"HELLO", "CREATE_CARD", "PONG_LAVAGNA",
             "CHOOSE_USER", "ACK_CARD", "CARD_DONE", "QUIT"}

FaultKinds == {"BIND",      \* the P2P port is taken
               "CONNECT",   \* the board does not accept the connection
               "P2P",       \* server_run fails in the P2P thread
               "SIGNAL"}    \* SIGINT or SIGTERM

ASSUME UsersAssumption == /\ Users \subseteq Ports
                          /\ Typed \subseteq Commands
                          /\ Faults \subseteq FaultKinds
                          /\ Mortal \subseteq Users
                          /\ QUEUE \in Nat

VARIABLES utente,   \* utente[p]: the state shared by the threads of p
          main,     \* main[p]: where the main thread is, and what it holds
          p2p,      \* p2p[p]: the P2P thread
          worker,   \* worker[p]: the thread worker_thread names
          loose,    \* loose[p]: the detached workers that still run
          stop,     \* the users whose flag "running" is 0
          toUser,   \* toUser[p]: from the board, not yet read by p
          toBoard,  \* toBoard[p]: from p, not yet read by the board
          eof,      \* the users whose connection the board has closed
          wire      \* the costs sent to a P2P port and not yet received

threads == <<utente, main, p2p, worker, loose, stop>>
links == <<toUser, toBoard, eof, wire>>
vars == <<threads, links>>

-----------------------------------------------------------------------------
(* Values.                                                                 *)

Choose == [to : Ports, from : Ports, card : CardIds, cost : Costs]

At(at) == [at |-> at, card |-> NoCard, send |-> {}]

Places == {"off", "starting", "connecting", "hello", "idle", "listen", "server", "broadcast",
           "pending", "mark", "start", "join", "quit", "leaving", "closing", "ended", "killed"}

NoWorker == [at |-> "none", card |-> NoCard]

Workers == [at : {"none", "new", "asleep", "ended"}, card : CardIds \cup {NoCard}]

FromUser(type, card) == [type |-> type, card |-> card]

UserMessage == [type : {"HELLO", "CREATE_CARD", "PONG_LAVAGNA", "ACK_CARD", "CARD_DONE", "QUIT"},
                card : CardIds \cup {NoCard}]

BoardMessage == [type : {"AVAILABLE_CARD", "SEND_USER_LIST", "PING_USER", "QUIT"},
                 card : CardIds \cup {NoCard}, total : Int, peers : SUBSET (Ports \cup {NoPort})]

\* No field ever leaves its range, nor does a thread hold another thread's value.
TypeOK == /\ utente \in [Users -> Utenti]
          /\ main \in [Users -> [at : Places, card : CardIds \cup {NoCard}, send : SUBSET Choose]]
          /\ p2p \in [Users -> {"none", "starting", "serving", "ended"}]
          /\ worker \in [Users -> Workers]
          /\ loose \in [Users -> SUBSET Workers]
          /\ stop \subseteq Users
          /\ toUser \in [Users -> Seq(BoardMessage)]
          /\ toBoard \in [Users -> Seq(UserMessage)]
          /\ eof \subseteq Ports
          /\ wire \subseteq Choose

-----------------------------------------------------------------------------
(* What the steps share.                                                   *)

SetUser(p, u) == utente' = [utente EXCEPT ![p] = u]

Goto(p, place) == main' = [main EXCEPT ![p] = place]

Becomes(p, w) == worker' = [worker EXCEPT ![p] = w]

\* send_message to the board, then "ok", or "fail" if it returned -1.  What is
\* sent on a connection the board has closed is lost, noticed or not.
Send(p, m, ok, fail) ==
  \/ /\ p \notin eof
     /\ toBoard' = [toBoard EXCEPT ![p] = Append(@, m)]
     /\ Goto(p, ok)
  \/ /\ p \in eof
     /\ UNCHANGED toBoard
     /\ \E place \in {ok, fail} : Goto(p, place)

\* p2p_broadcast_choose: one connection per peer; where no server listens the
\* cost is lost.
Reachable(msgs) == {m \in msgs : m.to \in Users /\ p2p[m.to] = "serving"}

CostsTo(p, peers, card, cost) ==
  {[to |-> q, from |-> p, card |-> card, cost |-> cost] : q \in peers}

Alive(w) == w.at \in {"new", "asleep"}

\* The worker's handle is lost: nobody awaits it any more.
LetGo(p) == loose' = [loose EXCEPT ![p] = @ \cup {w \in {worker[p]} : Alive(w)}]

Runs(p) == main[p].at \notin {"off", "ended", "killed"}

\* The places from which run_pending_actions is reached.
Pass == {"listen", "server", "pending"}

\* The loop of main tests "running" before client_listen, and only there.
InPass(p, places) == main[p].at \in places /\ (main[p].at = "listen" => p \notin stop)

-----------------------------------------------------------------------------
(* Start.                                                                  *)

StartUserAlone(p) ==  \* variant: does not wait for the P2P server
  /\ main[p].at = "off"
  /\ SetUser(p, update_state(utente_init, "CONNECTING"))
  /\ p2p' = [p2p EXCEPT ![p] = "starting"]
  /\ Goto(p, At("connecting"))
  /\ UNCHANGED <<worker, loose, stop, links>>

\* start_p2p_on_port: utente_init, and the P2P thread created.
StartUser(p) == /\ main[p].at = "off"
                /\ SetUser(p, utente_init)
                /\ p2p' = [p2p EXCEPT ![p] = "starting"]
                /\ Goto(p, At("starting"))
                /\ UNCHANGED <<worker, loose, stop, links>>

P2PStartedAnyway(p) ==  \* variant: whether the server is ready or not
  /\ main[p].at = "starting"
  /\ utente[p].state # "STARTING_P2P"
  /\ Goto(p, At("connecting"))
  /\ UNCHANGED <<utente, p2p, worker, loose, stop, links>>

\* It polls the state until the thread has left STARTING_P2P.
P2PStarted(p) == /\ main[p].at = "starting"
                 /\ utente[p].state # "STARTING_P2P"
                 /\ \/ /\ utente[p].state = "CONNECTING"
                       /\ Goto(p, At("connecting"))
                    \/ /\ utente[p].state # "CONNECTING"
                       /\ p2p[p] = "ended"
                       /\ Goto(p, At("ended"))
                 /\ UNCHANGED <<utente, p2p, worker, loose, stop, links>>

\* client_destroy and STATE_DISCONNECTING, before the P2P thread is awaited.
GiveUp(p) == /\ SetUser(p, update_state(utente[p], "DISCONNECTING"))
             /\ Goto(p, At("closing"))

Connect(p) == /\ main[p].at = "connecting"
              /\ Goto(p, At("hello"))
              /\ UNCHANGED <<utente, p2p, worker, loose, stop, links>>

ConnectFails(p) == /\ main[p].at = "connecting"
                   /\ "CONNECT" \in Faults
                   /\ GiveUp(p)
                   /\ UNCHANGED <<p2p, worker, loose, stop, links>>

SendHello(p) == /\ main[p].at = "hello"
                /\ \/ /\ Send(p, FromUser("HELLO", NoCard), At("idle"), At("idle"))
                      /\ UNCHANGED utente
                   \/ /\ p \in eof
                      /\ GiveUp(p)
                      /\ UNCHANGED toBoard
                /\ UNCHANGED <<p2p, worker, loose, stop, toUser, eof, wire>>

SetIdle(p) == /\ main[p].at = "idle"
              /\ SetUser(p, update_state(utente[p], "IDLE"))
              /\ Goto(p, At("listen"))
              /\ UNCHANGED <<p2p, worker, loose, stop, links>>

-----------------------------------------------------------------------------
(* handle_server: one message of the board, or the end of the connection.  *)

Message(p) == Head(toUser[p])

Read(p) == /\ InPass(p, {"listen", "server"})
           /\ toUser[p] # <<>>
           /\ toUser' = [toUser EXCEPT ![p] = Tail(@)]

\* handle_available_card: the cost is drawn and counted, then sent to the others.
ReceiveAvailableCard(p) ==
  /\ Read(p)
  /\ Message(p).type = "AVAILABLE_CARD"
  /\ LET m == Message(p)
     IN  \/ /\ m.total \in 2 .. MAX_USERS
            /\ \E n \in Costs :
                 /\ SetUser(p, start_election(utente[p], p, m.card, m.total, m.peers, n))
                 /\ Goto(p, [At("broadcast") EXCEPT !.send = CostsTo(p, m.peers, m.card, n)])
         \/ /\ m.total \notin 2 .. MAX_USERS
            /\ Goto(p, At("quit"))
            /\ UNCHANGED utente
  /\ UNCHANGED <<p2p, worker, loose, stop, toBoard, eof, wire>>

\* Some milliseconds later.
Broadcast(p) == /\ main[p].at = "broadcast"
                /\ wire' = wire \cup Reachable(main[p].send)
                /\ Goto(p, At("pending"))
                /\ UNCHANGED <<utente, p2p, worker, loose, stop, toUser, toBoard, eof>>

ReceivePing(p) == /\ Read(p)
                  /\ Message(p).type = "PING_USER"
                  /\ Send(p, FromUser("PONG_LAVAGNA", NoCard), At("pending"), At("quit"))
                  /\ UNCHANGED <<utente, p2p, worker, loose, stop, eof, wire>>

ReceiveUserList(p) == /\ Read(p)
                      /\ Message(p).type = "SEND_USER_LIST"
                      /\ Goto(p, At("pending"))
                      /\ UNCHANGED <<utente, p2p, worker, loose, stop, toBoard, eof, wire>>

ReceiveQuit(p) == /\ Read(p)
                  /\ Message(p).type = "QUIT"
                  /\ Goto(p, At("quit"))
                  /\ UNCHANGED <<utente, p2p, worker, loose, stop, toBoard, eof, wire>>

\* The end of the connection, once all that came before it is read.
ReceiveEnd(p) == /\ InPass(p, {"listen", "server"})
                 /\ p \in eof
                 /\ toUser[p] = <<>>
                 /\ Goto(p, At("quit"))
                 /\ UNCHANGED <<utente, p2p, worker, loose, stop, links>>

-----------------------------------------------------------------------------
(* run_pending_actions.                                                    *)

TakeAck(p) == /\ InPass(p, Pass)
              /\ CanAck(utente[p])
              /\ Send(p, FromUser("ACK_CARD", utente[p].card_id), At("mark"), At("quit"))
              /\ UNCHANGED <<utente, p2p, worker, loose, stop, toUser, eof, wire>>

\* utente_start_worker: refused while a worker has not been joined.
StartWorker(p, u, next) ==
  \/ /\ CanStart(u)
     /\ SetUser(p, start_worker(u))
     /\ LetGo(p)
     /\ Becomes(p, [at |-> "new", card |-> NoCard])
     /\ Goto(p, At(next))
  \/ /\ ~CanStart(u)
     /\ SetUser(p, u)
     /\ Goto(p, At("quit"))
     /\ UNCHANGED <<worker, loose>>

MarkWorking(p) == /\ main[p].at = "mark"
                  /\ StartWorker(p, mark_working(utente[p]), "pending")
                  /\ UNCHANGED <<p2p, stop, links>>

TakeDoneLate(p) ==  \* variant: reads the card after the state is released
  /\ InPass(p, Pass)
  /\ CanFinish(utente[p])
  /\ SetUser(p, take_done(utente[p]))
  /\ Goto(p, At("join"))
  /\ UNCHANGED <<p2p, worker, loose, stop, links>>

\* The state is released at once, the worker awaited after.
TakeDone(p) == /\ InPass(p, Pass)
               /\ CanFinish(utente[p])
               /\ SetUser(p, take_done(utente[p]))
               /\ Goto(p, [At("join") EXCEPT !.card = utente[p].card_id])
               /\ UNCHANGED <<p2p, worker, loose, stop, links>>

\* utente_wait_for_worker_shutdown.
Joinable(p) == utente[p].worker_started => worker[p].at = "ended"

JoinWorker(p) == /\ main[p].at = "join"
                 /\ Joinable(p)
                 /\ SetUser(p, worker_joined(utente[p]))
                 /\ Becomes(p, NoWorker)
                 /\ Send(p, FromUser("CARD_DONE", main[p].card), At("listen"), At("quit"))
                 /\ UNCHANGED <<p2p, loose, stop, toUser, eof, wire>>

EndPass(p) == /\ main[p].at \in {"server", "pending"}
              /\ ~CanAck(utente[p])
              /\ ~CanFinish(utente[p])
              /\ Goto(p, At("listen"))
              /\ UNCHANGED <<utente, p2p, worker, loose, stop, links>>

-----------------------------------------------------------------------------
(* handle_stdin_message: what is typed at the terminal.  A pass reads one  *)
(* command, then one message of the board.                                 *)

Types(p, command) == command \in Typed /\ InPass(p, {"listen"})

\* HELLO, CREATE_CARD and PONG_LAVAGNA are only passed on.
TypeRelayed(p, command) ==
  /\ Types(p, command)
  /\ command \in {"HELLO", "CREATE_CARD", "PONG_LAVAGNA"}
  /\ Len(toBoard[p]) < QUEUE
  /\ Send(p, FromUser(command, NoCard), At("server"), At("quit"))
  /\ UNCHANGED <<utente, p2p, worker, loose, stop, toUser, eof, wire>>

\* The cost typed, or the one drawn for the last offer.
TypeChooseUser(p) ==
  /\ Types(p, "CHOOSE_USER")
  /\ utente[p].card_id # NoCard
  /\ utente[p].peer_ports # {}
  /\ \E cost \in Costs : 
       wire' = wire \cup Reachable(CostsTo(p, utente[p].peer_ports, utente[p].card_id, cost))
  /\ Goto(p, At("server"))
  /\ UNCHANGED <<utente, p2p, worker, loose, stop, toUser, toBoard, eof>>

TypeAckCard(p) ==
  /\ Types(p, "ACK_CARD")
  /\ CanAckManually(utente[p])
  /\ SetUser(p, take_manual_ack(utente[p]))
  /\ Send(p, FromUser("ACK_CARD", utente[p].card_id), At("start"), At("quit"))
  /\ UNCHANGED <<p2p, worker, loose, stop, toUser, eof, wire>>

StartAfterAck(p) == /\ main[p].at = "start"
                    /\ StartWorker(p, utente[p], "server")
                    /\ UNCHANGED <<p2p, stop, links>>

TypeCardDone(p) ==
  /\ Types(p, "CARD_DONE")
  /\ CanFinishManually(utente[p])
  /\ SetUser(p, take_manual_done(utente[p]))
  /\ IF utente[p].worker_started
     THEN Becomes(p, NoWorker) /\ LetGo(p)
     ELSE UNCHANGED <<worker, loose>>
  /\ Send(p, FromUser("CARD_DONE", utente[p].card_id), At("server"), At("quit"))
  /\ UNCHANGED <<p2p, stop, toUser, eof, wire>>

TypeQuit(p) == /\ Types(p, "QUIT")
               /\ stop' = stop \cup {p}
               /\ Send(p, FromUser("QUIT", NoCard), At("server"), At("server"))
               /\ UNCHANGED <<utente, p2p, worker, loose, toUser, eof, wire>>

-----------------------------------------------------------------------------
(* The P2P thread.                                                         *)

P2PReady(p) == /\ p2p[p] = "starting"
               /\ p2p' = [p2p EXCEPT ![p] = "serving"]
               /\ SetUser(p, update_state(utente[p], "CONNECTING"))
               /\ UNCHANGED <<main, worker, loose, stop, links>>

LeaveP2P(p) == /\ p2p' = [p2p EXCEPT ![p] = "ended"]
               /\ SetUser(p, update_state(utente[p], "SHUTTING_DOWN"))
               /\ UNCHANGED <<main, worker, loose, stop, links>>

\* The port was taken, or server_run has failed.
P2PFails(p) == /\ \/ p2p[p] = "starting" /\ "BIND" \in Faults
                  \/ p2p[p] = "serving" /\ "P2P" \in Faults
               /\ LeaveP2P(p)

P2PEndsDeaf(p) == /\ p2p[p] = "serving"  \* variant: waits for STATE_SHUTTING_DOWN only
                  /\ utente[p].state = "SHUTTING_DOWN"
                  /\ LeaveP2P(p)

\* The loop has seen that the user stops.
P2PEnds(p) == /\ p2p[p] = "serving"
              /\ utente[p].state \in {"DISCONNECTING", "SHUTTING_DOWN"}
              /\ LeaveP2P(p)

\* handle_peer_message: connections are served in any order.
Deliver(p, m) == /\ p2p[p] = "serving"
                 /\ m.to = p
                 /\ wire' = wire \ {m}
                 /\ SetUser(p, record_choice(utente[p], p, m.card, m.from, m.cost))
                 /\ UNCHANGED <<main, p2p, worker, loose, stop, toUser, toBoard, eof>>

-----------------------------------------------------------------------------
(* The workers.  The card is read when the thread first runs.              *)

WorkerBegins(p) == /\ worker[p].at = "new"
                   /\ Becomes(p, [at |-> "asleep", card |-> utente[p].card_id])
                   /\ UNCHANGED <<utente, main, p2p, loose, stop, links>>

WorkerWakes(p) == /\ worker[p].at = "asleep"
                  /\ SetUser(p, mark_done_pending(utente[p], worker[p].card))
                  /\ Becomes(p, [worker[p] EXCEPT !.at = "ended"])
                  /\ UNCHANGED <<main, p2p, loose, stop, links>>

LooseWorkerRuns(p) ==
  \E w \in loose[p] :
    \/ /\ w.at = "new"
       /\ loose' = [loose EXCEPT ![p] = (@ \ {w}) \cup {[at |-> "asleep", card |-> utente[p].card_id]}]
       /\ UNCHANGED <<utente, main, p2p, worker, stop, links>>
    \/ /\ w.at = "asleep"
       /\ loose' = [loose EXCEPT ![p] = @ \ {w}]
       /\ SetUser(p, mark_done_pending(utente[p], w.card))
       /\ UNCHANGED <<main, p2p, worker, stop, links>>

-----------------------------------------------------------------------------
(* The end.                                                                *)

\* The loop of main finds running = 0, or STATE_SHUTTING_DOWN.
SeeStop(p) == /\ main[p].at = "listen"
              /\ p \in stop \/ utente[p].state = "SHUTTING_DOWN"
              /\ Goto(p, At("quit"))
              /\ UNCHANGED <<utente, p2p, worker, loose, stop, links>>

SendQuit(p) == /\ main[p].at = "quit"
               /\ Send(p, FromUser("QUIT", NoCard), At("leaving"), At("leaving"))
               /\ UNCHANGED <<utente, p2p, worker, loose, stop, toUser, eof, wire>>

\* The worker is awaited, the connection closed, the P2P thread told.
CloseUser(p) == /\ main[p].at = "leaving"
                /\ Joinable(p)
                /\ SetUser(p, update_state(worker_joined(utente[p]), "DISCONNECTING"))
                /\ Becomes(p, NoWorker)
                /\ Goto(p, At("closing"))
                /\ UNCHANGED <<p2p, loose, stop, links>>

\* main returns: the process ends, and with it the detached workers.
Exit(p) == /\ main[p].at = "closing"
           /\ p2p[p] = "ended"
           /\ Goto(p, At("ended"))
           /\ loose' = [loose EXCEPT ![p] = {}]
           /\ wire' = {m \in wire : m.to # p}
           /\ UNCHANGED <<utente, p2p, worker, stop, toUser, toBoard, eof>>

Signal(p) == /\ "SIGNAL" \in Faults
             /\ Runs(p)
             /\ p \in Mortal
             /\ stop' = stop \cup {p}
             /\ UNCHANGED <<utente, main, p2p, worker, loose, links>>

\* The process dies where it stands, having sent some of its costs; what it had
\* sent to the board is still to be read there.
Kill(p) == /\ Runs(p)
           /\ p \in Mortal
           /\ Goto(p, At("killed"))
           /\ SetUser(p, utente_init)
           /\ p2p' = [p2p EXCEPT ![p] = "ended"]
           /\ Becomes(p, NoWorker)
           /\ loose' = [loose EXCEPT ![p] = {}]
           /\ \E sent \in SUBSET Reachable(main[p].send) :
                wire' = {m \in wire \cup sent : m.to # p}
           /\ toUser' = [toUser EXCEPT ![p] = <<>>]
           /\ UNCHANGED <<stop, toBoard, eof>>

-----------------------------------------------------------------------------
(* The environment of the processes when the board is not modelled.        *)

BoardSends(p, m) == /\ Len(toUser[p]) < QUEUE
                    /\ Len(toBoard[p]) < QUEUE
                    /\ p \notin eof
                    /\ toUser' = [toUser EXCEPT ![p] = Append(@, m)]
                    /\ UNCHANGED <<threads, toBoard, eof, wire>>

BoardReads(p) == /\ toBoard[p] # <<>>
                 /\ toBoard' = [toBoard EXCEPT ![p] = Tail(@)]
                 /\ UNCHANGED <<threads, toUser, eof, wire>>

BoardCloses(p) == /\ p \notin eof
                  /\ eof' = eof \cup {p}
                  /\ UNCHANGED <<threads, toUser, toBoard, wire>>

\* A process that is not modelled sends its cost.
PeerSends(m) == /\ m.from \notin Users
                /\ p2p[m.to] = "serving"
                /\ Cardinality(wire) < QUEUE
                /\ wire' = wire \cup {m}
                /\ UNCHANGED <<threads, toUser, toBoard, eof>>

-----------------------------------------------------------------------------
Init == /\ utente = [p \in Users |-> utente_init]
        /\ main = [p \in Users |-> At("off")]
        /\ p2p = [p \in Users |-> "none"]
        /\ worker = [p \in Users |-> NoWorker]
        /\ loose = [p \in Users |-> {}]
        /\ stop = {}
        /\ toUser = [p \in Users |-> <<>>]
        /\ toBoard = [p \in Users |-> <<>>]
        /\ eof = {}
        /\ wire = {}

Starting(p) == StartUser(p) \/ P2PStarted(p) \/ Connect(p) \/ ConnectFails(p) \/ SendHello(p)
                 \/ SetIdle(p)

Receive(p) == ReceiveAvailableCard(p) \/ ReceivePing(p) \/ ReceiveUserList(p) \/ ReceiveQuit(p)
                \/ ReceiveEnd(p)

Pending(p) == Broadcast(p) \/ TakeAck(p) \/ MarkWorking(p) \/ TakeDone(p) \/ JoinWorker(p)
                \/ StartAfterAck(p) \/ EndPass(p)

Ending(p) == SeeStop(p) \/ SendQuit(p) \/ CloseUser(p) \/ Exit(p)

Terminal(p) == \/ \E command \in Commands : TypeRelayed(p, command)
               \/ TypeChooseUser(p) \/ TypeAckCard(p) \/ TypeCardDone(p) \/ TypeQuit(p)

MainThread(p) == Receive(p) \/ Pending(p) \/ Ending(p)

Hear(p) == \E m \in wire : Deliver(p, m)

P2PThread(p) == P2PReady(p) \/ P2PFails(p) \/ P2PEnds(p) \/ Hear(p)

WorkerThreads(p) == WorkerBegins(p) \/ WorkerWakes(p) \/ LooseWorkerRuns(p)

UserStep(p) == Starting(p) \/ MainThread(p) \/ Terminal(p) \/ P2PThread(p) \/ WorkerThreads(p)
                 \/ Signal(p) \/ Kill(p)

\* What a board may send: an offer counts the users it names and the receiver.
Sent(p) == {[type |-> t, card |-> NoCard, total |-> 0, peers |-> {}]
              : t \in {"PING_USER", "QUIT", "SEND_USER_LIST"}}
             \cup {[type |-> "AVAILABLE_CARD", card |-> c, total |-> Cardinality(S) + 1, peers |-> S]
                     : c \in CardIds, S \in SUBSET (Ports \ {p})}

Environment == \/ \E p \in Users : \/ \E m \in Sent(p) : BoardSends(p, m)
                                   \/ BoardReads(p) \/ BoardCloses(p)
               \/ \E q \in Users, r \in Ports, c \in CardIds, n \in Costs :
                    PeerSends([to |-> q, from |-> r, card |-> c, cost |-> n])

Next == (\E p \in Users : UserStep(p)) \/ Environment

Spec == Init /\ [][Next]_vars

\* Every thread runs, select reports again what is not read, a sleep ends; the
\* terminal, the signals and the faults may do nothing.
ThreadFairness(p) == /\ WF_vars(P2PStarted(p) \/ Connect(p) \/ SendHello(p) \/ SetIdle(p))
                     /\ WF_vars(MainThread(p))
                     /\ SF_vars(Receive(p))
                     /\ WF_vars(P2PReady(p) \/ P2PEnds(p))
                     /\ WF_vars(Hear(p))
                     /\ WF_vars(WorkerBegins(p) \/ WorkerWakes(p))

FairSpec == Spec /\ \A p \in Users : ThreadFairness(p)

-----------------------------------------------------------------------------
(* Properties.                                                             *)

Live(p) == {worker[p]} \cup loose[p]

\* A user never works twice at once (utente_state.c:301), whatever the board
\* offers while its worker sleeps and whatever thread runs first.
OneWorker == \A p \in Users : Cardinality({w \in Live(p) : Alive(w)}) <= 1

\* While its worker sleeps a user goes on answering the board (doc.md:11): the
\* main thread awaits it only to exit.
NotBlocked == \A p \in Users : main[p].at = "join" => ~Alive(worker[p])

LastSent(p) == toBoard'[p][Len(toBoard'[p])]

Sends(p, type) == /\ Len(toBoard'[p]) > Len(toBoard[p])
                  /\ LastSent(p).type = type

\* CARD_DONE leaves by itself only after the worker of that very card has run
\* to its end (utente.c:335).
DoneAfterWork ==
  [][\A p \in Users : Sends(p, "CARD_DONE") /\ main[p].at = "join" =>
       worker[p] = [at |-> "ended", card |-> LastSent(p).card]]_vars

\* A user registers when it can hear the others, not before (utente.c:361).
HelloWhenListening ==
  [][\A p \in Users : Sends(p, "HELLO") /\ main[p].at = "hello" => p2p[p] = "serving"]_vars

\* What closes the P2P server closes the user (utente_state.h:16): no thread
\* overwrites the state by which it says so with one of a user that goes on.
ShutdownHeeded ==
  [][\A p \in Users : utente[p].state = "SHUTTING_DOWN" =>
       \/ utente'[p].state \in {"SHUTTING_DOWN", "DISCONNECTING"}
       \/ main'[p].at = "killed"]_vars

\* QUIT, a signal, the board's QUIT or the end of its connection: the process
\* ends, all its threads with it.
StopsWhenAsked == \A p \in Users :
  (p \in stop \/ (p \in eof /\ main[p].at = "listen")) ~> ~Runs(p)
=============================================================================
