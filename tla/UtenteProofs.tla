----------------------------- MODULE UtenteProofs -----------------------------
(***************************************************************************)
(* The user processes: the invariants of module Utente for every number of *)
(* processes, cards and costs, whatever the board and the other processes  *)
(* send and in whatever order the threads run.                             *)
(*                                                                         *)
(* The first part is about the operators of module UserState: what each    *)
(* leaves of the fields the invariants read.  The rest follows the steps   *)
(* of the threads, one lemma for each part of the invariant.               *)
(***************************************************************************)
EXTENDS Utente, FiniteSetTheorems, TLAPS

-----------------------------------------------------------------------------
(* The critical sections.                                                  *)

\* Ids are not taken for the absence of a card, nor ports for that of a port.
LEMMA Absent == NoCard \notin CardIds /\ NoPort \notin Ports /\ Users \subseteq Ports
BY UserAssumption, UsersAssumption DEF NoCard, NoPort

\* A user starts with no card.
LEMMA InitTyped == /\ utente_init \in Utenti
                   /\ utente_init.state = "STARTING_P2P"
                   /\ utente_init.card_id = NoCard
                   /\ ~utente_init.worker_started
BY DEF utente_init, Utenti, UtenteState

\* Only the state changes.
LEMMA UpdateTyped ==
  ASSUME NEW u \in Utenti, NEW state \in UtenteState
  PROVE  /\ update_state(u, state) \in Utenti
         /\ update_state(u, state).state = state
         /\ update_state(u, state).card_id = u.card_id
         /\ update_state(u, state).worker_started = u.worker_started
BY DEF update_state, Utenti

\* The card is let go of, the worker is not.
LEMMA ReleasedTyped ==
  ASSUME NEW u \in Utenti
  PROVE  /\ Released(u) \in Utenti
         /\ Released(u).state = "IDLE"
         /\ Released(u).card_id = NoCard
         /\ Released(u).worker_started = u.worker_started
<1>1. \A zero \in Int :
        LET v == [u EXCEPT !.state = "IDLE", !.card_id = NoCard, !.total_users = zero,
                           !.peer_ports = {}, !.choices = {}]
        IN  /\ v \in Utenti /\ v.state = "IDLE" /\ v.card_id = NoCard
            /\ v.worker_started = u.worker_started
  BY DEF Utenti, UtenteState
<1>2. 0 \in Int
  OBVIOUS
<1>3. QED BY <1>1, <1>2, Zenon DEF Released

\* The table holds costs of ports.
LEMMA AddTyped ==
  ASSUME NEW choices \in SUBSET (Ports \X Costs), NEW port \in Ports, NEW cost \in Costs
  PROVE  add_choice(choices, port, cost) \in SUBSET (Ports \X Costs)
BY DEF add_choice

\* The vote ends for a user that is choosing, and for no other.
LEMMA EvaluateTyped ==
  ASSUME NEW u \in Utenti, NEW me
  PROVE  \/ evaluate_election(u, me) = u
         \/ /\ u.state = "CHOOSING"
            /\ \/ evaluate_election(u, me) = update_state(u, "ACK_PENDING")
               \/ evaluate_election(u, me) = Released(u)
BY DEF evaluate_election, AllArrived

\* An offer leaves the user choosing, or with the vote ended: for that card.
LEMMA StartTyped ==
  ASSUME NEW u \in Utenti, NEW me \in Ports, NEW card \in CardIds, NEW total \in Int,
         NEW peers \in SUBSET Ports, NEW cost \in Costs
  PROVE  LET v == start_election(u, me, card, total, peers, cost)
         IN  /\ v \in Utenti
             /\ v.worker_started = u.worker_started
             /\ \/ v.state \in {"CHOOSING", "ACK_PENDING"} /\ v.card_id = card
                \/ v.state = "IDLE" /\ v.card_id = NoCard
<1> DEFINE kept == IF u.card_id = card THEN u.choices ELSE {}
           w == [u EXCEPT !.card_id = card, !.total_users = total, !.peer_ports = peers,
                          !.own_cost = cost, !.state = "CHOOSING",
                          !.choices = add_choice(kept, me, cost)]
<1>1. add_choice(kept, me, cost) \in SUBSET (Ports \X Costs)
  <2>1. kept \in SUBSET (Ports \X Costs)
    BY DEF Utenti
  <2> HIDE DEF kept
  <2> QED BY <2>1, AddTyped
<1>2. /\ w \in Utenti /\ w.state = "CHOOSING" /\ w.card_id = card
      /\ w.worker_started = u.worker_started
  <2> HIDE DEF kept
  <2> QED BY <1>1 DEF Utenti, UtenteState
<1>3. start_election(u, me, card, total, peers, cost) = evaluate_election(w, me)
  BY DEF start_election
<1> HIDE DEF w
<1>4. QED BY <1>2, <1>3, EvaluateTyped, UpdateTyped, ReleasedTyped DEF UtenteState

\* A cost changes the card of a user that has none, or ends the vote.
LEMMA RecordTyped ==
  ASSUME NEW u \in Utenti, NEW me \in Ports, NEW card \in CardIds, NEW port \in Ports,
         NEW cost \in Costs
  PROVE  LET v == record_choice(u, me, card, port, cost)
         IN  /\ v \in Utenti
             /\ v.worker_started = u.worker_started
             /\ \/ v.state = u.state /\ (u.card_id = NoCard \/ v.card_id = u.card_id)
                \/ /\ u.state = "CHOOSING"
                   /\ \/ v.state = "ACK_PENDING" /\ v.card_id # NoCard
                      \/ v.state = "IDLE" /\ v.card_id = NoCard
<1> DEFINE w == [u EXCEPT !.card_id = card, !.choices = add_choice(u.choices, port, cost)]
<1>1. /\ w \in Utenti /\ w.state = u.state /\ w.card_id = card
      /\ w.worker_started = u.worker_started
  <2>1. u.choices \in SUBSET (Ports \X Costs)
    BY DEF Utenti
  <2>2. add_choice(u.choices, port, cost) \in SUBSET (Ports \X Costs)
    BY <2>1, AddTyped
  <2> QED BY <2>2 DEF Utenti
<1>2. record_choice(u, me, card, port, cost)
        = IF u.card_id \notin {NoCard, card} THEN u ELSE evaluate_election(w, me)
  BY DEF record_choice
<1> HIDE DEF w
<1>3. CASE u.card_id \notin {NoCard, card}
  BY <1>2, <1>3
<1>4. CASE u.card_id \in {NoCard, card}
  BY <1>1, <1>2, <1>4, Absent, EvaluateTyped, UpdateTyped, ReleasedTyped DEF UtenteState
<1> QED BY <1>3, <1>4

\* The end of a work is noted for the card the user works on, or not at all.
LEMMA DoneTyped ==
  ASSUME NEW u \in Utenti, NEW card
  PROVE  LET v == mark_done_pending(u, card)
         IN  /\ v \in Utenti
             /\ v.card_id = u.card_id
             /\ v.worker_started = u.worker_started
             /\ \/ v.state = u.state
                \/ u.state = "WORKING" /\ v.state = "DONE_PENDING" /\ u.card_id = card
BY UpdateTyped DEF mark_done_pending, UtenteState

\* Only the note that there is a worker changes.
LEMMA WorkerTyped ==
  ASSUME NEW u \in Utenti
  PROVE  /\ start_worker(u) \in Utenti
         /\ start_worker(u) = [u EXCEPT !.worker_started = TRUE]
         /\ worker_joined(u) \in Utenti
         /\ worker_joined(u) = [u EXCEPT !.worker_started = FALSE]
BY DEF start_worker, worker_joined, Utenti

-----------------------------------------------------------------------------
(* The invariants.                                                         *)

\* What a board may have put on a connection: an offer names a card and ports.
WellSent == {m \in BoardMessage :
               m.type = "AVAILABLE_CARD" => m.card \in CardIds /\ m.peers \subseteq Ports}

TInv == TypeOK /\ toUser \in [Users -> Seq(WellSent)]

\* The P2P thread is created by the main thread, which awaits its first word.
AwaitsP2P(p) ==
  p2p[p] = "starting" => main[p].at = "starting" /\ utente[p].state = "STARTING_P2P"

\* The handle of the worker and the note that there is one come and go together.
Counted(p) == /\ utente[p].worker_started <=> worker[p].at # "none"
              /\ main[p].at = "off" => worker[p].at = "none"
              /\ loose[p] = {}

\* A user that votes or works has a card, and has one until it is marked so.
HasCard(p) ==
  /\ utente[p].state \in {"CHOOSING", "ACK_PENDING", "WORKING", "DONE_PENDING"} =>
       utente[p].card_id # NoCard
  /\ main[p].at = "mark" => /\ utente[p].state \in {"ACK_PENDING", "SHUTTING_DOWN"}
                            /\ utente[p].card_id # NoCard

\* The work is over: the worker of the card has run to its end, for as long as
\* the user holds the card, and after that while the main thread awaits it.
Worked(p) ==
  /\ utente[p].state = "DONE_PENDING" =>
       worker[p] = [at |-> "ended", card |-> utente[p].card_id]
  /\ main[p].at = "join" => /\ worker[p] = [at |-> "ended", card |-> main[p].card]
                            /\ utente[p].state \in {"IDLE", "SHUTTING_DOWN"}

Working(p) == AwaitsP2P(p) /\ Counted(p) /\ HasCard(p) /\ Worked(p)

WInv == TInv /\ \A p \in Users : Working(p)

\* The P2P server closes for good before the user registers or after it stops.
Closed(p) ==
  /\ utente[p].state = "SHUTTING_DOWN" =>
       p2p[p] = "ended" /\ main[p].at \in {"starting", "closing", "ended"}
  /\ utente[p].state = "DISCONNECTING" => main[p].at \in {"closing", "ended"}

\* A user that goes on to connect has heard that its P2P server listens.
Listens(p) ==
  /\ main[p].at = "starting" /\ utente[p].state = "CONNECTING" => p2p[p] = "serving"
  /\ main[p].at \in {"connecting", "hello"} =>
       p2p[p] = "serving" /\ utente[p].state = "CONNECTING"

Registers(p) == AwaitsP2P(p) /\ Closed(p) /\ Listens(p)

LInv == TInv /\ \A p \in Users : Registers(p)

-----------------------------------------------------------------------------
(* Types.                                                                  *)

Main == [at : Places, card : CardIds \cup {NoCard}, send : SUBSET Choose]

\* A step of p leaves the others alone, and its own values in their ranges.
UtenteMine(p) == utente' = [utente EXCEPT ![p] = utente'[p]] /\ utente'[p] \in Utenti
MainMine(p) == main' = [main EXCEPT ![p] = main'[p]] /\ main'[p] \in Main
P2PMine(p) == /\ p2p' = [p2p EXCEPT ![p] = p2p'[p]]
              /\ p2p'[p] \in {"none", "starting", "serving", "ended"}
WorkerMine(p) == worker' = [worker EXCEPT ![p] = worker'[p]] /\ worker'[p] \in Workers
LooseMine(p) == loose' = [loose EXCEPT ![p] = loose'[p]] /\ loose'[p] \subseteq Workers
ToUserMine(p) == toUser' = [toUser EXCEPT ![p] = toUser'[p]] /\ toUser'[p] \in Seq(WellSent)
ToBoardMine(p) == toBoard' = [toBoard EXCEPT ![p] = toBoard'[p]] /\ toBoard'[p] \in Seq(UserMessage)

Mine(p) == /\ UtenteMine(p) /\ MainMine(p) /\ P2PMine(p) /\ WorkerMine(p) /\ LooseMine(p)
           /\ ToUserMine(p) /\ ToBoardMine(p)
           /\ stop' \subseteq Users
           /\ eof' = eof
           /\ wire' \subseteq Choose

\* What the steps of p start from.
Before(p) == /\ utente \in [Users -> Utenti] /\ utente[p] \in Utenti
             /\ main \in [Users -> Main] /\ main[p] \in Main
             /\ p2p \in [Users -> {"none", "starting", "serving", "ended"}]
             /\ worker \in [Users -> Workers] /\ worker[p] \in Workers
             /\ loose \in [Users -> SUBSET Workers] /\ loose[p] \subseteq Workers
             /\ toUser \in [Users -> Seq(WellSent)] /\ toUser[p] \in Seq(WellSent)
             /\ toBoard \in [Users -> Seq(UserMessage)] /\ toBoard[p] \in Seq(UserMessage)
             /\ stop \subseteq Users
             /\ wire \subseteq Choose

\* That is what TInv says of them.
LEMMA BeforeHolds == ASSUME TInv, NEW p \in Users PROVE Before(p)
BY DEF TInv, TypeOK, Before, Main

\* A place where the main thread holds nothing.
LEMMA AtTyped ==
  ASSUME NEW place \in Places
  PROVE  At(place) \in Main /\ At(place).at = place /\ At(place).card = NoCard
BY DEF At, Main

\* A message without a card, or with the one the user holds.
LEMMA FromUserTyped ==
  ASSUME NEW type \in {"HELLO", "CREATE_CARD", "PONG_LAVAGNA", "ACK_CARD", "CARD_DONE", "QUIT"},
         NEW card \in CardIds \cup {NoCard}
  PROVE  FromUser(type, card) \in UserMessage
BY DEF FromUser, UserMessage

\* Sending adds the message, or nothing, and goes on to one of two places.
LEMMA SendTyped ==
  ASSUME NEW p \in Users, Before(p), NEW m \in UserMessage,
         NEW ok \in Main, NEW fail \in Main, Send(p, m, ok, fail)
  PROVE  /\ MainMine(p) /\ main'[p] \in {ok, fail}
         /\ ToBoardMine(p) /\ toBoard'[p] \in {toBoard[p], Append(toBoard[p], m)}
<1>1. main \in [Users -> Main] /\ toBoard \in [Users -> Seq(UserMessage)]
  BY DEF Before
<1>2. \/ toBoard' = [toBoard EXCEPT ![p] = Append(@, m)]
      \/ toBoard' = toBoard
  BY DEF Send
<1>3. \E place \in {ok, fail} : main' = [main EXCEPT ![p] = place]
  BY DEF Send, Goto
<1>4. main' = [main EXCEPT ![p] = main'[p]] /\ main'[p] \in {ok, fail}
  BY <1>1, <1>3
<1>5. CASE toBoard' = [toBoard EXCEPT ![p] = Append(@, m)]
  BY <1>1, <1>4, <1>5 DEF MainMine, ToBoardMine
<1>6. CASE toBoard' = toBoard
  BY <1>1, <1>4, <1>6 DEF MainMine, ToBoardMine
<1>7. QED BY <1>2, <1>5, <1>6

\* Costs that are sent reach ports.
LEMMA CostsTyped ==
  ASSUME NEW p \in Ports, NEW peers \in SUBSET Ports, NEW card \in CardIds, NEW cost \in Costs
  PROVE  CostsTo(p, peers, card, cost) \subseteq Choose
BY DEF CostsTo, Choose

\* What is left alone stays in its range.
LEMMA Unmoved ==
  ASSUME NEW p \in Users, Before(p)
  PROVE  /\ utente' = utente => UtenteMine(p)
         /\ main' = main => MainMine(p)
         /\ p2p' = p2p => P2PMine(p)
         /\ worker' = worker => WorkerMine(p)
         /\ loose' = loose => LooseMine(p)
         /\ toUser' = toUser => ToUserMine(p)
         /\ toBoard' = toBoard => ToBoardMine(p)
BY DEF Before, UtenteMine, MainMine, P2PMine, WorkerMine, LooseMine, ToUserMine, ToBoardMine

\* So does what a step of p sets to a value in its range.
LEMMA Moved ==
  ASSUME NEW p \in Users, Before(p)
  PROVE  /\ \A u \in Utenti : SetUser(p, u) => UtenteMine(p) /\ utente'[p] = u
         /\ \A place \in Main : Goto(p, place) => MainMine(p) /\ main'[p] = place
         /\ \A w \in Workers : Becomes(p, w) => WorkerMine(p) /\ worker'[p] = w
         /\ \A at \in {"starting", "serving", "ended"} :
              p2p' = [p2p EXCEPT ![p] = at] => P2PMine(p) /\ p2p'[p] = at
         /\ \A S \in SUBSET Workers :
              loose' = [loose EXCEPT ![p] = S] => LooseMine(p) /\ loose'[p] = S
BY DEF Before, UtenteMine, MainMine, P2PMine, WorkerMine, LooseMine, SetUser, Goto, Becomes

\* A process that starts has a new user.
LEMMA Started ==
  ASSUME NEW p \in Users, Before(p), StartUser(p)
  PROVE  /\ UtenteMine(p) /\ utente'[p] = utente_init
         /\ MainMine(p) /\ main'[p] = At("starting")
         /\ P2PMine(p) /\ p2p'[p] = "starting"
<1>1. /\ SetUser(p, utente_init) /\ Goto(p, At("starting"))
      /\ p2p' = [p2p EXCEPT ![p] = "starting"]
  BY DEF StartUser
<1>2. At("starting") \in Main
  BY AtTyped DEF Places
<1>3. UtenteMine(p) /\ utente'[p] = utente_init
  BY ONLY <1>1, InitTyped, Moved, Before(p), p \in Users
<1>4. MainMine(p) /\ main'[p] = At("starting")
  BY ONLY <1>1, <1>2, Moved, Before(p), p \in Users
<1>5. P2PMine(p) /\ p2p'[p] = "starting"
  BY ONLY <1>1, Moved, Before(p), p \in Users
<1>6. QED BY <1>3, <1>4, <1>5

\* Of a process that is killed nothing is left.
LEMMA Killed ==
  ASSUME NEW p \in Users, Before(p), Kill(p)
  PROVE  /\ UtenteMine(p) /\ utente'[p] = utente_init
         /\ MainMine(p) /\ main'[p] = At("killed")
         /\ P2PMine(p) /\ p2p'[p] = "ended"
         /\ WorkerMine(p) /\ worker'[p] = NoWorker
         /\ LooseMine(p) /\ loose'[p] = {}
<1>1. /\ SetUser(p, utente_init) /\ Becomes(p, NoWorker) /\ Goto(p, At("killed"))
      /\ p2p' = [p2p EXCEPT ![p] = "ended"] /\ loose' = [loose EXCEPT ![p] = {}]
  BY DEF Kill
<1>2. At("killed") \in Main
  BY AtTyped DEF Places
<1>3. UtenteMine(p) /\ utente'[p] = utente_init
  BY ONLY <1>1, InitTyped, Moved, Before(p), p \in Users
<1>4. MainMine(p) /\ main'[p] = At("killed")
  BY ONLY <1>1, <1>2, Moved, Before(p), p \in Users
<1>5. P2PMine(p) /\ p2p'[p] = "ended"
  BY ONLY <1>1, Moved, Before(p), p \in Users
<1>6. WorkerMine(p) /\ worker'[p] = NoWorker
  <2>1. NoWorker \in Workers
    BY DEF NoWorker, Workers
  <2>2. QED BY ONLY <1>1, <2>1, Moved, Before(p), p \in Users
<1>7. LooseMine(p) /\ loose'[p] = {}
  BY ONLY <1>1, Moved, Before(p), p \in Users
<1>8. QED BY <1>3, <1>4, <1>5, <1>6, <1>7

\* Reading takes the first message, which is one a board sends.
LEMMA ReadTyped ==
  ASSUME NEW p \in Users, Before(p), Read(p)
  PROVE  ToUserMine(p) /\ Message(p) \in WellSent
BY DEF Before, Read, Message, ToUserMine

\* The steps before the loop.
LEMMA StartingMine ==
  ASSUME NEW p \in Users, Before(p), Starting(p)
  PROVE  Mine(p)
<1> USE Absent, Unmoved, Moved, AtTyped DEF Mine, links, Places
<1>1. utente[p] \in Utenti /\ stop \subseteq Users /\ wire \subseteq Choose
  BY DEF Before
<1>2. CASE StartUser(p)
  BY <1>1, <1>2, Started DEF StartUser
<1>3. CASE P2PStarted(p)
  BY <1>1, <1>3 DEF P2PStarted
<1>4. CASE Connect(p)
  BY <1>1, <1>4 DEF Connect
<1>5. CASE ConnectFails(p)
  BY <1>1, <1>5, UpdateTyped DEF ConnectFails, GiveUp, UtenteState
<1>6. CASE SendHello(p)
  <2>1. FromUser("HELLO", NoCard) \in UserMessage
    BY FromUserTyped
  <2>2. CASE Send(p, FromUser("HELLO", NoCard), At("idle"), At("idle")) /\ UNCHANGED utente
    BY <1>1, <1>6, <2>1, <2>2, SendTyped DEF SendHello
  <2>3. CASE GiveUp(p) /\ UNCHANGED toBoard
    BY <1>1, <1>6, <2>3, UpdateTyped DEF SendHello, GiveUp, UtenteState
  <2>4. QED BY <1>6, <2>2, <2>3 DEF SendHello
<1>7. CASE SetIdle(p)
  BY <1>1, <1>7, UpdateTyped DEF SetIdle, UtenteState
<1>8. QED BY <1>2, <1>3, <1>4, <1>5, <1>6, <1>7, Starting(p) DEF Starting

\* The messages of the board.
LEMMA ReceiveMine ==
  ASSUME NEW p \in Users, Before(p), Receive(p)
  PROVE  Mine(p)
<1> USE Absent, Unmoved, Moved, AtTyped DEF Mine, links, Places
<1>1. utente[p] \in Utenti /\ stop \subseteq Users /\ wire \subseteq Choose /\ p \in Ports
  BY DEF Before
<1>2. CASE ReceiveAvailableCard(p)
  <2> DEFINE m == Message(p)
  <2>1. ToUserMine(p) /\ m \in WellSent /\ m.type = "AVAILABLE_CARD"
    BY <1>2, ReadTyped DEF ReceiveAvailableCard
  <2>2. m.card \in CardIds /\ m.peers \in SUBSET Ports /\ m.total \in Int
    BY <2>1 DEF WellSent, BoardMessage
  <2>3. CASE Goto(p, At("quit")) /\ UNCHANGED utente
    BY <1>1, <1>2, <2>1, <2>3 DEF ReceiveAvailableCard
  <2>4. CASE \E n \in Costs :
               /\ SetUser(p, start_election(utente[p], p, m.card, m.total, m.peers, n))
               /\ Goto(p, [At("broadcast") EXCEPT !.send = CostsTo(p, m.peers, m.card, n)])
    <3> HIDE DEF m
    <3>1. PICK n \in Costs :
               /\ SetUser(p, start_election(utente[p], p, m.card, m.total, m.peers, n))
               /\ Goto(p, [At("broadcast") EXCEPT !.send = CostsTo(p, m.peers, m.card, n)])
      BY <2>4
    <3>2. start_election(utente[p], p, m.card, m.total, m.peers, n) \in Utenti
      BY <1>1, <2>2, StartTyped
    <3>3. CostsTo(p, m.peers, m.card, n) \subseteq Choose
      BY <1>1, <2>2, CostsTyped
    <3>4. [At("broadcast") EXCEPT !.send = CostsTo(p, m.peers, m.card, n)] \in Main
      BY <3>3 DEF Main
    <3>5. UtenteMine(p) /\ MainMine(p)
      BY <3>1, <3>2, <3>4
    <3>6. QED BY <1>1, <1>2, <2>1, <3>5 DEF ReceiveAvailableCard
  <2>5. QED BY <1>2, <2>3, <2>4 DEF ReceiveAvailableCard
<1>3. CASE ReceivePing(p)
  <2>1. FromUser("PONG_LAVAGNA", NoCard) \in UserMessage
    BY FromUserTyped
  <2>2. QED BY <1>1, <1>3, <2>1, ReadTyped, SendTyped DEF ReceivePing
<1>4. CASE ReceiveUserList(p)
  BY <1>1, <1>4, ReadTyped DEF ReceiveUserList
<1>5. CASE ReceiveQuit(p)
  BY <1>1, <1>5, ReadTyped DEF ReceiveQuit
<1>6. CASE ReceiveEnd(p)
  BY <1>1, <1>6 DEF ReceiveEnd
<1>7. QED BY <1>2, <1>3, <1>4, <1>5, <1>6, Receive(p) DEF Receive

\* A worker is created, or the main thread gives up.
LEMMA WorkerStarted ==
  ASSUME NEW p \in Users, Before(p), NEW u \in Utenti, NEW next \in Places,
         StartWorker(p, u, next)
  PROVE  /\ UtenteMine(p) /\ utente'[p] = IF CanStart(u) THEN start_worker(u) ELSE u
         /\ MainMine(p) /\ main'[p] = IF CanStart(u) THEN At(next) ELSE At("quit")
         /\ WorkerMine(p)
         /\ worker'[p] = IF CanStart(u) THEN [at |-> "new", card |-> NoCard] ELSE worker[p]
         /\ LooseMine(p)
         /\ loose'[p] = IF CanStart(u) THEN loose[p] \cup {w \in {worker[p]} : Alive(w)} ELSE loose[p]
<1> USE Unmoved, Moved, AtTyped
<1>1. loose \in [Users -> SUBSET Workers] /\ worker[p] \in Workers /\ loose[p] \subseteq Workers
  BY DEF Before
<1>2. CASE CanStart(u)
  <2>1. [at |-> "new", card |-> NoCard] \in Workers
    BY DEF Workers
  <2>2. UtenteMine(p) /\ utente'[p] = start_worker(u)
    BY <1>2, WorkerTyped DEF StartWorker
  <2>3. MainMine(p) /\ main'[p] = At(next)
    BY <1>2 DEF StartWorker
  <2>4. WorkerMine(p) /\ worker'[p] = [at |-> "new", card |-> NoCard]
    BY <1>2, <2>1 DEF StartWorker
  <2> DEFINE S == loose[p] \cup {w \in {worker[p]} : Alive(w)}
  <2>5. S \in SUBSET Workers
    BY <1>1
  <2>6. loose' = [loose EXCEPT ![p] = S]
    BY <1>2 DEF StartWorker, LetGo
  <2>7. LooseMine(p) /\ loose'[p] = S
    <3> HIDE DEF S
    <3> QED BY <2>5, <2>6
  <2>8. QED BY <1>2, <2>2, <2>3, <2>4, <2>7
<1>3. CASE ~CanStart(u)
  <2>1. SetUser(p, u) /\ Goto(p, At("quit")) /\ UNCHANGED <<worker, loose>>
    BY <1>3 DEF StartWorker
  <2>2. QED BY <1>1, <1>3, <2>1 DEF Places
<1>4. QED BY <1>2, <1>3

\* run_pending_actions.
LEMMA PendingMine ==
  ASSUME NEW p \in Users, Before(p), Pending(p)
  PROVE  Mine(p)
<1> USE Absent, Unmoved, Moved, AtTyped DEF Mine, links, Places
<1>1. /\ utente[p] \in Utenti /\ stop \subseteq Users /\ wire \subseteq Choose /\ main[p] \in Main
      /\ utente[p].card_id \in CardIds \cup {NoCard} /\ main[p].card \in CardIds \cup {NoCard}
      /\ main[p].send \subseteq Choose
  BY DEF Before, Utenti, Main
<1>2. CASE Broadcast(p)
  BY <1>1, <1>2 DEF Broadcast, Reachable
<1>3. CASE TakeAck(p)
  <2>1. FromUser("ACK_CARD", utente[p].card_id) \in UserMessage
    BY <1>1, FromUserTyped
  <2>2. Send(p, FromUser("ACK_CARD", utente[p].card_id), At("mark"), At("quit"))
    BY <1>3 DEF TakeAck
  <2>3. At("mark") \in Main /\ At("quit") \in Main
    OBVIOUS
  <2>4. MainMine(p) /\ ToBoardMine(p)
    BY ONLY <2>1, <2>2, <2>3, SendTyped, Before(p), p \in Users
  <2>5. QED BY <1>1, <1>3, <2>4 DEF TakeAck
<1>4. CASE MarkWorking(p)
  BY <1>1, <1>4, WorkerStarted, UpdateTyped DEF MarkWorking, mark_working, UtenteState
<1>5. CASE TakeDone(p)
  <2>1. [At("join") EXCEPT !.card = utente[p].card_id] \in Main
    BY <1>1 DEF Main
  <2>2. QED BY <1>1, <1>5, <2>1, ReleasedTyped DEF TakeDone, take_done
<1>6. CASE JoinWorker(p)
  <2>1. FromUser("CARD_DONE", main[p].card) \in UserMessage
    BY <1>1, FromUserTyped
  <2>2. MainMine(p) /\ ToBoardMine(p)
    BY <1>6, <2>1, SendTyped DEF JoinWorker
  <2>3. NoWorker \in Workers
    BY DEF NoWorker, Workers
  <2>4. QED BY <1>1, <1>6, <2>2, <2>3, WorkerTyped DEF JoinWorker
<1>7. CASE StartAfterAck(p)
  BY <1>1, <1>7, WorkerStarted DEF StartAfterAck
<1>8. CASE EndPass(p)
  BY <1>1, <1>8 DEF EndPass
<1>9. QED BY <1>2, <1>3, <1>4, <1>5, <1>6, <1>7, <1>8, Pending(p) DEF Pending

\* What is typed.
LEMMA TerminalMine ==
  ASSUME NEW p \in Users, Before(p), Terminal(p)
  PROVE  Mine(p)
<1> USE Absent, Unmoved, Moved, AtTyped DEF Mine, links, Places
<1>1. /\ utente[p] \in Utenti /\ stop \subseteq Users /\ wire \subseteq Choose /\ p \in Ports
      /\ utente[p].card_id \in CardIds \cup {NoCard} /\ utente[p].peer_ports \subseteq Ports
      /\ worker[p] \in Workers /\ loose[p] \subseteq Workers
  BY DEF Before, Utenti
<1>2. ASSUME NEW command \in Commands, TypeRelayed(p, command) PROVE Mine(p)
  <2>1. FromUser(command, NoCard) \in UserMessage
    BY <1>2, FromUserTyped DEF TypeRelayed
  <2>2. QED BY <1>1, <1>2, <2>1, SendTyped DEF TypeRelayed
<1>3. CASE TypeChooseUser(p)
  <2>1. PICK cost \in Costs :
          wire' = wire \cup Reachable(CostsTo(p, utente[p].peer_ports, utente[p].card_id, cost))
    BY <1>3 DEF TypeChooseUser
  <2>2. CostsTo(p, utente[p].peer_ports, utente[p].card_id, cost) \subseteq Choose
    BY <1>1, <1>3, CostsTyped DEF TypeChooseUser
  <2>3. wire' \subseteq Choose
    BY <1>1, <2>1, <2>2 DEF Reachable
  <2>4. QED BY <1>1, <1>3, <2>3 DEF TypeChooseUser
<1>4. CASE TypeAckCard(p)
  <2>1. FromUser("ACK_CARD", utente[p].card_id) \in UserMessage
    BY <1>1, FromUserTyped
  <2>2. QED BY <1>1, <1>4, <2>1, SendTyped, UpdateTyped DEF TypeAckCard, take_manual_ack, UtenteState
<1>5. CASE TypeCardDone(p)
  <2>1. FromUser("CARD_DONE", utente[p].card_id) \in UserMessage
    BY <1>1, FromUserTyped
  <2>2. MainMine(p) /\ ToBoardMine(p)
    BY <1>5, <2>1, SendTyped DEF TypeCardDone
  <2>3. take_manual_done(utente[p]) \in Utenti
    BY <1>1, ReleasedTyped, WorkerTyped DEF take_manual_done, worker_joined
  <2>4. NoWorker \in Workers
    BY DEF NoWorker, Workers
  <2>5. CASE Becomes(p, NoWorker) /\ LetGo(p)
    <3> DEFINE S == loose[p] \cup {w \in {worker[p]} : Alive(w)}
    <3>1. S \in SUBSET Workers
      BY <1>1
    <3>2. loose' = [loose EXCEPT ![p] = S]
      BY <2>5 DEF LetGo
    <3>3. LooseMine(p)
      <4> HIDE DEF S
      <4> QED BY <3>1, <3>2
    <3>4. QED BY <1>1, <1>5, <2>2, <2>3, <2>4, <2>5, <3>3 DEF TypeCardDone
  <2>6. CASE UNCHANGED <<worker, loose>>
    BY <1>1, <1>5, <2>2, <2>3, <2>6 DEF TypeCardDone
  <2>7. QED BY <1>5, <2>5, <2>6 DEF TypeCardDone
<1>6. CASE TypeQuit(p)
  <2>1. FromUser("QUIT", NoCard) \in UserMessage
    BY FromUserTyped
  <2>2. QED BY <1>1, <1>6, <2>1, SendTyped DEF TypeQuit
<1>7. QED BY <1>2, <1>3, <1>4, <1>5, <1>6, Terminal(p) DEF Terminal

\* The P2P thread.
LEMMA P2PThreadMine ==
  ASSUME NEW p \in Users, Before(p), P2PThread(p)
  PROVE  Mine(p)
<1> USE Unmoved, Moved DEF Mine, links
<1>1. utente[p] \in Utenti /\ stop \subseteq Users /\ wire \subseteq Choose /\ p \in Ports
  BY Absent DEF Before
<1>2. CASE P2PReady(p)
  BY <1>1, <1>2, UpdateTyped DEF P2PReady, UtenteState
<1>3. ASSUME LeaveP2P(p) PROVE Mine(p)
  BY <1>1, <1>3, UpdateTyped DEF LeaveP2P, UtenteState
<1>4. ASSUME NEW m \in wire, Deliver(p, m) PROVE Mine(p)
  <2>1. m.card \in CardIds /\ m.from \in Ports /\ m.cost \in Costs
    BY <1>1 DEF Choose
  <2>2. record_choice(utente[p], p, m.card, m.from, m.cost) \in Utenti
    BY <1>1, <2>1, RecordTyped
  <2>3. QED BY <1>1, <1>4, <2>2 DEF Deliver
<1>5. QED BY <1>2, <1>3, <1>4, P2PThread(p) DEF P2PThread, P2PFails, P2PEnds, Hear

\* The workers.
LEMMA WorkerThreadsMine ==
  ASSUME NEW p \in Users, Before(p), WorkerThreads(p)
  PROVE  Mine(p)
<1> USE Unmoved, Moved DEF Mine, links
<1>1. /\ utente[p] \in Utenti /\ stop \subseteq Users /\ wire \subseteq Choose
      /\ worker[p] \in Workers /\ loose[p] \subseteq Workers
      /\ [at |-> "asleep", card |-> utente[p].card_id] \in Workers
  BY DEF Before, Utenti, Workers
<1>2. CASE WorkerBegins(p)
  BY <1>1, <1>2 DEF WorkerBegins
<1>3. CASE WorkerWakes(p)
  <2>1. [worker[p] EXCEPT !.at = "ended"] \in Workers
    BY <1>1 DEF Workers
  <2>2. QED BY <1>1, <1>3, <2>1, DoneTyped DEF WorkerWakes
<1>4. CASE LooseWorkerRuns(p)
  <2>1. PICK w \in loose[p] :
          \/ /\ loose' = [loose EXCEPT ![p] =
                            (@ \ {w}) \cup {[at |-> "asleep", card |-> utente[p].card_id]}]
             /\ UNCHANGED <<utente, main, p2p, worker, stop, links>>
          \/ /\ loose' = [loose EXCEPT ![p] = @ \ {w}]
             /\ SetUser(p, mark_done_pending(utente[p], w.card))
             /\ UNCHANGED <<main, p2p, worker, stop, links>>
    BY <1>4 DEF LooseWorkerRuns
  <2>2. loose[p] \ {w} \in SUBSET Workers
        /\ (loose[p] \ {w}) \cup {[at |-> "asleep", card |-> utente[p].card_id]} \in SUBSET Workers
    BY <1>1
  <2>3. LooseMine(p)
    BY <2>1, <2>2
  <2>4. UtenteMine(p)
    BY <1>1, <2>1, DoneTyped
  <2>5. QED BY <1>1, <2>1, <2>3, <2>4
<1>5. QED BY <1>2, <1>3, <1>4, WorkerThreads(p) DEF WorkerThreads

\* The end of the main thread, a signal, or the end of the process.
LEMMA EndingMine ==
  ASSUME NEW p \in Users, Before(p), Ending(p) \/ Signal(p) \/ Kill(p)
  PROVE  Mine(p)
<1> USE Absent, Unmoved, Moved, AtTyped DEF Mine, links, Places
<1>1. /\ utente[p] \in Utenti /\ stop \subseteq Users /\ wire \subseteq Choose
      /\ NoWorker \in Workers /\ {} \in SUBSET Workers /\ main[p].send \subseteq Choose
  BY DEF Before, Workers, NoWorker, Main
<1>2. CASE SeeStop(p)
  BY <1>1, <1>2 DEF SeeStop
<1>3. CASE SendQuit(p)
  <2>1. FromUser("QUIT", NoCard) \in UserMessage
    BY FromUserTyped
  <2>2. QED BY <1>1, <1>3, <2>1, SendTyped DEF SendQuit
<1>4. CASE CloseUser(p)
  <2>1. update_state(worker_joined(utente[p]), "DISCONNECTING") \in Utenti
    BY <1>1, WorkerTyped, UpdateTyped DEF UtenteState
  <2>2. QED BY <1>1, <1>4, <2>1 DEF CloseUser
<1>5. CASE Exit(p)
  BY <1>1, <1>5 DEF Exit
<1>6. CASE Signal(p)
  BY <1>1, <1>6 DEF Signal
<1>7. CASE Kill(p)
  <2>1. wire' \subseteq Choose
    BY <1>1, <1>7 DEF Kill, Reachable
  <2>2. ToUserMine(p)
    BY <1>7 DEF Kill, Before, ToUserMine
  <2>3. UtenteMine(p) /\ MainMine(p) /\ P2PMine(p) /\ WorkerMine(p) /\ LooseMine(p)
    BY ONLY <1>7, Killed, Before(p), p \in Users
  <2>4. QED BY <1>1, <1>7, <2>1, <2>2, <2>3 DEF Kill
<1>8. QED BY <1>2, <1>3, <1>4, <1>5, <1>6, <1>7, Ending(p) \/ Signal(p) \/ Kill(p) DEF Ending

\* Whatever thread of a process takes a step.
LEMMA UserStepMine ==
  ASSUME TInv, NEW p \in Users, UserStep(p)
  PROVE  Before(p) /\ Mine(p)
BY BeforeHolds, StartingMine, ReceiveMine, PendingMine, EndingMine, TerminalMine, P2PThreadMine,
   WorkerThreadsMine
DEF UserStep, MainThread

\* What a board sends: an offer names the ports of other users.
LEMMA SentTyped == ASSUME NEW p \in Users PROVE Sent(p) \subseteq WellSent
<1>1. ASSUME NEW c \in CardIds, NEW S \in SUBSET (Ports \ {p})
      PROVE  [type |-> "AVAILABLE_CARD", card |-> c, total |-> Cardinality(S) + 1, peers |-> S]
               \in WellSent
  <2>1. IsFiniteSet(S)
    BY UserAssumption, FS_Subset
  <2>2. Cardinality(S) \in Nat
    BY <2>1, FS_CardinalityType
  <2>3. S \subseteq Ports
    OBVIOUS
  <2> HIDE DEF Cardinality
  <2>4. Cardinality(S) + 1 \in Int
    BY <2>2
  <2>5. QED BY <2>3, <2>4 DEF WellSent, BoardMessage
<1>2. \A t \in {"PING_USER", "QUIT", "SEND_USER_LIST"} :
        [type |-> t, card |-> NoCard, total |-> 0, peers |-> {}] \in WellSent
  BY DEF WellSent, BoardMessage
<1>3. QED BY <1>1, <1>2 DEF Sent

\* The environment moves messages only.
LEMMA EnvironmentMoves ==
  ASSUME TInv, Environment
  PROVE  /\ UNCHANGED threads
         /\ toUser' \in [Users -> Seq(WellSent)]
         /\ toBoard' \in [Users -> Seq(UserMessage)]
         /\ \A p \in Users : Len(toBoard'[p]) <= Len(toBoard[p])
         /\ eof' \subseteq Ports
         /\ wire' \subseteq Choose
<1>1. /\ toUser \in [Users -> Seq(WellSent)] /\ toBoard \in [Users -> Seq(UserMessage)]
      /\ eof \subseteq Ports /\ wire \subseteq Choose
  BY DEF TInv, TypeOK
<1>2. ASSUME NEW p \in Users, NEW m \in Sent(p), BoardSends(p, m)
      PROVE  toUser' \in [Users -> Seq(WellSent)] /\ UNCHANGED <<threads, toBoard, eof, wire>>
  BY <1>1, <1>2, SentTyped DEF BoardSends
<1>3. ASSUME NEW p \in Users, BoardReads(p)
      PROVE  /\ toBoard' \in [Users -> Seq(UserMessage)]
             /\ \A q \in Users : Len(toBoard'[q]) <= Len(toBoard[q])
             /\ UNCHANGED <<threads, toUser, eof, wire>>
  BY <1>1, <1>3 DEF BoardReads
<1>4. ASSUME NEW p \in Users, BoardCloses(p)
      PROVE  eof' \subseteq Ports /\ UNCHANGED <<threads, toUser, toBoard, wire>>
  BY <1>1, <1>4, Absent DEF BoardCloses
<1>5. ASSUME NEW q \in Users, NEW r \in Ports, NEW c \in CardIds, NEW n \in Costs,
             PeerSends([to |-> q, from |-> r, card |-> c, cost |-> n])
      PROVE  wire' \subseteq Choose /\ UNCHANGED <<threads, toUser, toBoard, eof>>
  BY <1>1, <1>5, Absent DEF PeerSends, Choose
<1>6. \A p \in Users : Len(toBoard[p]) <= Len(toBoard[p])
  BY <1>1
<1>7. QED BY <1>1, <1>2, <1>3, <1>4, <1>5, <1>6, Environment DEF Environment

\* What a board sends is a message of the protocol.
LEMMA WellSentTyped == Seq(WellSent) \subseteq Seq(BoardMessage)
<1> SUFFICES ASSUME NEW s \in Seq(WellSent) PROVE s \in Seq(BoardMessage)
  OBVIOUS
<1>1. WellSent \subseteq BoardMessage
  BY DEF WellSent
<1>2. \A i \in 1 .. Len(s) : s[i] \in BoardMessage
  BY <1>1
<1>3. QED BY <1>2

\* A step of a process leaves all the values in their ranges.
LEMMA MineTyped == ASSUME TInv, NEW p \in Users, Before(p), Mine(p) PROVE TInv'
<1>1. utente' \in [Users -> Utenti] /\ main' \in [Users -> Main]
  BY DEF Before, Mine, UtenteMine, MainMine
<1>2. /\ p2p' \in [Users -> {"none", "starting", "serving", "ended"}]
      /\ worker' \in [Users -> Workers] /\ loose' \in [Users -> SUBSET Workers]
  BY DEF Before, Mine, P2PMine, WorkerMine, LooseMine
<1>3. toUser' \in [Users -> Seq(WellSent)] /\ toBoard' \in [Users -> Seq(UserMessage)]
  BY DEF Before, Mine, ToUserMine, ToBoardMine
<1>4. toUser' \in [Users -> Seq(BoardMessage)]
  BY <1>3, WellSentTyped
<1>5. eof' \subseteq Ports /\ stop' \subseteq Users /\ wire' \subseteq Choose
  BY DEF Mine, TInv, TypeOK
<1>6. QED BY <1>1, <1>2, <1>3, <1>4, <1>5 DEF TInv, TypeOK, Main

\* TInv holds before the processes start.
LEMMA InitTInv == Init => TInv
<1>1. At("off") \in Main /\ NoWorker \in Workers
  BY AtTyped DEF Places, NoWorker, Workers
<1>2. QED BY <1>1, InitTyped DEF Init, TInv, TypeOK, Main

\* No step breaks it.
LEMMA TInvStep == TInv /\ [Next]_vars => TInv'
<1> SUFFICES ASSUME TInv, [Next]_vars PROVE TInv'
  OBVIOUS
<1>1. ASSUME NEW p \in Users, UserStep(p) PROVE TInv'
  BY <1>1, UserStepMine, MineTyped
<1>2. CASE Environment
  <2>1. toUser' \in [Users -> Seq(BoardMessage)]
    BY <1>2, EnvironmentMoves, WellSentTyped
  <2>2. QED BY <1>2, <2>1, EnvironmentMoves DEF TInv, TypeOK, threads
<1>3. CASE UNCHANGED vars
  BY <1>3 DEF vars, threads, links, TInv, TypeOK
<1>4. QED BY <1>1, <1>2, <1>3 DEF Next

\* TInv holds in every state.
LEMMA AlwaysTyped == Spec => []TInv
BY InitTInv, TInvStep, PTL DEF Spec

\* Every value stays in its range: no field of the state, message or cost is
\* ever other than what the threads of one user may store there.
THEOREM UserTypes == Spec => []TypeOK
<1>1. TInv => TypeOK
  BY DEF TInv
<1>2. QED BY <1>1, AlwaysTyped, PTL

-----------------------------------------------------------------------------
(* The worker.                                                             *)

\* The steps of one process touch nothing another reads here.
LEMMA OthersWorking ==
  ASSUME TInv, NEW p \in Users, Mine(p), NEW q \in Users, q # p, Working(q)
  PROVE  Working(q)'
<1>1. /\ utente'[q] = utente[q] /\ main'[q] = main[q] /\ p2p'[q] = p2p[q]
      /\ worker'[q] = worker[q] /\ loose'[q] = loose[q]
  BY DEF Mine, UtenteMine, MainMine, P2PMine, WorkerMine, LooseMine, TInv, TypeOK
<1>2. QED BY <1>1 DEF Working, AwaitsP2P, Counted, HasCard, Worked

\* Before the loop there is no worker.
LEMMA StartingWorks ==
  ASSUME NEW p \in Users, Before(p), Working(p), Starting(p)
  PROVE  Working(p)'
<1> USE Absent, Moved, AtTyped DEF Working, AwaitsP2P, Counted, HasCard, Worked, Places
<1>1. utente[p] \in Utenti
  BY DEF Before
<1>2. CASE StartUser(p)
  <2>1. utente'[p] = utente_init /\ main'[p] = At("starting") /\ UNCHANGED <<worker, loose>>
    <3>1. UNCHANGED <<worker, loose>>
      BY <1>2 DEF StartUser
    <3>2. QED BY ONLY <1>2, <3>1, Started, Before(p), p \in Users
  <2>2. worker[p].at = "none" /\ loose[p] = {}
    BY <1>2 DEF StartUser
  <2>3. QED BY <2>1, <2>2, InitTyped
<1>3. CASE P2PStarted(p)
  BY <1>1, <1>3 DEF P2PStarted
<1>4. CASE Connect(p)
  BY <1>1, <1>4 DEF Connect
<1>5. CASE ConnectFails(p)
  BY <1>1, <1>5, UpdateTyped DEF ConnectFails, GiveUp, UtenteState
<1>6. CASE SendHello(p)
  <2>1. FromUser("HELLO", NoCard) \in UserMessage
    BY FromUserTyped
  <2>2. CASE Send(p, FromUser("HELLO", NoCard), At("idle"), At("idle")) /\ UNCHANGED utente
    BY <1>1, <1>6, <2>1, <2>2, SendTyped DEF SendHello
  <2>3. CASE GiveUp(p) /\ UNCHANGED toBoard
    BY <1>1, <1>6, <2>3, UpdateTyped DEF SendHello, GiveUp, UtenteState
  <2>4. QED BY <1>6, <2>2, <2>3 DEF SendHello
<1>7. CASE SetIdle(p)
  BY <1>1, <1>7, UpdateTyped DEF SetIdle, UtenteState
<1>8. QED BY <1>2, <1>3, <1>4, <1>5, <1>6, <1>7, Starting(p) DEF Starting

\* A message changes no worker, and an offer comes with its card.
LEMMA ReceiveWorks ==
  ASSUME NEW p \in Users, Before(p), Working(p), Receive(p)
  PROVE  Working(p)'
<1> USE Absent, Moved, AtTyped DEF Working, AwaitsP2P, Counted, HasCard, Worked, Places, InPass
<1>1. utente[p] \in Utenti /\ p \in Ports
  BY DEF Before
<1>2. CASE ReceiveAvailableCard(p)
  <2> DEFINE m == Message(p)
  <2>1. m \in WellSent /\ m.type = "AVAILABLE_CARD" /\ main[p].at \in {"listen", "server"}
    BY <1>2, ReadTyped DEF ReceiveAvailableCard, Read
  <2>2. m.card \in CardIds /\ m.peers \in SUBSET Ports /\ m.total \in Int
    BY <2>1 DEF WellSent, BoardMessage
  <2>3. CASE Goto(p, At("quit")) /\ UNCHANGED utente
    BY <1>1, <1>2, <2>1, <2>3 DEF ReceiveAvailableCard
  <2>4. CASE \E n \in Costs :
               /\ SetUser(p, start_election(utente[p], p, m.card, m.total, m.peers, n))
               /\ Goto(p, [At("broadcast") EXCEPT !.send = CostsTo(p, m.peers, m.card, n)])
    <3> HIDE DEF m
    <3>1. PICK n \in Costs :
               /\ SetUser(p, start_election(utente[p], p, m.card, m.total, m.peers, n))
               /\ Goto(p, [At("broadcast") EXCEPT !.send = CostsTo(p, m.peers, m.card, n)])
      BY <2>4
    <3> DEFINE v == start_election(utente[p], p, m.card, m.total, m.peers, n)
    <3>2. /\ v \in Utenti /\ v.worker_started = utente[p].worker_started
          /\ \/ v.state \in {"CHOOSING", "ACK_PENDING"} /\ v.card_id = m.card
             \/ v.state = "IDLE" /\ v.card_id = NoCard
      BY <1>1, <2>2, StartTyped
    <3> HIDE DEF v
    <3>3. utente'[p] = v
      BY <3>1, <3>2 DEF v
    <3>4. main'[p].at = "broadcast"
      <4>1. CostsTo(p, m.peers, m.card, n) \subseteq Choose
        BY <1>1, <2>2, CostsTyped
      <4>2. [At("broadcast") EXCEPT !.send = CostsTo(p, m.peers, m.card, n)] \in Main
        BY <4>1 DEF Main
      <4>3. QED BY <3>1, <4>2 DEF Main
    <3>5. UNCHANGED <<p2p, worker, loose>>
      BY <1>2 DEF ReceiveAvailableCard
    <3>6. QED BY <2>1, <2>2, <3>2, <3>3, <3>4, <3>5
  <2>5. QED BY <1>2, <2>3, <2>4 DEF ReceiveAvailableCard
<1>3. CASE ReceivePing(p)
  <2>1. FromUser("PONG_LAVAGNA", NoCard) \in UserMessage
    BY FromUserTyped
  <2>2. QED BY <1>1, <1>3, <2>1, SendTyped DEF ReceivePing, Read
<1>4. CASE ReceiveUserList(p)
  BY <1>1, <1>4 DEF ReceiveUserList, Read
<1>5. CASE ReceiveQuit(p)
  BY <1>1, <1>5 DEF ReceiveQuit, Read
<1>6. CASE ReceiveEnd(p)
  BY <1>1, <1>6 DEF ReceiveEnd
<1>7. QED BY <1>2, <1>3, <1>4, <1>5, <1>6, Receive(p) DEF Receive

\* A worker is created where there is none; the card is taken from the state
\* with the mark that the work is over, and the handle when it is joined.
LEMMA PendingWorks ==
  ASSUME NEW p \in Users, Before(p), Working(p), Pending(p)
  PROVE  Working(p)'
<1> USE Absent, Moved, AtTyped
    DEF Working, AwaitsP2P, Counted, HasCard, Worked, Places, InPass, Pass
<1>1. /\ utente[p] \in Utenti /\ main[p] \in Main /\ loose[p] = {}
      /\ utente[p].card_id \in CardIds \cup {NoCard} /\ main[p].card \in CardIds \cup {NoCard}
  BY DEF Before, Utenti, Main
<1>2. CASE Broadcast(p)
  BY <1>1, <1>2 DEF Broadcast
<1>3. CASE TakeAck(p)
  <2>1. FromUser("ACK_CARD", utente[p].card_id) \in UserMessage
    BY <1>1, FromUserTyped
  <2>2. QED BY <1>1, <1>3, <2>1, SendTyped DEF TakeAck, CanAck
<1>4. ASSUME NEW u \in Utenti, NEW next \in Places, next \notin {"off", "mark", "join", "starting"},
             StartWorker(p, u, next), UNCHANGED p2p, main[p].at \in {"mark", "start"},
             u.worker_started = utente[p].worker_started,
             u.card_id = utente[p].card_id, u.state = "WORKING" \/ u = utente[p],
             u.state = "WORKING" => u.card_id # NoCard
      PROVE  Working(p)'
  <2>1. /\ utente'[p] = IF CanStart(u) THEN start_worker(u) ELSE u
        /\ main'[p] = IF CanStart(u) THEN At(next) ELSE At("quit")
        /\ worker'[p] = IF CanStart(u) THEN [at |-> "new", card |-> NoCard] ELSE worker[p]
        /\ loose'[p] = IF CanStart(u) THEN loose[p] \cup {w \in {worker[p]} : Alive(w)} ELSE loose[p]
    <3>1. u \in Utenti /\ next \in Places /\ StartWorker(p, u, next)
      BY <1>4
    <3>2. QED BY ONLY <3>1, p \in Users, Before(p), WorkerStarted
  <2>2. CASE CanStart(u)
    <3>1. worker[p].at = "none"
      BY <1>4, <2>2 DEF CanStart
    <3>2. loose'[p] = {}
      BY <1>1, <2>1, <2>2, <3>1 DEF Alive
    <3>3. /\ utente'[p].worker_started /\ utente'[p].state = u.state
          /\ utente'[p].card_id = u.card_id
      BY <2>1, <2>2, WorkerTyped DEF Utenti
    <3>4. u.state # "DONE_PENDING"
      BY <1>4, <3>1
    <3>5. main'[p].at = next /\ worker'[p].at = "new"
      BY <2>1, <2>2
    <3>6. QED BY <1>4, <3>2, <3>3, <3>4, <3>5
  <2>3. CASE ~CanStart(u)
    <3>1. utente'[p] = u /\ main'[p].at = "quit" /\ worker'[p] = worker[p] /\ loose'[p] = {}
      BY <1>1, <2>1, <2>3
    <3>2. QED BY <1>4, <3>1
  <2>4. QED BY <2>2, <2>3
<1>5. CASE MarkWorking(p)
  <2>1. /\ mark_working(utente[p]) \in Utenti
        /\ mark_working(utente[p]).state = "WORKING"
        /\ mark_working(utente[p]).card_id = utente[p].card_id
        /\ mark_working(utente[p]).worker_started = utente[p].worker_started
    BY <1>1, UpdateTyped DEF mark_working, UtenteState
  <2>2. QED BY <1>4, <1>5, <2>1 DEF MarkWorking
<1>6. CASE TakeDone(p)
  <2>1. [At("join") EXCEPT !.card = utente[p].card_id] \in Main
    BY <1>1 DEF Main
  <2>2. /\ main'[p] = [At("join") EXCEPT !.card = utente[p].card_id]
        /\ utente'[p] = Released(utente[p])
    BY <1>1, <1>6, <2>1, ReleasedTyped DEF TakeDone, take_done
  <2>3. main'[p].at = "join" /\ main'[p].card = utente[p].card_id
    BY <2>1, <2>2 DEF Main
  <2>4. worker[p] = [at |-> "ended", card |-> utente[p].card_id]
    BY <1>6 DEF TakeDone, CanFinish
  <2>5. QED BY <1>1, <1>6, <2>2, <2>3, <2>4, ReleasedTyped DEF TakeDone
<1>7. CASE JoinWorker(p)
  <2>1. FromUser("CARD_DONE", main[p].card) \in UserMessage
    BY <1>1, FromUserTyped
  <2>2. main'[p] \in {At("listen"), At("quit")}
    BY <1>7, <2>1, SendTyped DEF JoinWorker
  <2>3. /\ worker_joined(utente[p]) \in Utenti /\ NoWorker \in Workers
        /\ ~worker_joined(utente[p]).worker_started
        /\ worker_joined(utente[p]).state = utente[p].state
        /\ worker_joined(utente[p]).card_id = utente[p].card_id
    BY <1>1, WorkerTyped DEF NoWorker, Workers, Utenti
  <2>4. utente'[p] = worker_joined(utente[p]) /\ worker'[p] = NoWorker
    BY <1>7, <2>3 DEF JoinWorker
  <2>5. QED BY <1>1, <1>7, <2>2, <2>3, <2>4 DEF JoinWorker, NoWorker
<1>8. CASE StartAfterAck(p)
  BY <1>1, <1>4, <1>8 DEF StartAfterAck
<1>9. CASE EndPass(p)
  BY <1>1, <1>9 DEF EndPass
<1>10. QED BY <1>2, <1>3, <1>5, <1>6, <1>7, <1>8, <1>9, Pending(p) DEF Pending

\* ACK_CARD typed leaves a user that has a card working on it.
LEMMA TerminalWorks ==
  ASSUME NEW p \in Users, Before(p), Working(p), Terminal(p), "CARD_DONE" \notin Typed
  PROVE  Working(p)'
<1> USE Absent, Moved, AtTyped
    DEF Working, AwaitsP2P, Counted, HasCard, Worked, Places, InPass, Types
<1>1. /\ utente[p] \in Utenti /\ utente[p].card_id \in CardIds \cup {NoCard}
  BY DEF Before, Utenti
<1>2. ASSUME NEW command \in Commands, TypeRelayed(p, command) PROVE Working(p)'
  <2>1. FromUser(command, NoCard) \in UserMessage
    BY <1>2, FromUserTyped DEF TypeRelayed
  <2>2. QED BY <1>1, <1>2, <2>1, SendTyped DEF TypeRelayed
<1>3. CASE TypeChooseUser(p)
  BY <1>1, <1>3 DEF TypeChooseUser
<1>4. CASE TypeAckCard(p)
  <2>1. FromUser("ACK_CARD", utente[p].card_id) \in UserMessage
    BY <1>1, FromUserTyped
  <2>2. main'[p] \in {At("start"), At("quit")}
    BY <1>4, <2>1, SendTyped DEF TypeAckCard
  <2>3. utente'[p] = update_state(utente[p], "WORKING")
    BY <1>1, <1>4, UpdateTyped DEF TypeAckCard, take_manual_ack, UtenteState
  <2>4. QED BY <1>1, <1>4, <2>2, <2>3, UpdateTyped DEF TypeAckCard, CanAckManually, UtenteState
<1>5. CASE TypeCardDone(p)
  BY <1>5 DEF TypeCardDone
<1>6. CASE TypeQuit(p)
  <2>1. FromUser("QUIT", NoCard) \in UserMessage
    BY FromUserTyped
  <2>2. QED BY <1>1, <1>6, <2>1, SendTyped DEF TypeQuit
<1>7. QED BY <1>2, <1>3, <1>4, <1>5, <1>6, Terminal(p) DEF Terminal

\* A cost changes the card of no user that works.
LEMMA P2PThreadWorks ==
  ASSUME NEW p \in Users, Before(p), Working(p), P2PThread(p)
  PROVE  Working(p)'
<1> USE Moved DEF Working, AwaitsP2P, Counted, HasCard, Worked
<1>1. utente[p] \in Utenti /\ wire \subseteq Choose /\ p \in Ports
  BY Absent DEF Before
<1>2. CASE P2PReady(p)
  <2>1. "CONNECTING" \in UtenteState
    BY DEF UtenteState
  <2>2. p2p'[p] = "serving" /\ utente'[p] = update_state(utente[p], "CONNECTING")
    <3>1. p2p'[p] = "serving"
      BY <1>2 DEF P2PReady
    <3>2. utente'[p] = update_state(utente[p], "CONNECTING")
      <4>1. SetUser(p, update_state(utente[p], "CONNECTING"))
        BY <1>2 DEF P2PReady
      <4>2. update_state(utente[p], "CONNECTING") \in Utenti
        BY <1>1, <2>1, UpdateTyped
      <4>3. QED BY ONLY <4>1, <4>2, Moved, Before(p), p \in Users
    <3>3. QED BY <3>1, <3>2
  <2>3. /\ utente'[p].state = "CONNECTING" /\ utente'[p].card_id = utente[p].card_id
        /\ utente'[p].worker_started = utente[p].worker_started
    BY <1>1, <2>1, <2>2, UpdateTyped
  <2>4. QED BY <1>2, <2>2, <2>3 DEF P2PReady
<1>3. ASSUME LeaveP2P(p) PROVE Working(p)'
  <2>1. p2p'[p] = "ended" /\ utente'[p] = update_state(utente[p], "SHUTTING_DOWN")
    <3>1. "SHUTTING_DOWN" \in UtenteState
      BY DEF UtenteState
    <3>2. update_state(utente[p], "SHUTTING_DOWN") \in Utenti
      BY <1>1, <3>1, UpdateTyped
    <3>3. SetUser(p, update_state(utente[p], "SHUTTING_DOWN")) /\ p2p' = [p2p EXCEPT ![p] = "ended"]
      BY <1>3 DEF LeaveP2P
    <3>4. QED BY ONLY <3>2, <3>3, Moved, Before(p), p \in Users
  <2>2. /\ utente'[p].state = "SHUTTING_DOWN" /\ utente'[p].card_id = utente[p].card_id
        /\ utente'[p].worker_started = utente[p].worker_started
    BY <1>1, <2>1, UpdateTyped DEF UtenteState
  <2>3. QED BY <1>3, <2>1, <2>2 DEF LeaveP2P
<1>4. ASSUME NEW m \in wire, Deliver(p, m) PROVE Working(p)'
  <2>1. m.card \in CardIds /\ m.from \in Ports /\ m.cost \in Costs
    BY <1>1 DEF Choose
  <2> DEFINE v == record_choice(utente[p], p, m.card, m.from, m.cost)
  <2>2. /\ v \in Utenti /\ v.worker_started = utente[p].worker_started
        /\ \/ v.state = utente[p].state /\ (utente[p].card_id = NoCard \/ v.card_id = utente[p].card_id)
           \/ /\ utente[p].state = "CHOOSING"
              /\ \/ v.state = "ACK_PENDING" /\ v.card_id # NoCard
                 \/ v.state = "IDLE" /\ v.card_id = NoCard
    BY <1>1, <2>1, RecordTyped
  <2>3. utente'[p] = v
    BY <1>4, <2>2 DEF Deliver
  <2> HIDE DEF v
  <2>4. QED BY <1>4, <2>2, <2>3 DEF Deliver
<1>5. QED BY <1>2, <1>3, <1>4, P2PThread(p) DEF P2PThread, P2PFails, P2PEnds, Hear

\* The worker marks the work as over for the card it was created for.
LEMMA WorkerThreadsWork ==
  ASSUME NEW p \in Users, Before(p), Working(p), WorkerThreads(p)
  PROVE  Working(p)'
<1> USE Moved DEF Working, AwaitsP2P, Counted, HasCard, Worked
<1>1. /\ utente[p] \in Utenti /\ worker[p] \in Workers /\ loose[p] = {}
      /\ [at |-> "asleep", card |-> utente[p].card_id] \in Workers
  BY DEF Before, Utenti, Workers
<1>2. CASE WorkerBegins(p)
  BY <1>1, <1>2 DEF WorkerBegins
<1>3. CASE WorkerWakes(p)
  <2> DEFINE v == mark_done_pending(utente[p], worker[p].card)
  <2>1. /\ v \in Utenti /\ v.card_id = utente[p].card_id
        /\ v.worker_started = utente[p].worker_started
        /\ \/ v.state = utente[p].state
           \/ /\ utente[p].state = "WORKING" /\ v.state = "DONE_PENDING"
              /\ utente[p].card_id = worker[p].card
    BY <1>1, DoneTyped
  <2>2. [worker[p] EXCEPT !.at = "ended"] = [at |-> "ended", card |-> worker[p].card]
    BY <1>1 DEF Workers
  <2>3. [at |-> "ended", card |-> worker[p].card] \in Workers
    BY <1>1 DEF Workers
  <2>4. utente'[p] = v /\ worker'[p] = [at |-> "ended", card |-> worker[p].card]
    BY <1>3, <2>1, <2>2, <2>3 DEF WorkerWakes
  <2> HIDE DEF v
  <2>5. worker[p].at = "asleep" /\ UNCHANGED <<main, p2p, loose>>
    BY <1>3 DEF WorkerWakes
  <2>6. QED BY <1>1, <2>1, <2>4, <2>5
<1>4. CASE LooseWorkerRuns(p)
  BY <1>1, <1>4 DEF LooseWorkerRuns
<1>5. QED BY <1>2, <1>3, <1>4, WorkerThreads(p) DEF WorkerThreads

\* A process that ends has awaited its worker, or dies with it.
LEMMA EndingWorks ==
  ASSUME NEW p \in Users, Before(p), Working(p), Ending(p) \/ Signal(p) \/ Kill(p)
  PROVE  Working(p)'
<1> USE Absent, Moved, AtTyped DEF Working, AwaitsP2P, Counted, HasCard, Worked, Places
<1>1. utente[p] \in Utenti /\ NoWorker \in Workers /\ {} \in SUBSET Workers
  BY DEF Before, Workers, NoWorker
<1>2. CASE SeeStop(p)
  BY <1>1, <1>2 DEF SeeStop
<1>3. CASE SendQuit(p)
  <2>1. FromUser("QUIT", NoCard) \in UserMessage
    BY FromUserTyped
  <2>2. QED BY <1>1, <1>3, <2>1, SendTyped DEF SendQuit
<1>4. CASE CloseUser(p)
  <2> DEFINE v == update_state(worker_joined(utente[p]), "DISCONNECTING")
  <2>1. v \in Utenti /\ v.state = "DISCONNECTING" /\ ~v.worker_started
    BY <1>1, WorkerTyped, UpdateTyped DEF UtenteState, Utenti
  <2>2. utente'[p] = v /\ worker'[p] = NoWorker /\ main'[p] = At("closing")
    BY <1>1, <1>4, <2>1 DEF CloseUser
  <2> HIDE DEF v
  <2>3. QED BY <1>1, <1>4, <2>1, <2>2 DEF CloseUser, NoWorker
<1>5. CASE Exit(p)
  BY <1>1, <1>5 DEF Exit
<1>6. CASE Signal(p)
  BY <1>1, <1>6 DEF Signal
<1>7. CASE Kill(p)
  <2>1. At("killed").at = "killed"
    BY AtTyped
  <2>2. /\ utente'[p] = utente_init /\ worker'[p] = NoWorker /\ main'[p].at = "killed"
        /\ p2p'[p] = "ended" /\ loose'[p] = {}
    BY ONLY <1>7, <2>1, Killed, Before(p), p \in Users
  <2>3. QED BY <2>2, InitTyped DEF NoWorker
<1>8. QED BY <1>2, <1>3, <1>4, <1>5, <1>6, <1>7, Ending(p) \/ Signal(p) \/ Kill(p) DEF Ending

\* WInv holds before the processes start.
LEMMA InitWInv == Init => WInv
BY InitTInv, InitTyped, AtTyped
DEF Init, WInv, Working, AwaitsP2P, Counted, HasCard, Worked, NoWorker, At

\* No step breaks it, if the end of the work is not typed.
LEMMA WInvStep == "CARD_DONE" \notin Typed => (WInv /\ [Next]_vars => WInv')
<1> SUFFICES ASSUME "CARD_DONE" \notin Typed, WInv, [Next]_vars PROVE WInv'
  OBVIOUS
<1>1. TInv /\ TInv' /\ \A p \in Users : Working(p)
  BY TInvStep DEF WInv
<1>2. ASSUME NEW p \in Users, UserStep(p) PROVE WInv'
  <2>1. Before(p) /\ Mine(p) /\ Working(p)
    BY <1>1, <1>2, UserStepMine
  <2>2. Working(p)'
    BY <1>2, <2>1, StartingWorks, ReceiveWorks, PendingWorks, EndingWorks, TerminalWorks,
       P2PThreadWorks, WorkerThreadsWork
    DEF UserStep, MainThread
  <2>3. \A q \in Users \ {p} : Working(q)'
    BY <1>1, <2>1, OthersWorking
  <2>4. QED BY <1>1, <2>2, <2>3 DEF WInv
<1>3. CASE UNCHANGED threads
  BY <1>1, <1>3 DEF threads, WInv, Working, AwaitsP2P, Counted, HasCard, Worked
<1>4. QED BY <1>1, <1>2, <1>3, EnvironmentMoves DEF Next, vars

\* WInv holds in every state, if the end of the work is not typed.
LEMMA AlwaysWorking == "CARD_DONE" \notin Typed => (Spec => []WInv)
<1> SUFFICES ASSUME "CARD_DONE" \notin Typed PROVE Spec => []WInv
  OBVIOUS
<1>1. WInv /\ [Next]_vars => WInv'
  BY WInvStep
<1>2. QED BY <1>1, InitWInv, PTL DEF Spec

\* A user whose work is ended by its worker, and not by the terminal, never has
\* two of them: it creates none before it has joined the one it had.
THEOREM UserWorksOnce == "CARD_DONE" \notin Typed => (Spec => []OneWorker)
<1> SUFFICES ASSUME "CARD_DONE" \notin Typed PROVE Spec => []OneWorker
  OBVIOUS
<1>1. WInv => OneWorker
  <2> SUFFICES ASSUME WInv, NEW p \in Users PROVE Cardinality({w \in Live(p) : Alive(w)}) <= 1
    BY DEF OneWorker
  <2>1. {w \in Live(p) : Alive(w)} \subseteq {worker[p]}
    BY DEF WInv, Working, Counted, Live
  <2>2. IsFiniteSet({worker[p]}) /\ Cardinality({worker[p]}) = 1
    BY FS_Singleton
  <2> HIDE DEF Cardinality
  <2>3. QED BY <2>1, <2>2, FS_Subset, FS_CardinalityType
<1>2. QED BY <1>1, AlwaysWorking, PTL

\* The main thread never waits for a worker that sleeps: it comes to join one
\* that has marked its card as done, and that is the last thing a worker does.
THEOREM UserAnswers == "CARD_DONE" \notin Typed => (Spec => []NotBlocked)
<1> SUFFICES ASSUME "CARD_DONE" \notin Typed PROVE Spec => []NotBlocked
  OBVIOUS
<1>1. WInv => NotBlocked
  <2> SUFFICES ASSUME WInv, NEW p \in Users, main[p].at = "join" PROVE ~Alive(worker[p])
    BY DEF NotBlocked
  <2>1. worker[p] = [at |-> "ended", card |-> main[p].card]
    BY DEF WInv, Working, Worked
  <2>2. worker[p].at = "ended"
    BY <2>1
  <2>3. QED BY <2>2 DEF Alive
<1>2. QED BY <1>1, AlwaysWorking, PTL

\* Of the steps in which the main thread awaits its worker, one sends: that
\* which has joined it.
LEMMA JoinSends ==
  ASSUME WInv, [Next]_vars, NEW p \in Users, main[p].at = "join",
         Len(toBoard'[p]) > Len(toBoard[p])
  PROVE  toBoard'[p] = Append(toBoard[p], FromUser("CARD_DONE", main[p].card))
<1>1. toBoard[p] \in Seq(UserMessage) /\ TInv /\ toBoard \in [Users -> Seq(UserMessage)]
  BY DEF WInv, TInv, TypeOK
<1>2. toBoard'[p] # toBoard[p]
  BY <1>1
<1>3. PICK q \in Users : UserStep(q)
  BY <1>1, <1>2, EnvironmentMoves DEF Next, vars, links
<1>4. q = p
  <2>1. ToBoardMine(q)
    BY <1>1, <1>3, UserStepMine DEF Mine
  <2>2. QED BY <1>1, <1>2, <2>1 DEF ToBoardMine
<1>5. UserStep(p) /\ Before(p)
  BY <1>1, <1>3, <1>4, BeforeHolds
<1>6. ~Starting(p) /\ ~Receive(p) /\ ~Terminal(p)
  BY <1>2
  DEF Starting, Receive, Terminal, StartUser, P2PStarted, Connect, ConnectFails, SendHello, SetIdle,
      ReceiveAvailableCard, ReceivePing, ReceiveUserList, ReceiveQuit, ReceiveEnd, Read, InPass,
      TypeRelayed, TypeChooseUser, TypeAckCard, TypeCardDone, TypeQuit, Types
<1>7. ~P2PThread(p) /\ ~WorkerThreads(p) /\ ~Signal(p) /\ ~Kill(p)
  BY <1>2
  DEF P2PThread, P2PReady, P2PFails, P2PEnds, LeaveP2P, Hear, Deliver, WorkerThreads, WorkerBegins,
      WorkerWakes, LooseWorkerRuns, Signal, Kill, links
<1>8. ~Ending(p)
  BY <1>2 DEF Ending, SeeStop, SendQuit, CloseUser, Exit
<1>9. Pending(p)
  BY <1>5, <1>6, <1>7, <1>8 DEF UserStep, MainThread
<1>10. JoinWorker(p)
  BY <1>2, <1>9
  DEF Pending, Broadcast, TakeAck, MarkWorking, TakeDone, StartAfterAck, EndPass, InPass, Pass
<1>11. toBoard'[p] \in {toBoard[p], Append(toBoard[p], FromUser("CARD_DONE", main[p].card))}
  <2>1. FromUser("CARD_DONE", main[p].card) \in UserMessage
    BY <1>5, FromUserTyped DEF Before, Main
  <2>2. At("listen") \in Main /\ At("quit") \in Main
    BY AtTyped DEF Places
  <2>3. QED BY <1>5, <1>10, <2>1, <2>2, SendTyped DEF JoinWorker
<1>12. QED BY <1>2, <1>11

\* The CARD_DONE a user sends by itself is that of the card whose worker has run
\* to its end, whatever came between the end of the work and the message.
THEOREM DoneIsEarned == "CARD_DONE" \notin Typed => (Spec => DoneAfterWork)
<1> SUFFICES ASSUME "CARD_DONE" \notin Typed PROVE Spec => DoneAfterWork
  OBVIOUS
<1> DEFINE Earned ==
      \A p \in Users : Sends(p, "CARD_DONE") /\ main[p].at = "join" =>
        worker[p] = [at |-> "ended", card |-> LastSent(p).card]
<1>1. ASSUME WInv, [Next]_vars PROVE Earned
  <2> SUFFICES ASSUME NEW p \in Users, Sends(p, "CARD_DONE"), main[p].at = "join"
               PROVE  worker[p] = [at |-> "ended", card |-> LastSent(p).card]
    OBVIOUS
  <2>1. toBoard'[p] = Append(toBoard[p], FromUser("CARD_DONE", main[p].card))
    BY <1>1, JoinSends DEF Sends
  <2>2. toBoard[p] \in Seq(UserMessage)
    BY <1>1 DEF WInv, TInv, TypeOK
  <2>3. LastSent(p) = FromUser("CARD_DONE", main[p].card)
    BY <2>1, <2>2 DEF LastSent
  <2>4. LastSent(p).card = main[p].card
    BY <2>3 DEF FromUser
  <2>5. QED BY <1>1, <2>4 DEF WInv, Working, Worked
<1>2. [][Earned]_vars <=> DoneAfterWork
  BY DEF DoneAfterWork
<1> HIDE DEF Earned
<1>3. QED BY <1>1, <1>2, AlwaysWorking, PTL DEF Spec

-----------------------------------------------------------------------------
(* The P2P server and the registration.                                    *)

\* The steps of one process touch nothing another reads here.
LEMMA OthersRegister ==
  ASSUME TInv, NEW p \in Users, Mine(p), NEW q \in Users, q # p, Registers(q)
  PROVE  Registers(q)'
<1>1. utente'[q] = utente[q] /\ main'[q] = main[q] /\ p2p'[q] = p2p[q]
  BY DEF Mine, UtenteMine, MainMine, P2PMine, TInv, TypeOK
<1>2. QED BY <1>1 DEF Registers, AwaitsP2P, Closed, Listens

\* A user connects once its P2P thread says it listens.
LEMMA StartingRegisters ==
  ASSUME NEW p \in Users, Before(p), Registers(p), Starting(p)
  PROVE  Registers(p)'
<1> USE Absent, Moved, AtTyped DEF Registers, AwaitsP2P, Closed, Listens, Places
<1>1. utente[p] \in Utenti
  BY DEF Before
<1>2. CASE StartUser(p)
  <2>1. utente'[p] = utente_init /\ main'[p] = At("starting")
    BY ONLY <1>2, Started, Before(p), p \in Users
  <2>2. QED BY <2>1, InitTyped
<1>3. CASE P2PStarted(p)
  BY <1>1, <1>3 DEF P2PStarted
<1>4. CASE Connect(p)
  BY <1>1, <1>4 DEF Connect
<1>5. ASSUME GiveUp(p), UNCHANGED p2p, main[p].at \in {"connecting", "hello"} PROVE Registers(p)'
  <2>1. update_state(utente[p], "DISCONNECTING") \in Utenti
        /\ update_state(utente[p], "DISCONNECTING").state = "DISCONNECTING"
    BY <1>1, UpdateTyped DEF UtenteState
  <2>2. utente'[p].state = "DISCONNECTING" /\ main'[p] = At("closing")
    BY <1>5, <2>1 DEF GiveUp
  <2>3. QED BY <1>5, <2>2
<1>6. CASE ConnectFails(p)
  BY <1>5, <1>6 DEF ConnectFails
<1>7. CASE SendHello(p)
  <2>1. FromUser("HELLO", NoCard) \in UserMessage
    BY FromUserTyped
  <2>2. CASE Send(p, FromUser("HELLO", NoCard), At("idle"), At("idle")) /\ UNCHANGED utente
    BY <1>1, <1>7, <2>1, <2>2, SendTyped DEF SendHello
  <2>3. CASE GiveUp(p) /\ UNCHANGED toBoard
    BY <1>5, <1>7, <2>3 DEF SendHello
  <2>4. QED BY <1>7, <2>2, <2>3 DEF SendHello
<1>8. CASE SetIdle(p)
  <2>1. utente'[p].state = "IDLE" /\ main'[p] = At("listen")
    BY <1>1, <1>8, UpdateTyped DEF SetIdle, UtenteState
  <2>2. QED BY <1>8, <2>1 DEF SetIdle
<1>9. QED BY <1>2, <1>3, <1>4, <1>6, <1>7, <1>8, Starting(p) DEF Starting

\* The places of the loop of main and of what it calls.
InLoop == {"idle", "listen", "server", "broadcast", "pending", "mark", "start", "join", "quit",
           "leaving"}

\* In the loop a user that goes on is not one whose P2P server has closed.
LEMMA LoopRegisters ==
  ASSUME NEW p \in Users, Registers(p), main[p].at \in InLoop, main'[p].at \in InLoop,
         p2p'[p] = p2p[p],
         utente'[p].state = utente[p].state
           \/ utente'[p].state \notin {"SHUTTING_DOWN", "DISCONNECTING"}
  PROVE  Registers(p)'
BY DEF Registers, AwaitsP2P, Closed, Listens, InLoop

\* The messages of the board.
LEMMA ReceiveRegisters ==
  ASSUME NEW p \in Users, Before(p), Registers(p), Receive(p)
  PROVE  Registers(p)'
<1> USE Absent, Moved, AtTyped DEF Places, InPass, InLoop
<1>1. utente[p] \in Utenti /\ p \in Ports
  BY DEF Before
<1>2. main[p].at \in {"listen", "server"} /\ p2p' = p2p
  BY DEF Receive, ReceiveAvailableCard, ReceivePing, ReceiveUserList, ReceiveQuit, ReceiveEnd, Read
<1>3. CASE ReceiveAvailableCard(p)
  <2> DEFINE m == Message(p)
  <2>1. m \in WellSent /\ m.type = "AVAILABLE_CARD"
    BY <1>3, ReadTyped DEF ReceiveAvailableCard
  <2>2. m.card \in CardIds /\ m.peers \in SUBSET Ports /\ m.total \in Int
    BY <2>1 DEF WellSent, BoardMessage
  <2>3. CASE Goto(p, At("quit")) /\ UNCHANGED utente
    BY <1>1, <1>2, <2>3, LoopRegisters
  <2>4. CASE \E n \in Costs :
               /\ SetUser(p, start_election(utente[p], p, m.card, m.total, m.peers, n))
               /\ Goto(p, [At("broadcast") EXCEPT !.send = CostsTo(p, m.peers, m.card, n)])
    <3> HIDE DEF m
    <3>1. PICK n \in Costs :
               /\ SetUser(p, start_election(utente[p], p, m.card, m.total, m.peers, n))
               /\ Goto(p, [At("broadcast") EXCEPT !.send = CostsTo(p, m.peers, m.card, n)])
      BY <2>4
    <3> DEFINE v == start_election(utente[p], p, m.card, m.total, m.peers, n)
    <3>2. v \in Utenti /\ v.state \in {"CHOOSING", "ACK_PENDING", "IDLE"}
      BY <1>1, <2>2, StartTyped
    <3>3. utente'[p] = v
      BY <3>1, <3>2
    <3>4. main'[p].at = "broadcast"
      <4>1. CostsTo(p, m.peers, m.card, n) \subseteq Choose
        BY <1>1, <2>2, CostsTyped
      <4>2. [At("broadcast") EXCEPT !.send = CostsTo(p, m.peers, m.card, n)] \in Main
        BY <4>1 DEF Main
      <4>3. QED BY <3>1, <4>2 DEF Main
    <3> HIDE DEF v
    <3>5. QED BY <1>2, <3>2, <3>3, <3>4, LoopRegisters
  <2>5. QED BY <1>3, <2>3, <2>4 DEF ReceiveAvailableCard
<1>4. CASE ReceivePing(p)
  <2>1. FromUser("PONG_LAVAGNA", NoCard) \in UserMessage
    BY FromUserTyped
  <2>2. QED BY <1>1, <1>2, <1>4, <2>1, SendTyped, LoopRegisters DEF ReceivePing
<1>5. CASE ReceiveUserList(p)
  BY <1>1, <1>2, <1>5, LoopRegisters DEF ReceiveUserList
<1>6. CASE ReceiveQuit(p)
  BY <1>1, <1>2, <1>6, LoopRegisters DEF ReceiveQuit
<1>7. CASE ReceiveEnd(p)
  BY <1>1, <1>2, <1>7, LoopRegisters DEF ReceiveEnd
<1>8. QED BY <1>3, <1>4, <1>5, <1>6, <1>7, Receive(p) DEF Receive

\* run_pending_actions.
LEMMA PendingRegisters ==
  ASSUME NEW p \in Users, Before(p), Registers(p), Pending(p)
  PROVE  Registers(p)'
<1> USE Absent, Moved, AtTyped DEF Places, InPass, Pass, InLoop
<1>1. /\ utente[p] \in Utenti /\ main[p] \in Main
      /\ utente[p].card_id \in CardIds \cup {NoCard} /\ main[p].card \in CardIds \cup {NoCard}
  BY DEF Before, Utenti, Main
<1>2. main[p].at \in InLoop /\ p2p' = p2p
  BY DEF Pending, Broadcast, TakeAck, MarkWorking, TakeDone, JoinWorker, StartAfterAck, EndPass
<1>3. CASE Broadcast(p)
  BY <1>2, <1>3, LoopRegisters DEF Broadcast
<1>4. CASE TakeAck(p)
  <2>1. FromUser("ACK_CARD", utente[p].card_id) \in UserMessage
    BY <1>1, FromUserTyped
  <2>2. QED BY <1>2, <1>4, <2>1, SendTyped, LoopRegisters DEF TakeAck
<1>5. ASSUME NEW u \in Utenti, NEW next \in InLoop, StartWorker(p, u, next),
             u.state = "WORKING" \/ u = utente[p]
      PROVE  Registers(p)'
  <2>1. u \in Utenti /\ next \in Places /\ StartWorker(p, u, next)
    BY <1>5
  <2>2. /\ utente'[p] = IF CanStart(u) THEN start_worker(u) ELSE u
        /\ main'[p] = IF CanStart(u) THEN At(next) ELSE At("quit")
    BY ONLY <2>1, p \in Users, Before(p), WorkerStarted
  <2>3. start_worker(u).state = u.state
    BY WorkerTyped DEF Utenti
  <2>4. utente'[p].state = u.state /\ main'[p].at \in {next, "quit"}
    BY <2>1, <2>2, <2>3
  <2>5. QED BY <1>2, <1>5, <2>4, LoopRegisters
<1>6. CASE MarkWorking(p)
  <2>1. mark_working(utente[p]) \in Utenti /\ mark_working(utente[p]).state = "WORKING"
    BY <1>1, UpdateTyped DEF mark_working, UtenteState
  <2>2. QED BY <1>5, <1>6, <2>1 DEF MarkWorking
<1>7. CASE TakeDone(p)
  <2>1. [At("join") EXCEPT !.card = utente[p].card_id] \in Main
    BY <1>1 DEF Main
  <2>2. main'[p].at = "join" /\ utente'[p].state = "IDLE"
    BY <1>1, <1>7, <2>1, ReleasedTyped DEF TakeDone, take_done, Main
  <2>3. QED BY <1>2, <2>2, LoopRegisters
<1>8. CASE JoinWorker(p)
  <2>1. FromUser("CARD_DONE", main[p].card) \in UserMessage
    BY <1>1, FromUserTyped
  <2>2. main'[p] \in {At("listen"), At("quit")}
    BY <1>8, <2>1, SendTyped DEF JoinWorker
  <2>3. worker_joined(utente[p]).state = utente[p].state /\ utente'[p] = worker_joined(utente[p])
    BY <1>1, <1>8, WorkerTyped DEF JoinWorker, Utenti
  <2>4. QED BY <1>2, <2>2, <2>3, LoopRegisters
<1>9. CASE StartAfterAck(p)
  BY <1>1, <1>5, <1>9 DEF StartAfterAck
<1>10. CASE EndPass(p)
  BY <1>2, <1>10, LoopRegisters DEF EndPass
<1>11. QED BY <1>3, <1>4, <1>6, <1>7, <1>8, <1>9, <1>10, Pending(p) DEF Pending

\* What is typed.
LEMMA TerminalRegisters ==
  ASSUME NEW p \in Users, Before(p), Registers(p), Terminal(p)
  PROVE  Registers(p)'
<1> USE Absent, Moved, AtTyped DEF Places, InPass, Types, InLoop
<1>1. /\ utente[p] \in Utenti /\ utente[p].card_id \in CardIds \cup {NoCard}
  BY DEF Before, Utenti
<1>2. main[p].at \in InLoop /\ p2p' = p2p
  BY DEF Terminal, TypeRelayed, TypeChooseUser, TypeAckCard, TypeCardDone, TypeQuit
<1>3. ASSUME NEW command \in Commands, TypeRelayed(p, command) PROVE Registers(p)'
  <2>1. FromUser(command, NoCard) \in UserMessage
    BY <1>3, FromUserTyped DEF TypeRelayed
  <2>2. QED BY <1>2, <1>3, <2>1, SendTyped, LoopRegisters DEF TypeRelayed
<1>4. CASE TypeChooseUser(p)
  BY <1>2, <1>4, LoopRegisters DEF TypeChooseUser
<1>5. CASE TypeAckCard(p)
  <2>1. FromUser("ACK_CARD", utente[p].card_id) \in UserMessage
    BY <1>1, FromUserTyped
  <2>2. main'[p] \in {At("start"), At("quit")}
    BY <1>5, <2>1, SendTyped DEF TypeAckCard
  <2>3. utente'[p].state = "WORKING"
    BY <1>1, <1>5, UpdateTyped DEF TypeAckCard, take_manual_ack, UtenteState
  <2>4. QED BY <1>2, <2>2, <2>3, LoopRegisters
<1>6. CASE TypeCardDone(p)
  <2>1. FromUser("CARD_DONE", utente[p].card_id) \in UserMessage
    BY <1>1, FromUserTyped
  <2>2. main'[p] \in {At("server"), At("quit")}
    BY <1>6, <2>1, SendTyped DEF TypeCardDone
  <2>3. /\ take_manual_done(utente[p]) \in Utenti
        /\ take_manual_done(utente[p]).state = "IDLE"
    <3>1. \A r \in Utenti : /\ [r EXCEPT !.worker_started = FALSE] \in Utenti
                            /\ [r EXCEPT !.worker_started = FALSE].state = r.state
      BY DEF Utenti
    <3>2. Released(utente[p]) \in Utenti /\ Released(utente[p]).state = "IDLE"
      BY <1>1, ReleasedTyped
    <3>3. QED BY ONLY <3>1, <3>2 DEF take_manual_done
  <2>4. utente'[p].state = "IDLE"
    BY <1>6, <2>3 DEF TypeCardDone
  <2>5. QED BY <1>2, <2>2, <2>4, LoopRegisters
<1>7. CASE TypeQuit(p)
  <2>1. FromUser("QUIT", NoCard) \in UserMessage
    BY FromUserTyped
  <2>2. QED BY <1>2, <1>7, <2>1, SendTyped, LoopRegisters DEF TypeQuit
<1>8. QED BY <1>3, <1>4, <1>5, <1>6, <1>7, Terminal(p) DEF Terminal

\* The P2P thread listens, or ends for a port that is taken or a user that stops.
LEMMA P2PThreadRegisters ==
  ASSUME NEW p \in Users, Before(p), Registers(p), P2PThread(p), "P2P" \notin Faults
  PROVE  Registers(p)'
<1> USE Moved DEF Registers, AwaitsP2P, Closed, Listens
<1>1. utente[p] \in Utenti /\ wire \subseteq Choose /\ p \in Ports
  BY Absent DEF Before
<1>2. CASE P2PReady(p)
  <2>1. "CONNECTING" \in UtenteState
    BY DEF UtenteState
  <2>2. p2p'[p] = "serving" /\ utente'[p] = update_state(utente[p], "CONNECTING")
    <3>1. p2p'[p] = "serving"
      BY <1>2 DEF P2PReady
    <3>2. utente'[p] = update_state(utente[p], "CONNECTING")
      <4>1. SetUser(p, update_state(utente[p], "CONNECTING"))
        BY <1>2 DEF P2PReady
      <4>2. update_state(utente[p], "CONNECTING") \in Utenti
        BY <1>1, <2>1, UpdateTyped
      <4>3. QED BY ONLY <4>1, <4>2, Moved, Before(p), p \in Users
    <3>3. QED BY <3>1, <3>2
  <2>3. utente'[p].state = "CONNECTING"
    BY <1>1, <2>1, <2>2, UpdateTyped
  <2>4. QED BY <1>2, <2>2, <2>3 DEF P2PReady
<1>3. ASSUME LeaveP2P(p), main[p].at \in {"starting", "closing", "ended"} PROVE Registers(p)'
  <2>1. /\ update_state(utente[p], "SHUTTING_DOWN") \in Utenti
        /\ update_state(utente[p], "SHUTTING_DOWN").state = "SHUTTING_DOWN"
    BY <1>1, UpdateTyped DEF UtenteState
  <2>2. /\ SetUser(p, update_state(utente[p], "SHUTTING_DOWN"))
        /\ p2p' = [p2p EXCEPT ![p] = "ended"] /\ main' = main
    BY <1>3 DEF LeaveP2P
  <2>3. utente'[p] = update_state(utente[p], "SHUTTING_DOWN")
    BY ONLY <2>1, <2>2, Moved, Before(p), p \in Users
  <2>4. p2p'[p] = "ended"
    BY ONLY <2>2, Before(p), p \in Users DEF Before
  <2>5. QED BY <1>3, <2>1, <2>2, <2>3, <2>4
<1>4. CASE P2PFails(p)
  BY <1>3, <1>4 DEF P2PFails
<1>5. CASE P2PEnds(p)
  BY <1>3, <1>5 DEF P2PEnds
<1>6. ASSUME NEW m \in wire, Deliver(p, m) PROVE Registers(p)'
  <2>1. m.card \in CardIds /\ m.from \in Ports /\ m.cost \in Costs
    BY <1>1 DEF Choose
  <2> DEFINE v == record_choice(utente[p], p, m.card, m.from, m.cost)
  <2>2. /\ v \in Utenti
        /\ \/ v.state = utente[p].state
           \/ utente[p].state = "CHOOSING" /\ v.state \in {"ACK_PENDING", "IDLE"}
    BY <1>1, <2>1, RecordTyped
  <2>3. utente'[p] = v
    BY <1>6, <2>2 DEF Deliver
  <2> HIDE DEF v
  <2>4. QED BY <1>6, <2>2, <2>3 DEF Deliver
<1>7. QED BY <1>2, <1>4, <1>5, <1>6, P2PThread(p) DEF P2PThread, Hear

\* A worker changes the state of a user that works, and of no other.
LEMMA WorkerThreadsRegister ==
  ASSUME NEW p \in Users, Before(p), Registers(p), WorkerThreads(p)
  PROVE  Registers(p)'
<1> USE Moved DEF Registers, AwaitsP2P, Closed, Listens
<1>1. utente[p] \in Utenti
  BY DEF Before
<1>2. ASSUME NEW card, SetUser(p, mark_done_pending(utente[p], card)), UNCHANGED <<main, p2p>>
      PROVE  Registers(p)'
  <2> DEFINE v == mark_done_pending(utente[p], card)
  <2>1. /\ v \in Utenti
        /\ \/ v.state = utente[p].state
           \/ utente[p].state = "WORKING" /\ v.state = "DONE_PENDING"
    BY ONLY <1>1, DoneTyped
  <2>2. utente'[p] = v
    BY <1>2, <2>1
  <2> HIDE DEF v
  <2>3. QED BY <1>2, <2>1, <2>2
<1>3. CASE WorkerBegins(p)
  BY <1>3 DEF WorkerBegins
<1>4. CASE WorkerWakes(p)
  BY <1>2, <1>4 DEF WorkerWakes
<1>5. CASE LooseWorkerRuns(p)
  BY <1>2, <1>5 DEF LooseWorkerRuns
<1>6. QED BY <1>3, <1>4, <1>5, WorkerThreads(p) DEF WorkerThreads

\* The end of the main thread, a signal, or the end of the process.
LEMMA EndingRegisters ==
  ASSUME NEW p \in Users, Before(p), Registers(p), Ending(p) \/ Signal(p) \/ Kill(p)
  PROVE  Registers(p)'
<1> USE Absent, Moved, AtTyped DEF Registers, AwaitsP2P, Closed, Listens, Places
<1>1. utente[p] \in Utenti
  BY DEF Before
<1>2. CASE SeeStop(p)
  BY <1>1, <1>2 DEF SeeStop
<1>3. CASE SendQuit(p)
  <2>1. FromUser("QUIT", NoCard) \in UserMessage
    BY FromUserTyped
  <2>2. QED BY <1>1, <1>3, <2>1, SendTyped DEF SendQuit
<1>4. CASE CloseUser(p)
  <2> DEFINE v == update_state(worker_joined(utente[p]), "DISCONNECTING")
  <2>1. v \in Utenti /\ v.state = "DISCONNECTING"
    BY <1>1, WorkerTyped, UpdateTyped DEF UtenteState
  <2>2. utente'[p] = v /\ main'[p] = At("closing")
    BY <1>1, <1>4, <2>1 DEF CloseUser
  <2> HIDE DEF v
  <2>3. QED BY <1>1, <1>4, <2>1, <2>2 DEF CloseUser
<1>5. CASE Exit(p)
  BY <1>1, <1>5 DEF Exit
<1>6. CASE Signal(p)
  BY <1>1, <1>6 DEF Signal
<1>7. CASE Kill(p)
  <2>1. utente'[p] = utente_init /\ main'[p] = At("killed") /\ p2p'[p] = "ended"
    BY ONLY <1>7, Killed, Before(p), p \in Users
  <2>2. QED BY <2>1, InitTyped
<1>8. QED BY <1>2, <1>3, <1>4, <1>5, <1>6, <1>7, Ending(p) \/ Signal(p) \/ Kill(p) DEF Ending

\* LInv holds before the processes start.
LEMMA InitLInv == Init => LInv
BY InitTInv, InitTyped, AtTyped
DEF Init, LInv, Registers, AwaitsP2P, Closed, Listens, At

\* No step breaks it, if the P2P server does not fail.
LEMMA LInvStep == "P2P" \notin Faults => (LInv /\ [Next]_vars => LInv')
<1> SUFFICES ASSUME "P2P" \notin Faults, LInv, [Next]_vars PROVE LInv'
  OBVIOUS
<1>1. TInv /\ TInv' /\ \A p \in Users : Registers(p)
  BY TInvStep DEF LInv
<1>2. ASSUME NEW p \in Users, UserStep(p) PROVE LInv'
  <2>1. Before(p) /\ Mine(p) /\ Registers(p)
    BY <1>1, <1>2, UserStepMine
  <2>2. Registers(p)'
    BY <1>2, <2>1, StartingRegisters, ReceiveRegisters, PendingRegisters, EndingRegisters,
       TerminalRegisters, P2PThreadRegisters, WorkerThreadsRegister
    DEF UserStep, MainThread
  <2>3. \A q \in Users \ {p} : Registers(q)'
    BY <1>1, <2>1, OthersRegister
  <2>4. QED BY <1>1, <2>2, <2>3 DEF LInv
<1>3. CASE UNCHANGED threads
  BY <1>1, <1>3 DEF threads, LInv, Registers, AwaitsP2P, Closed, Listens
<1>4. QED BY <1>1, <1>2, <1>3, EnvironmentMoves DEF Next, vars

\* LInv holds in every state, if the P2P server does not fail.
LEMMA AlwaysRegisters == "P2P" \notin Faults => (Spec => []LInv)
<1> SUFFICES ASSUME "P2P" \notin Faults PROVE Spec => []LInv
  OBVIOUS
<1>1. LInv /\ [Next]_vars => LInv'
  BY LInvStep
<1>2. QED BY <1>1, InitLInv, PTL DEF Spec

\* A user sends HELLO from a place it reaches only when its P2P server listens,
\* and the server does not close before the user stops.
THEOREM UserHearsFirst == "P2P" \notin Faults => (Spec => HelloWhenListening)
<1> SUFFICES ASSUME "P2P" \notin Faults PROVE Spec => HelloWhenListening
  OBVIOUS
<1> DEFINE Heard == \A p \in Users : Sends(p, "HELLO") /\ main[p].at = "hello" => p2p[p] = "serving"
<1>1. LInv => Heard
  BY DEF LInv, Registers, Listens
<1>2. [][Heard]_vars <=> HelloWhenListening
  BY DEF HelloWhenListening
<1> HIDE DEF Heard
<1>3. QED BY <1>1, <1>2, AlwaysRegisters, PTL DEF Spec

\* A user whose P2P server has closed is at its start or at its end, where no
\* thread is left that would give it the state of a user that goes on.
THEOREM ShutdownStays == "P2P" \notin Faults => (Spec => ShutdownHeeded)
<1> SUFFICES ASSUME "P2P" \notin Faults PROVE Spec => ShutdownHeeded
  OBVIOUS
<1> DEFINE Stays(p) == \/ utente'[p].state \in {"SHUTTING_DOWN", "DISCONNECTING"}
                       \/ main'[p].at = "killed"
           Heeded == \A p \in Users : utente[p].state = "SHUTTING_DOWN" => Stays(p)
<1>1. ASSUME LInv, [Next]_vars PROVE Heeded
  <2> SUFFICES ASSUME NEW p \in Users, utente[p].state = "SHUTTING_DOWN" PROVE Stays(p)
    OBVIOUS
  <2>1. TInv /\ p2p[p] = "ended" /\ main[p].at \in {"starting", "closing", "ended"}
    BY <1>1 DEF LInv, Registers, Closed
  <2>2. CASE utente' = utente
    BY <2>2
  <2>3. ASSUME NEW q \in Users, UserStep(q), q # p PROVE Stays(p)
    <3>1. UtenteMine(q)
      BY <2>1, <2>3, UserStepMine DEF Mine
    <3>2. utente'[p] = utente[p]
      BY <2>1, <2>3, <3>1 DEF UtenteMine, TInv, TypeOK
    <3>3. QED BY <3>2
  <2>4. CASE UserStep(p)
    <3>1. Before(p)
      BY <2>1, BeforeHolds
    <3>2. CASE Kill(p)
      <4>1. main'[p] = At("killed")
        BY ONLY <3>1, <3>2, Killed, p \in Users
      <4>2. QED BY <4>1 DEF At
    <3>3. CASE Starting(p) \/ Ending(p) \/ Signal(p)
      BY <2>1, <2>2, <3>3
      DEF Starting, StartUser, P2PStarted, Connect, ConnectFails, SendHello, SetIdle,
          Ending, SeeStop, SendQuit, CloseUser, Exit, Signal
    <3>4. ~Receive(p) /\ ~Terminal(p)
      BY <2>1
      DEF Receive, ReceiveAvailableCard, ReceivePing, ReceiveUserList, ReceiveQuit, ReceiveEnd, Read,
          Terminal, TypeRelayed, TypeChooseUser, TypeAckCard, TypeCardDone, TypeQuit, Types, InPass
    <3>5. ~Pending(p) /\ ~P2PThread(p)
      BY <2>1
      DEF Pending, Broadcast, TakeAck, MarkWorking, TakeDone, JoinWorker, StartAfterAck, EndPass,
          InPass, Pass, P2PThread, P2PReady, P2PFails, P2PEnds, Hear, Deliver
    <3>6. ASSUME NEW card, SetUser(p, mark_done_pending(utente[p], card)) PROVE Stays(p)
      <4>1. mark_done_pending(utente[p], card) = utente[p]
        BY DEF mark_done_pending
      <4>2. utente[p] \in Utenti
        BY <3>1 DEF Before
      <4>3. utente'[p] = utente[p]
        BY <3>1, <3>6, <4>1, <4>2, Moved
      <4>4. QED BY <4>3
    <3>7. CASE WorkerThreads(p)
      BY <2>2, <3>6, <3>7 DEF WorkerThreads, WorkerBegins, WorkerWakes, LooseWorkerRuns
    <3>8. QED BY <2>4, <3>2, <3>3, <3>4, <3>5, <3>7 DEF UserStep, MainThread
  <2>5. QED BY <1>1, <2>1, <2>2, <2>3, <2>4, EnvironmentMoves DEF Next, vars, threads
<1>2. [][Heeded]_vars <=> ShutdownHeeded
  BY DEF ShutdownHeeded
<1> HIDE DEF Heeded
<1>3. QED BY <1>1, <1>2, AlwaysRegisters, PTL DEF Spec
=============================================================================
