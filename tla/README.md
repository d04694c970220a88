# A formal model of the distributed kanban board

`src/` is a kanban board ("lavagna") and its users ("utente"): separate C
processes on one host that talk over TCP. The board owns the cards and the list
of users. It offers the first card of To Do to all users; each draws a random
cost, the users exchange the costs directly, and the cheapest one takes the card
(`ACK_CARD`), works on it and reports it done (`CARD_DONE`). The board pings
workers that are slow and evicts the ones that do not answer.

This directory models the board, the user processes with their three threads,
the two composed over their connections, and the library both run on (the
`select` loop, the framing of messages). TLC checks small instances; TLAPS proves
the safety properties of every component for every instance, and those of the whole
system where nothing dies or fails.

## 1. Inventory

| Component | Source | State | Operations |
|---|---|---|---|
| database | `src/lavagna/database.c` | user slots, cards, `num_users`, `offered_card_id` | add/remove a user, assign/clear a card, set/clear a ping, create, take, finish, move a card, return it to To Do, the two timeout queries |
| board | `lavagna.c`, `src/lavagna/lavagna_utils.c` | none beyond the database and the connections | one handler per message, one per operator command, `send_available_card`, `disconnect_user`, `check_timeout` |
| server | `src/common/server.c` | descriptor set of `select`, `max_fd`, `stdin_enabled` | select, accept, dispatch, remove a client or stdin, shut down |
| protocol | `src/common/protocol.c` | none | framing, blocking send and receive, (de)serialisation |
| client | `src/common/client.c` | the connection | connect, listen to terminal and board, close |
| user main thread | `utente.c` | connection to the board | terminal commands, messages of the board, sends decided by the shared state |
| user state | `src/utente/utente_state.c` | status, current card, peers, costs received; one mutex | `handle_available_card`, `record_choice`, `choose_winner`, `mark_*`, `take_*` |
| P2P thread, worker | `src/utente/p2p_thread.c`, `p2p_utils.c`, `worker_thread.c` | a listening socket; a sleeping thread | receive `CHOOSE_USER`; wait, then signal completion |

How they interact:

- user to board: `HELLO`, `CREATE_CARD`, `ACK_CARD`, `CARD_DONE`,
  `PONG_LAVAGNA`, `QUIT`, over one TCP connection per user;
- board to user: `AVAILABLE_CARD`, `PING_USER`, `SEND_USER_LIST`, `QUIT`, on the
  same connection;
- user to user: `CHOOSE_USER`, one short connection per message, so that two
  messages to one peer may overtake each other;
- inside the board: one thread; `server_run` calls a callback for each readable
  descriptor and then `check_timeout`. A result of -1 closes the connection;
- inside a user: three threads around one mutex-protected struct. The main
  thread reads it between two messages to see what the others decided
  (`run_pending_actions`), the P2P thread writes the costs it hears, the worker
  writes that its time is over.

Where the behaviour is hard:

- **recursion through failures.** `send_available_card` loops over the users and
  sends; a send that fails calls `disconnect_user`, which withdraws the offer
  and calls `send_available_card` again, *inside* the loop. `check_timeout`
  does the same. The outer loop then continues on a list made before.
- **every handler must end in a new offer** when it frees the board; nothing
  else wakes it up.
- **two records of one fact.** A card names its user (`assigned_user_port`) and a
  user names its card (`assigned_card_id`); commands change one side of it. And
  the user process has its own idea of what it works on.
- **time.** A worker is found to be stuck in two stages, in different passes,
  while its answers, its `CARD_DONE` or its death may be on the way.
- **agreement.** Each user elects a winner alone, from costs that arrive in an
  order of their own: before the offer they answer, after the vote is over, or
  from a user the board has meanwhile forgotten. Nobody confirms the result.
- **three threads.** Each decision is a critical section, but a handler is
  several: send then mark, release then join. Between them the others run.
- **a pass over a stale set.** `server_run` walks over a copy of the set while
  its callbacks close, and its listening socket reuses, descriptors in it.
- **a stream.** TCP gives bytes, in pieces of any size, and ends anywhere.

What makes each component correct:

- *database*: typed; no port twice; the counter is the number of used slots
  (`database_get_users_list` sizes its array by it);
- *board*: the offer is always one that can be taken; the board is never idle;
  one card in Doing at a time, owned by a registered user who knows it; a user
  that leaves, however it leaves, takes no card with it; handlers end; stuck
  cards come back; together, an implementation of the kanban of the course text;
- *server*: what is open is watched and what is watched is open; the bound
  `max_fd` covers it; a readable descriptor is served, and no callback waits for
  one that is not; *protocol*: what is sent is what is received, whole and in
  order, or the connection ends;
- *user*: one worker at a time, never awaited while it sleeps; a completion is
  reported for the card that was worked on; told to stop, every thread ends;
- *system*: one winner per offer, whose work the board knows of; a card shown in
  Doing is one somebody works on; every card is worked on once and ends in Done.

All components are listed in `PROJECT.json` under `components`, and everything
that is hard to test, at its line and with the properties that cover it, under
`hazards`.

## 2. Modules

| Module | What it is |
|---|---|
| `Database` | the struct `Database` as a record and every function of `database.c` as an operator on it |
| `Lavagna` | the board process: state, handlers, commands, loops, timeouts, connections, and their properties |
| `KanbanBoard` | abstract specification: what the board promises when nobody moves cards by hand |
| `LavagnaOffers` | the board plus a history variable: the last offer each user was told |
| `UserState` | the struct the threads of a user share, and every critical section of `utente_state.c` as an operator on it, the vote included |
| `Utente` | the user processes: main thread, P2P thread, workers; the board is any process that speaks the protocol |
| `SharedWork` | abstract specification: users share out cards, one at a time, each once |
| `Sistema` | `Lavagna` and an instance of `Utente` joined by their connections; implements `SharedWork` under conditions: its safety (`WorkedOnce`), and with fairness all of it (`SharesWork`) |
| `ServerLoop` | the loop of `server.c` over the descriptor set, with callbacks that may close connections |
| `Protocol` | `send_message` and `receive_message` on a byte stream |
| `Channel` | abstract specification: a FIFO channel of whole messages, as `Lavagna` and `Utente` use it |
| `DatabaseProofs` | lemmas on the operators of `Database`, proved |
| `LavagnaProofs` | the invariants of `Lavagna` that hold for all inputs, proved |
| `BoardProofs` | the properties of `Lavagna` as a kanban board, the refinement to `KanbanBoard`, the end of its recursion, proved |
| `OffersProofs` | what the board tells its users, proved |
| `ServerLoopProofs` | the invariants of `ServerLoop`, proved |
| `UtenteProofs` | the invariants and action properties of `Utente`, proved |
| `ProtocolProofs` | that `Protocol` implements `Channel`, proved |
| `SistemaProofs` | the invariants of `Sistema`, and that it implements the safety of `SharedWork`, when nothing disturbs it, proved |

Operators whose comment begins with "variant" are not part of the system: each
is a plausible bug, a form of the definition that follows it, kept to show that
a property notices it.

### The board

**State.** `db` is the struct. A card is indexed by its id (ids are unique and
cards are never deleted) and has no text. A timestamp is the number of whole
seconds since it was set, stopped at the timeout it is compared with, and kept
only where it is read: for a Doing card and a PINGED user. `peer[fd]` is the
process at the other end of an open descriptor, `gone` the descriptors whose
process has exited although the board has not read so yet, `out` the message
the last step sent. `stack` holds the loops the running handler has not
finished, innermost first.

**Actions.** One per handler (`HandleHello` ... `HandlePong`), per operator
command (`MoveCard`, `SendUserList`, `PingUser`, `AskOffer`), per loop iteration
(`OfferStep`, `WorkStep`, `CheckPingStep`, `EvictStep`), plus `CheckTimeout`,
`Accept`, the closing of connections, and `Tick` (time). A handler that fails a
test of the code changes nothing and is simply not enabled, except where the
code then closes the connection (`Refuse`). `SHOW_LAVAGNA` and `SHOW_UTENTI`
print only and are left out.

**Atomicity.** The process has one thread, so a handler without sends is one
step. A handler that starts a loop pushes it on `stack`; each iteration is a
step, and no handler starts while `stack` is not empty (`Idle`). What the
environment does (a process dies, time passes) may happen between any two
iterations. `DisconnectUser` and `SendAvailableCard` call each other in the code
and take what is left to do as the parameter `k` in the model.

**Sends.** A send to an open connection whose process is alive succeeds. One to
a process that has gone may succeed (the kernel learns late) or fail. A send
on a descriptor that is closed fails.

**Order.** Users are visited in slot order by `check_ping_timeout` and in
ascending port order by the offers (`database_get_users_list` sorts). Timed out
cards are visited in any order: the code visits them in creation order, which
the ids do not determine.

**Environment.** A client that follows the protocol sends `HELLO` with its own
port and then anything a registered user may send. The constant `Inputs` switches
on what the `utente` program does not do by itself: `HELLO` repeated from its
terminal, connections of other programs (`FOREIGN`: any port, malformed
messages), and the operator's commands. `CreateColumns` and `MoveColumns` are
the columns named in `CREATE_CARD` and `MOVE_CARD`. `Silent` users hang for good
once they work.

### The users

**State.** `utente[p]` is the shared struct of the process on port p. The table
of choices is a set of pairs of a port and a cost: the code never stores a port
twice, and its order is not read. `main[p]` is where the main thread stands
between two observable steps, with what it holds on its stack (the card whose
`CARD_DONE` it is about to send, the costs it is about to broadcast). `worker[p]`
is the thread `worker_thread` names; `loose[p]` the workers that `CARD_DONE`
typed at the terminal has detached and that go on sleeping.

**Actions.** One per place where another thread can get in between. Each critical
section is one operator of `UserState` in one action; a handler of several
sections and sends is several actions, in the code's order: `TakeAck` (test the
state, send `ACK_CARD`), `MarkWorking` (second section, start the worker);
`TakeDone` (release the card), `JoinWorker` (await the worker, send `CARD_DONE`);
`ReceiveAvailableCard`, then `Broadcast`. The worker reads its card when it first
runs (`WorkerBegins`), not when it is created. A pass of the main loop serves the
terminal, then the board (`listen`, `server`), then the pending actions.

**Channels.** `toUser[p]`, `toBoard[p]`: the messages on the connection not yet
read, in order. `eof`: the board has closed it. A send on a connection the board
has closed is lost and may be reported or not. `wire`: costs on their way to a
peer, in any order. A cost for a port nobody listens on is lost.

**Failures.** `Faults`: the P2P port is taken, the board does not accept, the P2P
server fails, SIGINT or SIGTERM. `Kill` ends a process of `Mortal` anywhere, also
after only some of the costs of a broadcast have left. `Typed` is what is typed at
the terminals, `QUEUE` bounds the messages a board left out of the model, or a
terminal, leaves unread.

### The whole

`Sistema` extends `Lavagna` and instantiates `Utente` with every port as a user. A
step of the board that reads takes the head of `toBoard`; what it puts in `out`
is appended to `toUser` (`Carry`). A user that connects is `Accept` at the board;
one that closes or dies is `PeerGone` there, and the board finds out later
(`ServeEnd`), after all that was sent before. Messages the board's handlers refuse
are consumed (`Ignored`), so that a user's queue never blocks on one.

`ServerLoop` shows what `Lavagna` assumes of its server (each message handled by
itself, each closed connection noticed), `Protocol` what all of them assume of
the connections (whole messages, in order: `IsChannel`).

`ServerLoop` keeps of a connection whether there is something to read on it. One
step is one descriptor of a pass. A callback, a command and the timeouts may
close any set of connections, which covers every chain of `disconnect_user`;
with `CloseOthers` FALSE it is the P2P server, whose callback closes its own, and
whose behaviours are among those of the other value.

In `Protocol` a byte is the pair of the message it belongs to and its place in it,
so that a receiver that loses count is seen to put together what the sender took
apart elsewhere.

## 3. Runs

One run for each question; questions on the same instance share a run.

| Run | Module | Properties | What it shows |
|---|---|---|---|
| `clients` | `Lavagna` | `TypeOK`, `UniquePorts`, `CountExact`, `OfferSound` | Everything a client or the operator can send: repeated HELLOs, foreign clients, a port below the minimum, more clients than slots, cards moved into and out of Doing, pings, offers asked for |
| `columns` | `Lavagna` | `OneAtATime`, `NeverIdle`, `LeaverReturnsCards`, `ImplementsBoard`, `StalledWorkReturns` | Two users, one of which hangs once it works, create cards in To Do and Done up to the limit. One card in Doing at most, and no offer meanwhile. A user that leaves (QUIT, death, failed send, eviction) leaves no Doing card behind, and a card whose user hangs leaves Doing. The board implements `KanbanBoard`, every action of which occurs |
| `offers` | `LavagnaOffers` | `OfferCoherent`, `DoingOwned`, `RegisteredConnected`, `LoopsDescend` | Three users that join, die, or hang for good once they work (`Silent`: with one card, answering or finishing leads to no further offer); sends fail inside the loop of an offer. At rest, the users told of the offered card are two or more and all agree on who they are. The recursion of the board ends |
| `user` | `Utente` | `TypeOK`, `HelloWhenListening`, `ShutdownHeeded` | One user process against any board: every command, the P2P port taken, no board, signals, death. It registers only when the others can reach it, and not at all when they cannot |
| `workers` | `Utente` | `OneWorker`, `NotBlocked`, `DoneAfterWork`, `StopsWhenAsked` | Two cards offered again and again, also while the worker sleeps; `ACK_CARD` and `QUIT` typed, the P2P server failing. One worker, never awaited while it sleeps; `CARD_DONE` only for the work done; every thread ends when told |
| `vote` | `Sistema` | `OneWinner`, `WorkIsGiven`, `WorkedOnce` | The board and three users, offers and costs in every order, two values of cost so that users tie, a vote that may outlast the work. At most one user takes itself for the winner, and it has the card at the board; the card is worked on once, by it |
| `shares` | `Sistema` | `SharesWork`, `WorkEnds` | The board and two users with two cards, under fairness: each card is worked on once, by one user, and all end in Done |
| `timeouts` | `Sistema` | `DoingIsReal` | Work longer than the timeouts, answers that cross pings, a user signalled or killed anywhere, cards created meanwhile. A card in Doing is worked on, reported, or its user's end is still to be read |
| `server` | `ServerLoop` | `TypeOK`, `Watched`, `MaxCovers`, `NothingLeftOpen`, `WaitsForNobody`, `Served` | Callbacks, commands and timeouts close any connection in the middle of a pass; descriptors with gaps, reused, too large |
| `messages` | `Protocol` | `TypeOK`, `IsChannel`, `Delivered`, `ReceiveReturns` | Messages cut anywhere, a sender that dies inside one, types and lengths that are refused: a FIFO channel of whole messages |
| `two_winners` | `Sistema` | `OneWinner` | *violated*: see below |
| `lost_cost` | `Sistema` | `WorkEnds` | *violated*: see below |

`OfferCoherent` is the property the election rests on: a user decides when it
has as many costs as the offer told it there are voters, so two users told of
different sets either wait for ever or elect two winners. It holds because
every removal withdraws the offer and repeats it, although an outer loop goes
on with an old list.

`LoopsDescend` is termination of the recursion, as an action property. The
measure is lexicographic: the users registered; the pending entries that can
start a loop without removing a user (users already removed, cards without a
registered user, the ping check still to come); the pending entries. Each step
of a loop lessens it.

`ShutdownHeeded`, `DoneAfterWork`, `NotBlocked` are about the second critical
section of a handler: what another thread wrote after the first must survive it.
They hold in their runs because of facts that are nowhere together in the code:
the worker started by `utente_start_worker` is new at the time of the second
section, an offer during the work changes the card so that the sleeping worker's
`mark_done_pending` finds another one, and `worker_started` refuses a second.

`WorkedOnce` is `SharedWork` without its fairness. A card's worker there is the user whose
shared state says WORKING on it; a card has finished when that user's work has ended
(DONE_PENDING, or `CARD_DONE` about to be sent or read) or the board shows it in Done. So
it says what no component sees: between the end of a work in one process and the
Done of another no second user begins that card, nor anybody another one.

`WaitsForNobody` speaks of a server without a terminal (a user's, or a board whose
input has ended). Its listening descriptor is the lowest, so what a pass accepts
is accepted before any of its callbacks closes, and a number freed in a pass is
not reused in it. The operator's commands run earlier than that: see `reused`.

### What the code does not keep

Two runs end in a violation; each states what a document of the repository says
and is a finding in `PROJECT.json`:

| Run | Property | What happens |
|---|---|---|
| `two_winners` | `OneWinner` (`doc.md:26`) | A voter leaves and the card is offered again. `utente_start_election` keeps the choices it has for that card and `add_choice_locked` ignores a port's second cost, but every user draws a new one: users that heard the first cost of a peer and users that hear only the second elect different winners |
| `lost_cost` | `WorkEnds` (`doc.md:7`) | A user still waits for a cost of a card while the winner has done its work and the next card is offered. The cost a peer sends for that next card is dropped, because the table holds another card; its election never ends, and no card is offered any more |

The second needs a cost that is slower than the work, at least five seconds; with
`Prompt` (`shares`) the system does what it promises.

Further configurations are kept beside the runs. TLC ends each of them with a
counterexample: they show why the runs above leave a command or a failure out,
and what the program does then.

| Configuration | Property | What happens |
|---|---|---|
| `create_doing` (`Lavagna`) | `UnownedReturns` | `CREATE_CARD 7 DOING x` makes a Doing card of nobody; its timeout disconnects user 0, which does not exist; it stays, and nothing is offered meanwhile |
| `move_doing` (`Lavagna`) | `LeaverReturnsCards` | `MOVE_CARD <id> DOING <port>` on a user that works: it then has two cards and returns one |
| `move_done` (`Lavagna`) | `LeaverReturnsCards` | `MOVE_CARD <id> TODO` on a Done card clears the user that completed it, who now works on another; that card is lost when the user leaves |
| `pong` (`Lavagna`) | `AckAccepted` | `PONG_LAVAGNA` makes a free user ACTIVE: if it wins the vote, its `ACK_CARD` is refused |
| `hello_again` (`Lavagna`) | `RegisteredConnected` | A second HELLO closes the socket of a user that stays registered |
| `send_fails` (`Lavagna`) | `EnoughVoters` | A send fails in the loop: the one user left is sent an offer with total 1 |
| `two_workers` (`Utente`) | `OneWorker` | `CARD_DONE` typed detaches a sleeping worker and clears `worker_started` (`utente_state.c:261`); the next card starts a second |
| `joins_new` (`Utente`) | `NotBlocked` | The detached worker wakes while the user works on a card of the same id: `mark_done_pending` ends that work, and the main thread awaits the new worker, deaf to the board |
| `p2p_down` (`Utente`) | `ShutdownHeeded` | The P2P server fails between `HELLO` and `utente_set_idle`: IDLE is written over SHUTTING_DOWN (`utente.c:459`), and the user goes on without hearing any cost |
| `reoffer` (`Sistema`) | `DoingIsReal` | A voter dies and the card is offered again. A user that has not read this second offer wins with a cost that answers it, and the board accepts its `ACK_CARD`. Then it reads the offer, begins a new election over WORKING (`utente_state.c:156`), loses it, here to the dead user, and drops its worker's completion: the card stays in Doing, every ping is answered, and nothing is offered any more |
| `refused_ack` (`Sistema`) | `WorkIsGiven` | The other voter dies, the offer is withdrawn, the `ACK_CARD` on its way is refused; the winner works all the same (`utente.c:328`) |
| `late_pong` (`Sistema`) | `WorkIsGiven` | A worker is pinged, and its `CARD_DONE` is on its way when it reads the ping. The board makes it IDLE; then its `PONG_LAVAGNA` marks it ACTIVE, without a card (`database.c:292`). It wins the next vote, `database_card_doing` refuses its `ACK_CARD`, it works all the same, and its `CARD_DONE` is refused too: the card stays on offer. Found while looking for the weakest condition of `WorkGiven` |
| `reused` (`ServerLoop`) | `NeverWaits` | A command of the operator closes a ready descriptor, the listening socket reuses its number later in the pass, and the pass, walking over the copy, calls the callback for the new connection, which blocks in `recv` until that client writes (`server.c:124`) |

### Bounds and why they are enough

- `Ports`, `Fds`, `MAX_USERS` (board): two or three. Two voters are the smallest
  number that gets an offer; with three, a failed send leaves two, so the inner
  loop of a failure offers again while the outer loop still has an entry.
  `clients` has three ports for two slots and two descriptors, one of the ports
  below `MIN_USER_PORT`.
- `CardIds`, `MAX_CARDS`: one card where the questions are about users, two where
  they are about a user with two cards, two cards in Doing, or the next card.
- `WORKING_TIMEOUT`, `PING_TIMEOUT`: 1. An age is 0 or "expired"; ages advance
  separately from every handler, and between the iterations of loops. They stop
  at the timeout; this loses nothing, they are only compared with it.
- Descriptor numbers are reused lowest first, as the kernel does, so that a
  closed descriptor that is still recorded for a user comes back as another's.
- `Costs`: one where only arrival matters, two for the winner: less, more, equal.
- Each port has at most one process in a run of `Utente` and `Sistema`; that a
  process comes back on a port is in `clients`, for the board.
- `QUEUE`: 1. A board that is not modelled, and a terminal, leave one message
  unread; in `Sistema` all else a user or the board sends is unbounded, and the
  number of messages is bounded by the protocol itself.
- `user` and `workers` have one process and any environment: the threads of two
  processes share nothing but the messages, which the environment sends in any
  order and number. Peers that are not modelled send any cost at any time.
- `vote` has three users, so that a user can hear of a card from two peers before,
  between and after its own offer; `shares` and `timeouts` two.
- `ServerLoop`: three connections, descriptors with a gap (4, 6, 7), the last one
  too large for `select`; two that are open together are enough for one to
  close the other, the third to reuse its number.
- `Protocol`: a header of two bytes and payloads of none, of the size of the
  buffer, and larger; a kernel that holds two to four bytes, so that every block
  is cut at every place; three messages, so that one comes after one that was cut.

There are no state constraints and no symmetry (the ports are ordered: the loops
visit them in that order). Deadlock is checked in `clients`, `columns` and
`offers`: the board never stops. It is not in the others, where the system may:
user processes end, a server shuts down, a sender leaves.

### Fairness

`FairSpec` of `Lavagna` (`columns`):

- `WF(Loops)`: a handler that has started goes on to its end (sends do not block
  for ever);
- `WF(Tick)`: time passes;
- `SF(CheckTimeout)`: `server_run` calls `check_timeout` after every pass, and
  `select` has a timeout, so the check is made infinitely often; strong, because
  other handlers may run in between and make it momentarily not possible;
- `SF(ClientClosed(fd))`: `select` reports a closed connection until it is read.

Nothing is assumed of the users there: not that they answer, finish or leave.

`ThreadFairness` of `Utente` (`workers`): each thread of a process runs; the board's
messages are served although the pending actions go on (strong: `select` reports
them in every pass); a sleep ends. Terminal, signals, faults and the environment
may do nothing.

`FairSystem` of `Sistema` (`shares`): the threads of every user run and all users
are started; the board's handlers go on to their end; what is readable at the
board is served, strongly, because the timeouts are checked between two passes
of `select` and what is served first is the kernel's choice. `Prompt` is the one
assumption about durations: a work, which sleeps five seconds or more, outlasts
the messages of the vote before it. `vote` and `lost_cost` do without it.

`FairSpec` of `ServerLoop`: `WF(Select)` and `WF(Pass)`, `server_run` is called in a
loop and walks on. Clients, terminal and timeouts may do nothing.

`FairSpec` of `Protocol`: the receiver reads what there is, and a sender that has
begun a message goes on or leaves. That second half is not a fact about this code
but about its peers, and it is needed: `recv_all` blocks without a timeout, and a
client that stops inside a message stops the board's only thread.

## 4. Proofs

For every value of the constants that satisfies the assumptions below, and under
the condition in the second column:

| Theorem | Condition | Statement |
|---|---|---|
| `LavagnaProofs`: `TypesCorrect` | | `Spec => []TypeOK` |
| `PortsAreUnique` | | `Spec => []UniquePorts` |
| `CounterIsExact` | | `Spec => []CountExact` |
| `OffersAreSound` | | `Spec => []OfferSound` |
| `BoardNeverIdle` | | `Spec => []NeverIdle` |
| `BoardProofs`: `OneCardAtATime` | `DoingByVote` | `Spec => []OneAtATime` |
| `DoingIsOwned` | `KanbanInputs` | `Spec => []DoingOwned` |
| `LeaversReturnCards` | `KanbanInputs` | `Spec => LeaverReturnsCards` |
| `BoardImplements` | `KanbanInputs` | `Spec => ImplementsBoard` |
| `HandlersReturn` | | `Spec => LoopsDescend` |
| `OffersProofs`: `UsersAreConnected` | `OneHello` | `Spec => []RegisteredConnected` |
| `OffersFit` | `OneHello` | `OffersSpec => []OfferCoherent` |
| `ServerLoopProofs`: `ServerTypes` | | `Spec => []TypeOK` |
| `WatchedIsOpen` | | `Spec => []Watched` |
| `MaxCoversTheSet` | | `Spec => []MaxCovers` |
| `StopClosesAll` | | `Spec => []NothingLeftOpen` |
| `CallbacksNeverWait` | | `Spec => []WaitsForNobody` |
| `UtenteProofs`: `UserTypes` | | `Spec => []TypeOK` |
| `UserWorksOnce` | `"CARD_DONE" \notin Typed` | `Spec => []OneWorker` |
| `UserAnswers` | `"CARD_DONE" \notin Typed` | `Spec => []NotBlocked` |
| `DoneIsEarned` | `"CARD_DONE" \notin Typed` | `Spec => DoneAfterWork` |
| `UserHearsFirst` | `"P2P" \notin Faults` | `Spec => HelloWhenListening` |
| `ShutdownStays` | `"P2P" \notin Faults` | `Spec => ShutdownHeeded` |
| `ProtocolProofs`: `MessagesTyped` | | `Spec => []TypeOK` |
| `StreamIsChannel` | | `Spec => IsChannel` |
| `SistemaProofs`: `SystemSafe` | `Undisturbed` | `SystemSpec => []SystemInv` |
| `WinnerAlone` | `Undisturbed` | `SystemSpec => []OneWinner` |
| `WorkGiven` | `Undisturbed` | `SystemSpec => []WorkIsGiven` |
| `DoingReal` | `Undisturbed` | `SystemSpec => []DoingIsReal` |
| `WorkShared` | `Undisturbed` | `SystemSpec => WorkedOnce` |

The runs of section 3 check the same properties on instances that satisfy the
conditions; `timeouts` checks `DoingIsReal` on one that does not satisfy `Undisturbed`.

**Assumptions.** `TimeoutsAssumption` and `LimitsAssumption`: the limits and
timeouts are positive and the initial cards fit. `IdsAssumption`: ports,
descriptors and ids are positive, the ids are finitely many and include the
initial ones. `InputsAssumption`: the inputs are inputs. `UserAssumption`: the same
for a user, whose ports are finitely many, being numbers of 16 bits.
`ServerAssumption`, `ProtocolAssumption`: descriptors are numbers above the listening
one; headers and buffers have a size. There is no bound on the number of users,
cards, descriptors, messages or bytes.

**Conditions.** Each leaves out what a configuration of section 3 shows to break the
property, and nothing else that is known to:

- `DoingByVote`: neither `CREATE_CARD` nor `MOVE_CARD` names the column Doing (with two
  cards put there by hand two are there). `KanbanInputs`: in addition `MOVE_CARD` is
  not used (`move_doing`, `move_done`) and `CREATE_CARD` does not name Doing
  (`create_doing`); pings, lists, offers asked for by the operator, foreign clients
  and repeated HELLOs are all in.
- `OneHello`: the clients are the `utente` program and do not repeat HELLO at the
  terminal (`hello_again`). The operator's commands are all in.
- `CARD_DONE` is not typed: `two_workers`, `joins_new`. The other commands are in, and
  every fault.
- The P2P server does not fail once it listens: `p2p_down`. That its port is taken
  is in, and every command.
- `Undisturbed`: the terminals type `CREATE_CARD` only (`Sistema` has no operator), no
  process dies or is signalled, the P2P servers do not fail, no timeout runs. In are:
  users that never start, start late, find their port taken, fail to connect or are
  refused by the board, cards created at any time, offers and costs in any order,
  votes slower than the work, any number of users. With a user that dies three of the
  four properties fail: `two_winners`, `reoffer`, `refused_ack`. `CARD_DONE` typed and a
  failing P2P server break the user alone (`two_workers`, `p2p_down`), repeated HELLOs
  the board (`hello_again`). With timeouts `WorkIsGiven` fails (`late_pong`), with nobody
  dead. `timeouts` checks `DoingIsReal` with deaths and timeouts, for two users.

**The board, all inputs.** The inductive invariant is

    IInv == Good(db) /\ ControlTyped
    Good(d) == Consistent(d) /\ Sound(d) /\ NotIdle(d)

where `Consistent` is "typed, no port twice, counter exact", `Sound` is
`OfferSound` and `NotIdle` is `NeverIdle`, of an arbitrary database. None of the
parts is inductive alone: the counter is exact after `remove_user` only because
the port found is in a used slot, a new offer is sound only because
`next_todo_card` returns a card that exists, which needs types, and `NotIdle`
is kept by the handlers that offer nothing only because of what they leave
alone. Handlers build a database in two to four calls and
pass it to `send_available_card`, with intermediate ones that are not `Good`.
So the lemmas are about databases:

1. `OfferedGood`: given any `Consistent` and `Sound` database,
   `send_available_card` leaves a `Good` one. Being idle is repaired here and
   nowhere else.
2. What each handler passes to it is `Consistent` and `Sound`: because the offer
   was withdrawn (`DisconnectedSound`, `MoveSound`), or because what changed is
   neither the offered card nor fewer users (`AddUserSound`, `CreateSound`,
   `FinishSound`: a card in Doing is not the one on offer).
3. `TakeGood`: `ACK_CARD` offers nothing, but leaves a card in Doing.
4. Pings, their answers and time change no column and no counter
   (`SameCardsGood`).

`DatabaseProofs` supplies, per operator, that it keeps `Consistent` and what it
leaves alone; the two facts under everything are that the scans find what there
is (`FirstFinds`, by well-foundedness of `<`) and the cardinality of the used
slots after one is added or removed.

**The board as a kanban.** Lemma `Steps` (`BoardProofs`) sorts all handlers and loop
iterations by what they do to the database: a user joins, leaves, takes or
finishes a card, a card is created or moved, or nothing changes but pings and
ages. What follows is about two databases. `OneCard` is `OneAtATime` of a
database, inductive together with `IInv`. The rest needs `Employed`: user and card
name each other, the port in the card, the card in the slot; a Doing card whose
user has gone would be found by no `disconnect_user`. From `Employed`, `OneCard` and
`IInv` each kind of step is one of `KanbanBoard`.

**The recursion.** `HandlersReturn` needs of the stack only that its sets are
finite. `LeaveDescends` and `AfterCounts` say what an iteration takes from the three
components of the measure; removing a user makes entries of the other loops into
ones that can start a loop, but lessens the first component.

**What users are told.** `Wired`: the slot of a user has the descriptor of the process
with its port. It makes `disconnect_user` close the connection of the user it
removes and no other. `OInv` adds `Said`: what each pending entry of an unfinished
offer will still send agrees with what was sent to those who know of the card, or
a pending removal withdraws that offer.

**The server.** `SInv` adds to the properties `Owners` (a descriptor that is open names a
connection that was made and has left the backlog, and no two name the same one) and
`Serving` (in a pass of a server without a terminal, and in any pass before its
first descriptor, each client descriptor still to be visited has something to
read; once the listening descriptor has had its turn, it may instead have been
closed).

**The user.** Three invariants, each of one user `p`: a step of another process touches
nothing of `p` but its `toUser` and `wire`, which is proved once (`UserStepMine`).

- `TInv`: types, and what a board sends: an offer names the ports of others.
- `WInv`: `worker_started` is set exactly while there is a worker to await
  (`Counted`), a user that votes or works has a card (`HasCard`), and DONE_PENDING, or
  a main thread at `pthread_join`, means that the worker of that very card has run
  to its end (`Worked`).
- `LInv`: between the P2P thread's first word and HELLO, the P2P server listens
  (`Listens`), and SHUTTING_DOWN is set only at the start or the end of the main
  thread (`Closed`).

**The messages.** `PInv` gives every byte on its way a place: `start[j]` is where
message j begins, counted from the first byte of the message the receiver is at,
and the byte at `start[j] + i` is the i-th of message j (`Flows`). The sequence of
messages may have one more than `sent`: one that a sender that left had begun
(`Begun`). From this a call of `recv` gives the next bytes of one message
(`ReceiveCases`): more of it, a header refused, or the whole of it and nothing of the
next. The queue of the channel is what is sent and not received; at the end of the
stream it is empty (`EndOfStream`), because what is left is less than a message.

**The whole.** `SystemInv` is about votes, which no variable holds: of each card, the
users called to vote on it (`V[c]`) and the votes cast (`B[c]`, a cost for each user
that has read the call). The invariant says that there are such `V` and `B`, and each
step shows the next ones: an offer fixes `V[c]` to the users registered, a user that
reads its call adds its vote to `B[c]`, every other step leaves both alone. Its parts:

- `BoardInv`: that of the board, with `Employed`, `OneCard` and `Wired`, kept by the lemmas
  of `BoardProofs` on databases.
- `Ballots`, `Calling`, `Mail`, `Cast`: who was called is still registered and is called
  once; the unfinished loop of an offer has still to call exactly those with no call
  in their queue and no vote; each cost on its way is a vote.
- `Table`: what a user has counted are votes of its card. So a user that has counted as
  many as were called has counted all (`AllVotes`, by cardinality), and all that decide
  decide alike (`Decides`); `Elected` names whom they choose. No property of
  `choose_winner` is needed but that it is a function of the choices: were it to
  choose badly, all would choose badly together.
- `Duty`, `Ordered`, `Spot`: from `ACK_CARD` sent to `CARD_DONE` read a card is in the hands of
  the user elected for it: on offer with the ack on its way, or given; an ack on its
  way is one the board will accept; a completion is reported once, after the ack.
- `FreeIdle`: nobody free is marked busy at the board, so no `ACK_CARD` is refused.

Before it was proved TLC checked `Voting` with `V` and `B` as history variables
on two small instances. `OneWinner`: two users with a card are elected, the board has
one card on offer or given (`OneElected`), and of one card one user is elected. A step
of the board calls one more user or reads one message (`BoardKinds`; a lemma for each
type), a step of a user is at one place of its threads (a lemma for each).

`WorkShared` needs no other invariant. `Doers`, the pairs of a user and the card it works
on, has at most one element, and so determines `AtWorkOn`; the lemmas `...Shares` show
that `MarkWorking` is `Begin` (the winner is elected, so no work on the card has ended),
that the waking of the worker is `Finish`, and that all else is a stutter: releasing,
reporting and the board's reading of `CARD_DONE` (`BoardShares`) each hand the end of a
work from one record to the next.

**Only model-checked:**

- `OneWinner` and `DoingIsReal` outside `Undisturbed`: they fail when one of three users dies,
  and `timeouts` checks `DoingIsReal` with two users that die and are pinged. `WorkIsGiven`
  fails there, and `WorkedOnce` is not meant there, as `SharedWork` knows no deaths;
- liveness (`StalledWorkReturns`, `StopsWhenAsked`, `SharesWork`, `WorkEnds`,
  `Served`, `Delivered`, `ReceiveReturns`): under fairness, out of the prover's
  reach. `SharesWork` is `WorkedOnce`, which is proved, with fairness, under the
  assumption `Prompt`;
- what `choose_winner` returns (the least cost, the lowest port in a tie): its
  definition says so, and no theorem needs it.

No module declares a RECURSIVE operator.

## 5. Not modelled, and why

- Texts of cards, printing, parsing of terminal commands (`get_command_line_input`,
  `strtol`): no property depends on them; the models take the values parsed.
  So are the byte order and the layout of payloads: a message carries its values.
- Overflow of ids and truncation of typed numbers: one typed number does it and no
  other step; listed as hazards.
- Several lines read at once from a pipe, all but the first of which are lost: a
  terminal gives one line per read; listed as a hazard.
- Failing calls of set-up (`socket`, `bind` of the board, `malloc`): the process
  exits before it has state anybody sees. A worker that cannot be created ends
  the user as any other failure of its main loop does.
- The search for the first free port of a user: it has its result, the port. The
  P2P port that is taken is modelled.
- `doc.md:26` says that the sequence of `rand` is advanced according to the port. The
  code that did is commented out (`utente_state.c:88`); the model lets every user
  draw any cost, so that nothing here depends on it.
- `database_user_set_status`: nobody calls it. `SHOW_LAVAGNA`, `SHOW_UTENTI`,
  `SEND_USER_LIST` sent by a user: they print or answer, and change nothing.

What the models leave out on purpose, beside the bounds:

- `wire` is a set: two equal costs of one user for one card on their way to one
  peer are one. The second would change nothing, as a port votes once.
- A connection is accepted at once; a user that connects and dies before is one
  that dies after.
- The costs of one broadcast leave in one step, except when the process dies in
  it. They arrive separately, in any order, so a receiver sees no difference.
- A typed id that is not the current card's is refused by the code and not typed
  in the model.

## 6. Plan

1. `Database`, `Lavagna`: the board, its safety, its runs. *Done.*
2. `KanbanBoard`, `LavagnaOffers`: what it promises and what it says. *Done.*
3. `DatabaseProofs`, `LavagnaProofs`: types, counter, offers, never idle. *Done.*
4. `UserState`, `Utente`: one user, its three threads. *Done.*
5. `Sistema`, `SharedWork`: board and users; the election, with
   `CHOOSE_USER` in any order, peers that leave, offers repeated. *Done.*
6. `ServerLoop`: a pass of `select` over a copy of the set. *Done.*
7. `Protocol`, `Channel`: framing with partial transfers. *Done.*
8. `BoardProofs`, `OffersProofs`, `ServerLoopProofs`, `UtenteProofs`, `ProtocolProofs`:
   the components, and the refinements to `KanbanBoard` and `Channel`. *Done.*
9. `SistemaProofs`: the whole, undisturbed: one winner, its work known to the board,
   the refinement to `SharedWork`. *Done.*
10. What a repaired election would need to stay right when users die (an offer number
    in `AVAILABLE_CARD` and `CHOOSE_USER`, an answer to `ACK_CARD`): a change to the code,
    for which `Sistema` and `SystemInv` are the place to start.

## 7. Running

    tlc -config columns.cfg Lavagna
    tlc -config offers.cfg LavagnaOffers
    tlc -config user.cfg Utente
    tlc -config shares.cfg Sistema
    tlc -config server.cfg ServerLoop
    tlc -config messages.cfg Protocol
    tlapm BoardProofs.tla
    tlapm SistemaProofs.tla

The tables above give the module of every configuration. The largest run, `user`,
has 850 thousand states, `offers` half a million, `clients` a third of one; each
takes about a minute with two workers. Each proof module is proved in one or two
minutes, `SistemaProofs` in six, each without the modules it extends, which are proved
by themselves.
