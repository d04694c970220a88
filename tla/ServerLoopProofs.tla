--------------------------- MODULE ServerLoopProofs ---------------------------
(***************************************************************************)
(* The select loop: the invariants of module ServerLoop for every number   *)
(* of connections and descriptors, every FD_SETSIZE, with or without a     *)
(* terminal, whichever connections the callbacks close.                    *)
(***************************************************************************)
EXTENDS ServerLoop, TLAPS

\* A connection is open on one descriptor at most, once it is accepted.
Owners == /\ \A fd \in Fds : owner[fd] # NoConn => owner[fd] \in made \ backlog
          /\ \A f, g \in Fds : owner[f] = owner[g] /\ owner[f] # NoConn => f = g

\* A pass with no command in it closes nothing before the turn of the listening
\* descriptor, so the descriptor accept takes is not one of the pass; after it
\* a descriptor of the pass has been closed or has something to read.
Serving ==
  at = "pass" /\ (~stdin_enabled \/ cursor = 0) =>
    \A fd \in read_fds \cap Fds :
      cursor <= fd => owner[fd] \in unread \/ (cursor > Listen /\ owner[fd] = NoConn)

SInv == TypeOK /\ Watched /\ MaxCovers /\ NothingLeftOpen /\ Owners /\ Serving

\* The clients' descriptors are neither the terminal nor the listening one.
LEMMA Kinds == Stdin < Listen /\ Fds \subseteq Nat \ {Stdin, Listen}
               /\ Listen \in Nat /\ Stdin = 0 /\ NoConn \notin Conns
               /\ \A fd \in Fds : fd > Listen
BY ServerAssumption DEF Stdin

\* SInv holds when the server starts.
LEMMA InitSInv == Init => SInv
BY Kinds, ServerAssumption
DEF Init, SInv, TypeOK, Watched, WatchedClients, MaxCovers, NothingLeftOpen, Owners, Serving

-----------------------------------------------------------------------------
(* What server_remove_client does.                                         *)

SetInv == /\ master \subseteq Fds \cup {Stdin, Listen}
          /\ max_fd \in Fds \cup {Stdin, Listen, -1}
          /\ owner \in [Fds -> Conns \cup {NoConn}]
          /\ WatchedClients = {fd \in Fds : owner[fd] # NoConn}
          /\ MaxCovers
          /\ Owners

\* Closing connections keeps the set and the table of the open ones together.
LEMMA RemoveKeeps ==
  ASSUME SetInv, NEW S, S \subseteq WatchedClients, Remove(S), UNCHANGED <<made, backlog>>
  PROVE  /\ SetInv'
         /\ \A fd \in Fds : owner'[fd] = IF fd \in S THEN NoConn ELSE owner[fd]
<1>1. /\ master \subseteq Fds \cup {Stdin, Listen}
      /\ max_fd \in Fds \cup {Stdin, Listen, -1}
      /\ owner \in [Fds -> Conns \cup {NoConn}]
      /\ WatchedClients = {fd \in Fds : owner[fd] # NoConn}
      /\ MaxCovers /\ Owners
  BY DEF SetInv
<1>2. /\ master' = master \ S
      /\ owner' = [fd \in Fds |-> IF fd \in S THEN NoConn ELSE owner[fd]]
      /\ IF max_fd \in S THEN Largest(max_fd', max_fd, master') ELSE max_fd' = max_fd
  BY DEF Remove
<1>3. \A fd \in Fds : owner'[fd] = IF fd \in S THEN NoConn ELSE owner[fd]
  BY <1>2
<1>4. max_fd' \in Fds \cup {Stdin, Listen, -1}
  BY <1>1, <1>2 DEF Largest
<1>5. MaxCovers'
  BY <1>1, <1>2 DEF MaxCovers, Largest
<1>6. WatchedClients' = {fd \in Fds : owner'[fd] # NoConn}
  BY <1>1, <1>2, <1>3 DEF WatchedClients
<1>7. Owners'
  BY <1>1, <1>3 DEF Owners
<1>8. owner' \in [Fds -> Conns \cup {NoConn}]
  BY <1>1, <1>2
<1>9. QED
  BY <1>1, <1>2, <1>3, <1>4, <1>5, <1>6, <1>7, <1>8 DEF SetInv

\* SInv of a server that has not stopped, apart from the pass.
LEMMA Running ==
  ASSUME at # "stopped"
  PROVE  SInv <=> TypeOK /\ SetInv /\ Serving
BY DEF SInv, SetInv, TypeOK, Watched, NothingLeftOpen

\* Connections closed outside the pass, or in it by the command of the operator.
LEMMA ClosingKeeps ==
  ASSUME SInv, at # "stopped", NEW S, S \subseteq Others, Remove(S), unread' \subseteq unread,
         UNCHANGED <<made, backlog>>, at' = at
  PROVE  /\ SetInv'
         /\ Watched' /\ NothingLeftOpen'
         /\ unread' \subseteq made'
<1>1. S \subseteq WatchedClients
  BY DEF Others
<1>2. SetInv'
  BY <1>1, Running, RemoveKeeps
<1>3. QED
  BY <1>2 DEF SInv, TypeOK, SetInv, Watched, NothingLeftOpen

-----------------------------------------------------------------------------
(* The steps of a pass.                                                    *)

\* What Turn says.
LEMMA TurnTypes ==
  ASSUME SInv, NEW fd, Turn(fd)
  PROVE  /\ at = "pass" /\ fd \in read_fds /\ fd \in Nat /\ cursor \in Nat /\ cursor <= fd
         /\ fd \in Fds \cup {Stdin, Listen}
         /\ TypeOK /\ SetInv /\ Serving
BY Kinds, Running DEF SInv, TypeOK, Turn, InPass

\* accept: the descriptor it takes was free, and is not one of the pass.
LEMMA AcceptKeeps == ASSUME SInv, Accept PROVE SInv'
<1>1. /\ at = "pass" /\ Listen \in read_fds /\ cursor \in Nat /\ cursor <= Listen
      /\ TypeOK /\ SetInv /\ Serving
  BY TurnTypes DEF Accept
<1>2. /\ cursor' = Listen + 1 /\ read_fds' = read_fds /\ at' = at
      /\ stdin_enabled' = stdin_enabled /\ made' = made /\ input' = input
  BY DEF Accept, Advance
<1>3. \A fd \in read_fds \cap Fds : ~stdin_enabled => owner[fd] \in unread
  BY <1>1, Kinds DEF Serving
<1>4. cursor' # 0 /\ cursor' > Listen /\ cursor' \in Nat
  BY <1>2, Kinds
<1>5. CASE UNCHANGED <<master, max_fd, owner, backlog, unread>>
  <2>1. TypeOK' /\ SetInv'
    BY <1>1, <1>2, <1>4, <1>5 DEF TypeOK, SetInv, WatchedClients, MaxCovers, Owners
  <2>2. Serving'
    BY <1>2, <1>3, <1>4, <1>5 DEF Serving
  <2>3. QED
    BY <1>1, <1>2, <2>1, <2>2 DEF SInv, SetInv, Watched, NothingLeftOpen
<1>6. ASSUME NEW c \in backlog, NEW fd \in FreeFds, backlog' = backlog \ {c}, Add(fd, c),
             unread' = unread
      PROVE  SInv'
  <2>1. fd \in Fds /\ owner[fd] = NoConn /\ c \in Conns /\ c # NoConn /\ c \in made
    BY <1>1, Kinds DEF FreeFds, TypeOK
  <2>2. /\ master' = master \cup {fd} /\ owner' = [owner EXCEPT ![fd] = c]
        /\ max_fd' = IF fd > max_fd THEN fd ELSE max_fd
    BY <1>6 DEF Add
  <2>3. \A g \in Fds : owner'[g] = IF g = fd THEN c ELSE owner[g]
    BY <1>1, <2>2 DEF TypeOK
  <2>4. TypeOK'
    BY <1>1, <1>2, <1>4, <1>6, <2>1, <2>2 DEF TypeOK
  <2>5. MaxCovers'
    BY <1>1, <2>1, <2>2, Kinds DEF MaxCovers, SetInv
  <2>6. WatchedClients' = {g \in Fds : owner'[g] # NoConn}
    BY <1>1, <2>1, <2>2, <2>3, Kinds DEF WatchedClients, SetInv
  <2>7. Owners'
    <3>1. \A g \in Fds : owner[g] # c
      BY <1>1, <2>1 DEF SetInv, Owners
    <3>2. QED
      BY <1>1, <1>2, <1>6, <2>1, <2>3, <3>1 DEF SetInv, Owners
  <2>8. Serving'
    <3>1. ~stdin_enabled => fd \notin read_fds
      BY <1>1, <1>3, <2>1, Kinds DEF TypeOK
    <3>2. QED
      BY <1>2, <1>3, <1>4, <1>6, <2>3, <3>1 DEF Serving
  <2>9. QED
    BY <1>1, <1>2, <2>4, <2>5, <2>6, <2>7, <2>8 DEF SInv, Watched, NothingLeftOpen
<1>7. ASSUME NEW c \in backlog, NEW fd \in FreeFds, backlog' = backlog \ {c},
             unread' = unread \ {c}, UNCHANGED <<master, max_fd, owner>>
      PROVE  SInv'
  <2>1. TypeOK' /\ SetInv'
    BY <1>1, <1>2, <1>4, <1>7 DEF TypeOK, SetInv, WatchedClients, MaxCovers, Owners
  <2>2. \A g \in Fds : owner[g] # c
    BY <1>1, Kinds DEF SetInv, Owners, TypeOK
  <2>3. Serving'
    BY <1>2, <1>3, <1>4, <1>7, <2>2 DEF Serving
  <2>4. QED
    BY <1>1, <1>2, <2>1, <2>3 DEF SInv, SetInv, Watched, NothingLeftOpen
<1>8. QED
  BY <1>5, <1>6, <1>7 DEF Accept

\* A command of the operator: the terminal is still there until the pass ends.
LEMMA CommandKeeps == ASSUME SInv, Command PROVE SInv'
<1>1. /\ at = "pass" /\ Stdin \in read_fds /\ cursor \in Nat /\ TypeOK /\ SetInv /\ Serving
  BY TurnTypes DEF Command
<1>2. /\ cursor' = 1 /\ read_fds' = read_fds /\ at' = at
      /\ stdin_enabled /\ stdin_enabled' = stdin_enabled
      /\ made' = made /\ backlog' = backlog /\ input' = "none"
  BY DEF Command, Advance, Stdin
<1>3. PICK S \in SUBSET Others : Remove(S) /\ unread' = unread \ Lost(S)
  BY DEF Command
<1>4. SetInv' /\ Watched' /\ NothingLeftOpen' /\ unread' \subseteq made'
  BY <1>1, <1>2, <1>3, ClosingKeeps
<1>5. Serving'
  BY <1>2 DEF Serving
<1>6. TypeOK'
  BY <1>1, <1>2, <1>4 DEF TypeOK, SetInv
<1>7. QED
  BY <1>4, <1>5, <1>6 DEF SInv, SetInv

\* The end of the input comes at the first turn of a pass.
LEMMA RemoveStdinKeeps == ASSUME SInv, RemoveStdin PROVE SInv'
<1>1. /\ at = "pass" /\ Stdin \in read_fds /\ cursor \in Nat /\ cursor <= Stdin
      /\ TypeOK /\ SetInv /\ Serving
  BY TurnTypes DEF RemoveStdin
<1>2. /\ cursor' = 1 /\ read_fds' = read_fds /\ at' = at
      /\ stdin_enabled' = FALSE /\ master' = master \ {Stdin}
      /\ IF max_fd = Stdin THEN Largest(max_fd', max_fd, master') ELSE max_fd' = max_fd
      /\ owner' = owner /\ made' = made /\ backlog' = backlog /\ unread' = unread
      /\ input' = input
  BY DEF RemoveStdin, Advance, Stdin, clients
<1>3. max_fd' \in Fds \cup {Stdin, Listen, -1} /\ MaxCovers'
  BY <1>1, <1>2 DEF SetInv, MaxCovers, Largest
<1>4. WatchedClients' = WatchedClients
  BY <1>2 DEF WatchedClients
<1>5. TypeOK'
  BY <1>1, <1>2, <1>3 DEF TypeOK
<1>6. Owners' /\ Watched' /\ NothingLeftOpen'
  BY <1>1, <1>2, <1>4 DEF SetInv, Owners, Watched, NothingLeftOpen
<1>7. Serving'
  <2>1. cursor = 0 /\ ~(cursor > Listen)
    BY <1>1, Kinds
  <2>2. \A fd \in Fds : cursor <= fd
    <3>1. \A fd \in Fds : fd \in Nat
      BY Kinds
    <3>2. QED
      BY <2>1, <3>1
  <2>3. \A fd \in read_fds \cap Fds : owner[fd] \in unread
    BY <1>1, <2>1, <2>2 DEF Serving
  <2>4. QED
    BY <1>2, <2>3 DEF Serving
<1>8. QED
  BY <1>3, <1>5, <1>6, <1>7 DEF SInv

\* The callback of one client: the other descriptors of the pass keep what they
\* have to read, or are closed.
LEMMA ServeKeeps == ASSUME SInv, NEW fd \in Fds, Serve(fd) PROVE SInv'
<1>1. /\ at = "pass" /\ fd \in read_fds /\ cursor \in Nat /\ fd \in Nat /\ cursor <= fd
      /\ TypeOK /\ SetInv /\ Serving
  BY TurnTypes DEF Serve
<1>2. /\ cursor' = fd + 1 /\ read_fds' = read_fds /\ at' = at
      /\ stdin_enabled' = stdin_enabled /\ owner[fd] \in unread
      /\ made' = made /\ backlog' = backlog /\ input' = input
  BY DEF Serve, Advance
<1>3. PICK S \in SUBSET (Others \cup {fd}) :
             Remove(S) /\ unread' = unread \ (Lost(S) \cup {owner[fd]})
  BY DEF Serve
<1>4. owner[fd] # NoConn
  BY <1>1, <1>2, Kinds DEF TypeOK
<1>5. S \subseteq WatchedClients
  BY <1>1, <1>4 DEF SetInv, Others
<1>6. SetInv' /\ \A g \in Fds : owner'[g] = IF g \in S THEN NoConn ELSE owner[g]
  BY <1>1, <1>2, <1>3, <1>5, RemoveKeeps
<1>7. cursor' \in Nat /\ cursor' # 0 /\ cursor' > Listen
  BY <1>1, <1>2, Kinds
<1>8. TypeOK'
  BY <1>1, <1>2, <1>3, <1>6, <1>7 DEF TypeOK, SetInv
<1>9. Watched' /\ NothingLeftOpen'
  BY <1>1, <1>2, <1>6 DEF SetInv, Watched, NothingLeftOpen
<1>10. Serving'
  <2> SUFFICES ASSUME ~stdin_enabled, NEW g \in read_fds \cap Fds, fd + 1 <= g,
                      owner'[g] # NoConn
               PROVE  owner'[g] \in unread'
    BY <1>2, <1>7 DEF Serving
  <2>1. g \notin S /\ owner'[g] = owner[g]
    BY <1>6
  <2>2. g # fd /\ cursor <= g
    BY <1>1, Kinds
  <2>3. owner[g] \in unread
    BY <1>1, <2>1, <2>2 DEF Serving
  <2>4. \A x \in S \cup {fd} : owner[x] # owner[g]
    BY <1>1, <1>5, <2>1, <2>2 DEF SetInv, Owners, WatchedClients
  <2>5. QED
    BY <1>3, <2>1, <2>3, <2>4 DEF Lost
<1>11. QED
  BY <1>6, <1>8, <1>9, <1>10 DEF SInv, SetInv

\* The descriptor was closed by a callback of the same pass.
LEMMA ServeClosedKeeps == ASSUME SInv, NEW fd \in Fds, ServeClosed(fd) PROVE SInv'
<1>1. /\ at = "pass" /\ fd \in read_fds /\ cursor \in Nat /\ fd \in Nat /\ cursor <= fd
      /\ TypeOK /\ SetInv /\ Serving
  BY TurnTypes DEF ServeClosed
<1>2. cursor' = fd + 1 /\ UNCHANGED <<set, owner, clients, read_fds, at>>
  BY DEF ServeClosed, Advance
<1>3. cursor' \in Nat /\ cursor' # 0 /\ cursor' > Listen
  BY <1>1, <1>2, Kinds
<1>4. Serving'
  <2> SUFFICES ASSUME ~stdin_enabled, NEW g \in read_fds \cap Fds, fd + 1 <= g
               PROVE  owner[g] \in unread \/ owner[g] = NoConn
    BY <1>2, <1>3 DEF Serving, set, clients
  <2>1. cursor <= g
    BY <1>1, Kinds
  <2>2. QED
    BY <1>1, <2>1 DEF Serving
<1>5. QED
  BY <1>1, <1>2, <1>3, <1>4
  DEF SInv, SetInv, TypeOK, Watched, WatchedClients, MaxCovers, NothingLeftOpen, Owners, set, clients

-----------------------------------------------------------------------------
(* Between two passes, and the clients.                                    *)

\* select: what it returns is in the set, and has something to read.
LEMMA SelectKeeps == ASSUME SInv, Select PROVE SInv'
<1>1. TypeOK /\ SetInv
  BY Running DEF Select
<1>2. /\ read_fds' = {fd \in master : fd <= max_fd /\ Ready(fd)}
      /\ cursor' = 0 /\ at' = "pass" /\ UNCHANGED <<set, owner, clients>>
  BY DEF Select
<1>3. \A fd \in read_fds' \cap Fds : owner[fd] \in unread
  BY <1>2, Kinds DEF Ready
<1>4. Serving'
  BY <1>2, <1>3 DEF Serving, clients
<1>5. TypeOK'
  BY <1>1, <1>2 DEF TypeOK, set, clients
<1>6. SetInv'
  BY <1>1, <1>2 DEF SetInv, WatchedClients, MaxCovers, Owners, set, clients
<1>7. QED
  BY <1>2, <1>4, <1>5, <1>6 DEF SInv, SetInv, Watched, NothingLeftOpen

\* The timeouts of the board close connections while no pass is under way.
LEMMA TimeoutsKeeps == ASSUME SInv, Timeouts PROVE SInv'
<1>1. TypeOK /\ at = "select"
  BY DEF Timeouts, SInv
<1>2. PICK S \in SUBSET Others : Remove(S) /\ unread' = unread \ Lost(S)
  BY DEF Timeouts
<1>3. /\ UNCHANGED <<stdin_enabled, read_fds, cursor, at, made, backlog, input>>
  BY DEF Timeouts, pass
<1>4. SetInv' /\ Watched' /\ NothingLeftOpen' /\ unread' \subseteq made'
  BY <1>1, <1>2, <1>3, ClosingKeeps
<1>5. TypeOK'
  BY <1>1, <1>3, <1>4 DEF TypeOK, SetInv
<1>6. Serving'
  BY <1>1, <1>3 DEF Serving
<1>7. QED
  BY <1>4, <1>5, <1>6 DEF SInv, SetInv

\* server_shutdown reaches every connection, as max_fd covers the set.
LEMMA ShutdownKeeps == ASSUME SInv, Shutdown PROVE SInv'
<1>1. TypeOK /\ SetInv
  BY Running DEF Shutdown
<1>2. /\ at' = "stopped" /\ UNCHANGED <<set, read_fds, cursor, clients>>
      /\ owner' = [fd \in Fds |-> IF fd \in master /\ fd <= max_fd THEN NoConn ELSE owner[fd]]
  BY DEF Shutdown
<1>3. \A fd \in Fds : owner'[fd] = NoConn
  <2>1. ASSUME NEW fd \in Fds, owner[fd] # NoConn PROVE fd \in master /\ fd <= max_fd
    BY <1>1, <2>1 DEF SetInv, WatchedClients, MaxCovers
  <2>2. QED
    BY <1>2, <2>1
<1>4. TypeOK'
  BY <1>1, <1>2 DEF TypeOK, set, clients
<1>5. MaxCovers' /\ Owners'
  BY <1>1, <1>2, <1>3 DEF SetInv, MaxCovers, Owners, set
<1>6. QED
  BY <1>2, <1>3, <1>4, <1>5 DEF SInv, Watched, NothingLeftOpen, Serving

\* A connection is made, or sends; the operator types.
LEMMA ClientsKeep ==
  ASSUME SInv, Types \/ \E c \in Conns : Connects(c) \/ Sends(c)
  PROVE  SInv'
<1>1. TypeOK /\ Owners /\ Serving /\ Watched /\ MaxCovers /\ NothingLeftOpen
  BY DEF SInv
<1>2. UNCHANGED <<set, pass, owner>>
  BY DEF Types, Connects, Sends
<1>3. Watched' /\ MaxCovers' /\ NothingLeftOpen'
  BY <1>1, <1>2 DEF Watched, WatchedClients, MaxCovers, NothingLeftOpen, set, pass
<1>4. ASSUME unread \subseteq unread' PROVE Serving'
  BY <1>1, <1>2, <1>4 DEF Serving, set, pass
<1>5. CASE Types
  BY <1>1, <1>2, <1>3, <1>4, <1>5 DEF Types, SInv, TypeOK, Owners, set, pass
<1>6. ASSUME NEW c \in Conns, Connects(c) PROVE SInv'
  <2>1. TypeOK'
    BY <1>1, <1>2, <1>6 DEF Connects, TypeOK, set, pass
  <2>2. Owners'
    BY <1>1, <1>2, <1>6 DEF Connects, Owners, TypeOK
  <2>3. QED
    BY <1>3, <1>4, <1>6, <2>1, <2>2 DEF Connects, SInv
<1>7. ASSUME NEW c \in Conns, Sends(c) PROVE SInv'
  <2>1. c \in made
    BY <1>1, <1>7 DEF Sends, TypeOK, Owners
  <2>2. TypeOK'
    BY <1>1, <1>2, <1>7, <2>1 DEF Sends, TypeOK, set, pass
  <2>3. Owners'
    BY <1>1, <1>2, <1>7 DEF Sends, Owners
  <2>4. QED
    BY <1>3, <1>4, <1>7, <2>2, <2>3 DEF Sends, SInv
<1>8. QED
  BY <1>5, <1>6, <1>7

\* Every step keeps SInv.
LEMMA NextSInv == SInv /\ [Next]_vars => SInv'
<1> SUFFICES ASSUME SInv, [Next]_vars PROVE SInv'
  OBVIOUS
<1>1. CASE EndPass
  BY <1>1 DEF EndPass, SInv, TypeOK, Watched, WatchedClients, MaxCovers, NothingLeftOpen, Owners,
              Serving, set, clients
<1>2. CASE UNCHANGED vars
  BY <1>2 DEF vars, SInv, TypeOK, Watched, WatchedClients, MaxCovers, NothingLeftOpen, Owners,
              Serving, set, pass, clients
<1>3. QED
  BY <1>1, <1>2, SelectKeeps, AcceptKeeps, CommandKeeps, RemoveStdinKeeps, ServeKeeps,
     ServeClosedKeeps, TimeoutsKeeps, ShutdownKeeps, ClientsKeep
  DEF Next, Pass

\* SInv holds of every reachable state.
LEMMA SInvariance == Spec => []SInv
BY InitSInv, NextSInv, PTL DEF Spec

\* The fields keep their ranges.
THEOREM ServerTypes == Spec => []TypeOK
<1>1. SInv => TypeOK
  BY DEF SInv
<1>2. QED
  BY <1>1, SInvariance, PTL

\* What the server watches is what is open, in the middle of a pass too.
THEOREM WatchedIsOpen == Spec => []Watched
<1>1. SInv => Watched
  BY DEF SInv
<1>2. QED
  BY <1>1, SInvariance, PTL

\* max_fd covers the set, whichever descriptors are closed and reused.
THEOREM MaxCoversTheSet == Spec => []MaxCovers
<1>1. SInv => MaxCovers
  BY DEF SInv
<1>2. QED
  BY <1>1, SInvariance, PTL

\* A server that stops has closed every connection it accepted.
THEOREM StopClosesAll == Spec => []NothingLeftOpen
<1>1. SInv => NothingLeftOpen
  BY DEF SInv
<1>2. QED
  BY <1>1, SInvariance, PTL

\* With no command of the operator in the pass, no callback is given a
\* descriptor on which there is nothing to read.
THEOREM CallbacksNeverWait == Spec => []WaitsForNobody
<1>1. SInv => WaitsForNobody
  <2> SUFFICES ASSUME SInv, ~stdin_enabled, NEW fd \in Fds, Turn(fd),
                      owner[fd] \notin unread \cup {NoConn}
               PROVE  FALSE
    BY DEF WaitsForNobody, Waits
  <2>1. at = "pass" /\ fd \in read_fds /\ cursor <= fd /\ Serving
    BY TurnTypes
  <2>2. QED
    BY <2>1 DEF Serving
<1>2. QED
  BY <1>1, SInvariance, PTL
=============================================================================
