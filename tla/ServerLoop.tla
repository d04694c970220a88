------------------------------ MODULE ServerLoop ------------------------------
(***************************************************************************)
(* The loop of src/src/common/server.c, on which the board and the P2P     *)
(* thread of every user run: select over the set of the descriptors        *)
(* watched, then one callback for each that is ready.                      *)
(*                                                                         *)
(* A pass works on read_fds, the copy of the set select has filled, while  *)
(* the callbacks change the set, the table of descriptors and max_fd.  A   *)
(* step is one descriptor of the pass.  What a connection carries is only  *)
(* whether there is something to read on it: a message or its end.         *)
(***************************************************************************)
EXTENDS Integers, FiniteSets

CONSTANTS Conns,        \* bound: the connections that are ever made
          Fds,          \* bound: the descriptors the kernel has for them
          Listen,       \* the listening descriptor
          FD_SETSIZE,   \* the descriptors select can watch are below it
          Terminal,     \* there is a stdin callback: the board's server
          CloseOthers   \* the callbacks may close any connection: the board's

Stdin == 0
NoConn == 0

ASSUME ServerAssumption == /\ Fds \subseteq Nat
                           /\ Listen \in Nat \ {Stdin}
                           /\ \A fd \in Fds : fd > Listen
                           /\ FD_SETSIZE \in Nat
                           /\ FD_SETSIZE > Listen
                           /\ NoConn \notin Conns
                           /\ Terminal \in BOOLEAN /\ CloseOthers \in BOOLEAN

VARIABLES master,         \* master_set, with what server_init put in it
          max_fd,
          stdin_enabled,
          read_fds,       \* the descriptors of the pass, as select left them
          cursor,         \* the least descriptor the pass has not come to
          at,             \* "select" between two passes, "pass", "stopped"
          owner,          \* owner[fd]: the connection open on fd, NoConn if closed
          made,           \* the connections made so far
          backlog,        \* those not accepted yet
          unread,         \* those with something to read
          input           \* the terminal: "none", "line" or "end" to be read

set == <<master, max_fd, stdin_enabled>>
pass == <<read_fds, cursor, at>>
clients == <<made, backlog, unread, input>>
vars == <<set, pass, owner, clients>>

\* The fields keep their ranges.
TypeOK == /\ master \subseteq Fds \cup {Stdin, Listen}
          /\ max_fd \in Fds \cup {Stdin, Listen, -1}
          /\ stdin_enabled \in BOOLEAN
          /\ read_fds \subseteq Fds \cup {Stdin, Listen}
          /\ cursor \in Nat
          /\ at \in {"select", "pass", "stopped"}
          /\ owner \in [Fds -> Conns \cup {NoConn}]
          /\ made \subseteq Conns
          /\ backlog \subseteq made
          /\ unread \subseteq made
          /\ input \in {"none", "line", "end"}

-----------------------------------------------------------------------------
(* The set of descriptors.                                                 *)

Lost(S) == {owner[fd] : fd \in S}

\* x is the largest member of s that is not above m, -1 if there is none.
Largest(x, m, s) == /\ x \in s \cup {-1}
                    /\ x <= m
                    /\ \A fd \in s : fd <= m => fd <= x

RemoveByOne(S) ==  \* variant: max_fd goes down by one
  /\ master' = master \ S
  /\ owner' = [fd \in Fds |-> IF fd \in S THEN NoConn ELSE owner[fd]]
  /\ max_fd' = IF max_fd \in S THEN max_fd - 1 ELSE max_fd

RemoveUncleared(S) ==  \* variant: closed but still watched
  /\ owner' = [fd \in Fds |-> IF fd \in S THEN NoConn ELSE owner[fd]]
  /\ UNCHANGED <<master, max_fd>>

\* server_remove_client of each of S.
Remove(S) == /\ master' = master \ S
             /\ owner' = [fd \in Fds |-> IF fd \in S THEN NoConn ELSE owner[fd]]
             /\ IF max_fd \in S THEN Largest(max_fd', max_fd, master') ELSE UNCHANGED max_fd

AddLast(fd, c) ==  \* variant: the last descriptor is taken for the largest
  /\ master' = master \cup {fd}
  /\ max_fd' = fd
  /\ owner' = [owner EXCEPT ![fd] = c]

\* server_add_fd.
Add(fd, c) == /\ master' = master \cup {fd}
              /\ max_fd' = IF fd > max_fd THEN fd ELSE max_fd
              /\ owner' = [owner EXCEPT ![fd] = c]

WatchedClients == master \ {Stdin, Listen}

\* What a callback may close besides the connection it serves.
Others == IF CloseOthers THEN WatchedClients ELSE {}

-----------------------------------------------------------------------------
(* server_run.                                                             *)

Ready(fd) == \/ fd = Listen /\ backlog # {}
             \/ fd = Stdin /\ input # "none"
             \/ fd \in Fds /\ owner[fd] \in unread

SelectAll ==  \* variant: goes through the whole set
  /\ at = "select"
  /\ \E fd \in master : fd <= max_fd /\ Ready(fd)
  /\ read_fds' = master
  /\ cursor' = 0
  /\ at' = "pass"
  /\ UNCHANGED <<set, owner, clients>>

\* select; it looks no further than max_fd.
Select == /\ at = "select"
          /\ \E fd \in master : fd <= max_fd /\ Ready(fd)
          /\ read_fds' = {fd \in master : fd <= max_fd /\ Ready(fd)}
          /\ cursor' = 0
          /\ at' = "pass"
          /\ UNCHANGED <<set, owner, clients>>

InPass(fd) == fd \in read_fds /\ cursor <= fd /\ fd <= max_fd

\* The pass has come to fd.
Turn(fd) == /\ at = "pass"
            /\ InPass(fd)
            /\ \A x \in read_fds : InPass(x) => fd <= x

Advance(fd) == cursor' = fd + 1 /\ UNCHANGED <<read_fds, at>>

FreeFds == {fd \in Fds : owner[fd] = NoConn}

\* accept takes the lowest descriptor; one that select cannot watch is closed.
Accept == /\ Turn(Listen)
          /\ Advance(Listen)
          /\ \/ /\ FreeFds = {}
                /\ UNCHANGED <<master, max_fd, owner, backlog, unread>>
             \/ \E c \in backlog, fd \in FreeFds :
                  /\ \A x \in FreeFds : fd <= x
                  /\ backlog' = backlog \ {c}
                  /\ \/ fd < FD_SETSIZE /\ Add(fd, c) /\ UNCHANGED unread
                     \/ /\ fd >= FD_SETSIZE
                        /\ unread' = unread \ {c}
                        /\ UNCHANGED <<master, max_fd, owner>>
          /\ UNCHANGED <<stdin_enabled, made, input>>

\* The stdin callback runs a command of the operator.
Command == /\ Turn(Stdin)
           /\ stdin_enabled
           /\ input = "line"
           /\ input' = "none"
           /\ \E S \in SUBSET Others : Remove(S) /\ unread' = unread \ Lost(S)
           /\ Advance(Stdin)
           /\ UNCHANGED <<stdin_enabled, made, backlog>>

\* It finds the end of the input: server_remove_stdin.
RemoveStdin == /\ Turn(Stdin)
               /\ stdin_enabled
               /\ input = "end"
               /\ master' = master \ {Stdin}
               /\ stdin_enabled' = FALSE
               /\ IF max_fd = Stdin THEN Largest(max_fd', max_fd, master') ELSE UNCHANGED max_fd
               /\ Advance(Stdin)
               /\ UNCHANGED <<owner, clients>>

\* The client callback reads what there is on fd, and waits for it if there is
\* nothing.  It may close any connection; the P2P server's always closes its own.
Serve(fd) == /\ Turn(fd)
             /\ owner[fd] \in unread
             /\ \E S \in SUBSET (Others \cup {fd}) :
                  /\ CloseOthers \/ fd \in S
                  /\ Remove(S)
                  /\ unread' = unread \ (Lost(S) \cup {owner[fd]})
             /\ Advance(fd)
             /\ UNCHANGED <<stdin_enabled, made, backlog, input>>

\* A callback of the same pass has closed fd: the read fails, nothing is removed.
ServeClosed(fd) == /\ Turn(fd)
                   /\ owner[fd] = NoConn
                   /\ Advance(fd)
                   /\ UNCHANGED <<set, owner, clients>>

EndPass == /\ at = "pass"
           /\ \A fd \in read_fds : ~InPass(fd)
           /\ at' = "select"
           /\ UNCHANGED <<set, read_fds, cursor, owner, clients>>

\* Between two passes the board checks its timeouts, which closes connections.
Timeouts == /\ at = "select"
            /\ \E S \in SUBSET Others \ {{}} : Remove(S) /\ unread' = unread \ Lost(S)
            /\ UNCHANGED <<stdin_enabled, pass, made, backlog, input>>

\* server_shutdown closes what it watches, up to max_fd.
Shutdown == /\ at = "select"
            /\ at' = "stopped"
            /\ owner' = [fd \in Fds |-> IF fd \in master /\ fd <= max_fd THEN NoConn ELSE owner[fd]]
            /\ UNCHANGED <<set, read_fds, cursor, clients>>

-----------------------------------------------------------------------------
(* The clients and the terminal.                                           *)

Connects(c) == /\ c \notin made
               /\ made' = made \cup {c}
               /\ backlog' = backlog \cup {c}
               /\ UNCHANGED <<set, pass, owner, unread, input>>

\* Sent also before the connection is accepted.
Sends(c) == /\ c \in backlog \cup {owner[fd] : fd \in Fds}
            /\ c # NoConn
            /\ c \notin unread
            /\ unread' = unread \cup {c}
            /\ UNCHANGED <<set, pass, owner, made, backlog, input>>

Types == /\ Terminal
         /\ input = "none"
         /\ input' \in {"line", "end"}
         /\ UNCHANGED <<set, pass, owner, made, backlog, unread>>

-----------------------------------------------------------------------------
\* server_create and server_init.
Init == /\ master = {Listen} \cup (IF Terminal THEN {Stdin} ELSE {})
        /\ max_fd = Listen
        /\ stdin_enabled = Terminal
        /\ read_fds = {} /\ cursor = 0 /\ at = "select"
        /\ owner = [fd \in Fds |-> NoConn]
        /\ made = {} /\ backlog = {} /\ unread = {} /\ input = "none"

Pass == Accept \/ Command \/ RemoveStdin \/ (\E fd \in Fds : Serve(fd) \/ ServeClosed(fd)) \/ EndPass

Next == \/ Select \/ Pass \/ Timeouts \/ Shutdown
        \/ \E c \in Conns : Connects(c) \/ Sends(c)
        \/ Types

Spec == Init /\ [][Next]_vars

\* server_run is called again and again, and a pass goes on.
FairSpec == Spec /\ WF_vars(Select) /\ WF_vars(Pass)

-----------------------------------------------------------------------------
(* Properties.                                                             *)

\* What is watched is open, or select would fail and the process end; what is
\* open is watched, or nobody would ever read it (server.c:24).
Watched == at # "stopped" => WatchedClients = {fd \in Fds : owner[fd] # NoConn}

\* select and the passes look no further than max_fd (server.c:114).
MaxCovers == \A fd \in master : fd <= max_fd

\* A server that stops leaves no connection open (server.c:163).
NothingLeftOpen == at = "stopped" => \A fd \in Fds : owner[fd] = NoConn

Waits == \E fd \in Fds : Turn(fd) /\ owner[fd] \notin unread \cup {NoConn}

\* A connection that comes in is only put in the set (server.c:129): a callback
\* never finds a connection on which there is nothing to read.
NeverWaits == ~Waits

\* So it is, whatever the callbacks and the timeouts close, where no command of
\* the operator runs: on the server of a user, and on a board without terminal.
WaitsForNobody == stdin_enabled \/ ~Waits

\* There, what a client sends is read, or its connection closed, or the server
\* stopped.
Served == \A c \in Conns : (c \in unread /\ ~stdin_enabled) ~> (c \notin unread \/ at = "stopped")
=============================================================================
