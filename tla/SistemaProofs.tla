---------------------------- MODULE SistemaProofs ----------------------------
(***************************************************************************)
(* The whole system, for any number of users, cards and costs: at most one *)
(* user takes itself for the winner (OneWinner), a user works on what the  *)
(* board has given it (WorkIsGiven), a card the board shows in DOING is    *)
(* really worked on (DoingIsReal), and the users share the cards out as    *)
(* SharedWork says, when nothing disturbs them.                            *)
(*                                                                         *)
(* The argument is about votes.  Of a card c, V[c] are the users called to *)
(* vote on it, fixed when the board offers it, and B[c] the votes cast, a  *)
(* cost for each user that has read the call.  No variable holds them: the *)
(* invariant says that there are such V and B, and a step that calls or    *)
(* votes shows the next ones.  Every user counts some of the votes of B,   *)
(* and one that has counted as many as were called has counted them all;   *)
(* so all that decide decide alike, and Elected names who they choose.     *)
(***************************************************************************)
EXTENDS Sistema, BoardProofs

\* Processes neither die nor fail at work, the terminals only create cards, and no
\* timeout runs: a user leaves only when the board refuses it.
Undisturbed == /\ "FOREIGN" \notin Inputs /\ "HELLO_AGAIN" \notin Inputs
               /\ Typed \subseteq {"CREATE_CARD"}
               /\ Mortal = {} /\ "P2P" \notin Faults
               /\ ~TimePasses

-----------------------------------------------------------------------------
(* The invariant.                                                          *)

\* All who were called have voted, and p has won.
Elected(V, B, p, c) == /\ V[c] # {}
                       /\ U!Voters(B[c]) = V[c]
                       /\ U!choose_winner(B[c]) = p

\* A user votes once, and only if it was called; the users called are still there,
\* and their card is on offer, or has been taken by one of them.
Ballots(V, B, d) ==
  \A c \in CardIds :
    /\ B[c] \subseteq V[c] \X Costs
    /\ \A a, b \in B[c] : a[1] = b[1] => a = b
    /\ V[c] # {} => /\ IsFiniteSet(V[c]) /\ Cardinality(V[c]) \in 2 .. MAX_USERS
                    /\ V[c] \subseteq RegisteredPorts(d)
                    /\ d.offered_card_id = c \/ ColumnOf(d)[c] \in {"DOING", "DONE"}

\* The loop that calls the users, s, has still to call those of R.
Calling(V, B, d, s, in) ==
  LET c == d.offered_card_id
  IN  s # <<>> => /\ c # NoCard /\ V[c] = RegisteredPorts(d)
                  /\ \E R \in SUBSET V[c] :
                       /\ R # {} /\ s = <<[op |-> "offer", card |-> c, rest |-> Keyed(R)]>>
                       /\ \A x \in R : x \notin U!Voters(B[c]) /\ in[x] = <<>>

Call(V, c, p) == [type |-> "AVAILABLE_CARD", card |-> c,
                  total |-> Cardinality(V[c]), peers |-> V[c] \ {p}]

\* All that the board sends is the call to a vote not yet cast, on the card on offer.
Mail(V, B, d, p, in) ==
  LET c == d.offered_card_id
  IN  in # <<>> => /\ in = <<Call(V, c, p)>> /\ c \in CardIds
                   /\ p \in V[c] /\ p \notin U!Voters(B[c])

\* The costs under way are votes.
Cast(B, msgs) == \A m \in msgs : m.card \in CardIds /\ <<m.from, m.cost>> \in B[m.card]

Winning == {"ACK_PENDING", "WORKING", "DONE_PENDING"}

\* What a user has counted are votes on its card; if it takes itself for the winner,
\* it is.
Table(V, B, p, u) ==
  LET c == u.card_id
  IN  /\ IF c = NoCard THEN u.choices = {} ELSE u.choices \subseteq B[c]
      /\ u.state = "CHOOSING" => /\ c \in CardIds /\ V[c] # {}
                                 /\ u.total_users = Cardinality(V[c])
      /\ u.state \in Winning => c \in CardIds /\ Elected(V, B, p, c)

InHand(u, c) == u.card_id = c /\ u.state \in Winning \cup {"CHOOSING"}

Posted(post, type, c) == \E i \in DOMAIN post : post[i] = U!FromUser(type, c)

Reporting(m, post, c) == (m.at = "join" /\ m.card = c) \/ Posted(post, "CARD_DONE", c)

\* From its ACK_CARD to the time the board has read its CARD_DONE.
Taken(u, m, post, c) ==
  \/ u.card_id = c /\ (m.at = "mark" \/ u.state \in {"WORKING", "DONE_PENDING"})
  \/ Reporting(m, post, c)

\* Who takes a card is elected for it, and the board has given it to that user or has
\* its ACK_CARD still to read; and who is elected and has not taken it can still.
Duty(V, B, d, p, u, m, post) ==
  \A c \in CardIds :
    LET given == WorkerOf(d)[c] = p
        acked == Posted(post, "ACK_CARD", c)
    IN  /\ InHand(u, c) /\ Elected(V, B, p, c) => d.offered_card_id = c \/ given
        /\ acked => d.offered_card_id = c
        /\ acked \/ given => Taken(u, m, post, c)
        /\ Taken(u, m, post, c) => Elected(V, B, p, c) /\ (acked \/ given)
        /\ Reporting(m, post, c) => ~InHand(u, c)

\* A card is acked and reported once, in that order.
Ordered(post) ==
  /\ \A i \in DOMAIN post :
       /\ post[i].type \in {"HELLO", "CREATE_CARD", "ACK_CARD", "CARD_DONE"}
       /\ post[i].type \in {"ACK_CARD", "CARD_DONE"} => post[i].card \in CardIds
  /\ \A i, j \in DOMAIN post :
       /\ post[i] = post[j] /\ post[i].type \in {"ACK_CARD", "CARD_DONE"} => i = j
       /\ post[i].type = "ACK_CARD" /\ post[j] = U!FromUser("CARD_DONE", post[i].card) => i < j

\* Where the main thread can be in a state, and when it can be going.
Spot(u, m, s, post, linked, shut) ==
  /\ s = "starting" => u.state = "STARTING_P2P" /\ m.at = "starting"
  /\ m.at \in {"off", "starting", "connecting", "hello", "idle"}
       => u.state \in {"STARTING_P2P", "CONNECTING", "SHUTTING_DOWN"}
  /\ u.state \in {"SHUTTING_DOWN", "DISCONNECTING"} => m.at \in {"starting", "closing", "ended"}
  /\ m.at \in {"off", "starting", "connecting"} => ~linked /\ ~shut
  /\ m.at \in {"quit", "leaving", "closing"} => shut
  /\ shut => ~linked
  /\ m.at \notin {"start", "killed"}
  /\ m.at = "mark" => u.state = "ACK_PENDING"
  /\ m.at = "join" => /\ m.card \in CardIds /\ ~Posted(post, "CARD_DONE", m.card)
                      /\ u.state \notin Winning \cup {"CHOOSING"}
  /\ u.worker_started => u.state \in {"WORKING", "DONE_PENDING"} \/ m.at = "join"

\* Only who has a card is not free.
FreeIdle(d) == \A i \in UsedSlots(d) :
                 d.users[i].status = "IDLE" \/ d.users[i].assigned_card_id # NoCard

Staffed(d) == OneCard(d) /\ Employed(d) /\ FreeIdle(d)

BoardInv == /\ IInv /\ Staffed(db) /\ Wired(db, peer)
            /\ gone = {}

Mains == [at : U!Places, card : CardIds \cup {NoCard}, send : SUBSET U!Choose]

UsersTyped == /\ utente \in [Ports -> U!Utenti]
              /\ main \in [Ports -> Mains]
              /\ p2p \in [Ports -> {"none", "starting", "serving", "ended"}]
              /\ toUser \in [Ports -> Seq(U!BoardMessage)]
              /\ toBoard \in [Ports -> Seq(U!UserMessage)]
              /\ stop = {}

Fit(V, B, p) == /\ Table(V, B, p, utente[p])
                /\ Mail(V, B, db, p, toUser[p])
                /\ Duty(V, B, db, p, utente[p], main[p], toBoard[p])
                /\ Ordered(toBoard[p])
                /\ Spot(utente[p], main[p], p2p[p], toBoard[p], p \in Connected, p \in eof)
                /\ Cast(B, main[p].send)

Voting(V, B) == /\ Ballots(V, B, db)
                /\ Calling(V, B, db, stack, toUser)
                /\ Cast(B, wire)
                /\ \A p \in Ports : Fit(V, B, p)

SystemInv == /\ BoardInv /\ UsersTyped
             /\ \E V \in [CardIds -> SUBSET Ports], B \in [CardIds -> SUBSET (Ports \X Costs)] :
                  Voting(V, B)

-----------------------------------------------------------------------------
(* Votes.                                                                  *)

\* The users name their constants as the board does.
LEMMA SameNames == U!NoCard = NoCard /\ U!NoPort = NoPort /\ NoCard \notin CardIds
                     /\ NoPort \notin Ports
BY IdsAssumption DEF U!NoCard, U!NoPort, NoCard, NoPort

\* And count as it does.
LEMMA SameCount == \A S : U!Cardinality(S) = Cardinality(S)
BY Zenon DEF U!Cardinality, Cardinality

\* Of votes cast once each by members of S, as many as S are all of them.
LEMMA AllVotes ==
  ASSUME NEW S, IsFiniteSet(S), NEW K, NEW T, T \subseteq S \X K,
         \A a, b \in T : a[1] = b[1] => a = b,
         NEW X, X \subseteq T, Cardinality(X) >= Cardinality(S)
  PROVE  X = T /\ U!Voters(T) = S
<1> DEFINE F == U!Voters(T)
           f == [e \in T |-> e[1]]
<1>1. F \subseteq S /\ \A e \in T : e[1] \in F
  BY DEF U!Voters
<1>2. IsFiniteSet(F) /\ Cardinality(F) <= Cardinality(S)
      /\ (Cardinality(F) = Cardinality(S) => F = S)
  BY <1>1, FS_Subset
<1>3. f \in Injection(T, F)
  BY <1>1 DEF Injection, IsInjective
<1>4. IsFiniteSet(T) /\ Cardinality(T) <= Cardinality(F)
  BY <1>2, <1>3, FS_Injection
<1>5. IsFiniteSet(X) /\ Cardinality(X) <= Cardinality(T) /\ (Cardinality(T) = Cardinality(X) => T = X)
  BY <1>4, FS_Subset
<1>6. /\ Cardinality(S) \in Nat /\ Cardinality(F) \in Nat
      /\ Cardinality(T) \in Nat /\ Cardinality(X) \in Nat
  BY <1>2, <1>4, <1>5, FS_CardinalityType
<1> HIDE DEF F
<1>7. X = T /\ F = S
  BY <1>2, <1>4, <1>5, <1>6
<1>8. QED
  BY <1>7 DEF F

\* A user that has counted as many votes as users were called decides as all do.
LEMMA Decides ==
  ASSUME NEW V, NEW B, NEW d, Ballots(V, B, d), NEW p, NEW u \in U!Utenti,
         Table(V, B, p, u), NEW v, v = U!evaluate_election(u, p)
  PROVE  /\ Table(V, B, p, v)
         /\ \/ v = u
            \/ u.state = "CHOOSING" /\ v = U!Released(u)
            \/ u.state = "CHOOSING" /\ v = U!update_state(u, "ACK_PENDING")
<1> DEFINE c == u.card_id
<1>1. CASE ~U!AllArrived(u)
  BY <1>1 DEF U!evaluate_election
<1>2. CASE U!AllArrived(u)
  <2>1. u.state = "CHOOSING" /\ Cardinality(u.choices) >= u.total_users
    BY <1>2, SameCount DEF U!AllArrived
  <2>2. /\ c \in CardIds /\ V[c] # {} /\ u.choices \subseteq B[c]
        /\ u.total_users = Cardinality(V[c])
    BY <2>1, SameNames DEF Table
  <2>3. /\ IsFiniteSet(V[c]) /\ B[c] \subseteq V[c] \X Costs
        /\ \A a, b \in B[c] : a[1] = b[1] => a = b
    BY <2>2 DEF Ballots
  <2>4. u.choices = B[c] /\ U!Voters(B[c]) = V[c]
    <3> DEFINE S == V[c]
               T == B[c]
               X == u.choices
    <3>1. /\ IsFiniteSet(S) /\ T \subseteq S \X Costs
          /\ \A a, b \in T : a[1] = b[1] => a = b
          /\ X \subseteq T /\ Cardinality(X) >= Cardinality(S)
      BY <2>1, <2>2, <2>3
    <3> HIDE DEF S, T, X
    <3>2. X = T /\ U!Voters(T) = S
      BY <3>1, AllVotes
    <3>3. QED
      BY <3>2 DEF S, T, X
  <2>5. CASE U!choose_winner(u.choices) = p
    <3>1. Elected(V, B, p, c)
      BY <2>2, <2>4, <2>5 DEF Elected
    <3>2. v = U!update_state(u, "ACK_PENDING")
      BY <1>2, <2>5 DEF U!evaluate_election
    <3>3. v.state = "ACK_PENDING" /\ v.card_id = c /\ v.choices = u.choices
      BY <3>2 DEF U!update_state, U!Utenti
    <3>4. Table(V, B, p, v)
      BY <2>2, <3>1, <3>3, SameNames DEF Table
    <3>5. QED
      BY <2>1, <3>2, <3>4
  <2>6. CASE U!choose_winner(u.choices) # p
    <3>1. v = U!Released(u)
      BY <1>2, <2>6 DEF U!evaluate_election
    <3>2. v.state = "IDLE" /\ v.card_id = NoCard /\ v.choices = {}
      BY <3>1, SameNames DEF U!Released, U!Utenti
    <3>3. Table(V, B, p, v)
      BY <3>2 DEF Table, Winning
    <3>4. QED
      BY <2>1, <3>1, <3>3
  <2>7. QED
    BY <2>5, <2>6
<1>3. QED
  BY <1>1, <1>2

-----------------------------------------------------------------------------
(* What a user has sent and the board has not read.                        *)

\* A message sent, and nothing else, is one more to read.
LEMMA PostedAppend ==
  ASSUME NEW post \in Seq(U!UserMessage), NEW x \in U!UserMessage
  PROVE  \A type, c : Posted(Append(post, x), type, c)
                        <=> x = U!FromUser(type, c) \/ Posted(post, type, c)
<1> DEFINE after == Append(post, x)
<1>1. /\ DOMAIN after = DOMAIN post \cup {Len(post) + 1}
      /\ after[Len(post) + 1] = x
      /\ \A i \in DOMAIN post : after[i] = post[i]
  OBVIOUS
<1> HIDE DEF after
<1>2. \A type, c : Posted(after, type, c) <=> x = U!FromUser(type, c) \/ Posted(post, type, c)
  BY <1>1 DEF Posted
<1>3. QED
  BY <1>2 DEF after

\* It keeps them in order if it acks or reports a card not yet reported, once.
LEMMA OrderedAppend ==
  ASSUME NEW post \in Seq(U!UserMessage), Ordered(post), NEW x \in U!UserMessage,
         x.type \in {"HELLO", "CREATE_CARD", "ACK_CARD", "CARD_DONE"},
         x.type \in {"ACK_CARD", "CARD_DONE"} =>
           /\ x.card \in CardIds
           /\ ~Posted(post, x.type, x.card) /\ ~Posted(post, "CARD_DONE", x.card)
  PROVE  Ordered(Append(post, x))
<1> DEFINE after == Append(post, x)
           n == Len(post) + 1
<1>1. /\ DOMAIN after = DOMAIN post \cup {n}
      /\ after[n] = x
      /\ \A i \in DOMAIN post : after[i] = post[i] /\ post[i] \in U!UserMessage /\ i < n
  OBVIOUS
<1> HIDE DEF after, n
<1>2. \A m \in U!UserMessage : m = U!FromUser(m.type, m.card)
  BY DEF U!UserMessage, U!FromUser
<1>3. \A i \in DOMAIN post : x.type \in {"ACK_CARD", "CARD_DONE"} =>
                               post[i] # x /\ post[i] # U!FromUser("CARD_DONE", x.card)
  BY <1>2 DEF Posted
<1>4. \A i \in DOMAIN after :
        /\ after[i].type \in {"HELLO", "CREATE_CARD", "ACK_CARD", "CARD_DONE"}
        /\ after[i].type \in {"ACK_CARD", "CARD_DONE"} => after[i].card \in CardIds
  BY <1>1 DEF Ordered
<1>5. ASSUME NEW i \in DOMAIN after, NEW j \in DOMAIN after
      PROVE  /\ after[i] = after[j] /\ after[i].type \in {"ACK_CARD", "CARD_DONE"} => i = j
             /\ after[i].type = "ACK_CARD" /\ after[j] = U!FromUser("CARD_DONE", after[i].card)
                  => i < j
  <2>1. CASE i \in DOMAIN post /\ j \in DOMAIN post
    BY <1>1, <2>1 DEF Ordered
  <2>2. CASE i \in DOMAIN post /\ j = n
    BY <1>1, <1>3, <2>2
  <2>3. CASE i = n /\ j \in DOMAIN post
    BY <1>1, <1>3, <2>3
  <2>4. CASE i = n /\ j = n
    BY <1>1, <2>4 DEF U!FromUser
  <2>5. QED
    BY <1>1, <2>1, <2>2, <2>3, <2>4
<1>6. Ordered(after)
  BY <1>4, <1>5 DEF Ordered
<1>7. QED
  BY <1>6 DEF after

\* A card is acked and reported once: read, it is not to be read again.
LEMMA TailPosted ==
  ASSUME NEW post \in Seq(U!UserMessage), post # <<>>, Ordered(post)
  PROVE  /\ Tail(post) \in Seq(U!UserMessage) /\ Ordered(Tail(post))
         /\ \A type \in {"ACK_CARD", "CARD_DONE"} : \A c :
              /\ Posted(post, type, c)
                   <=> Head(post) = U!FromUser(type, c) \/ Posted(Tail(post), type, c)
              /\ Head(post) = U!FromUser(type, c) => ~Posted(Tail(post), type, c)
         /\ \A c : Head(post) = U!FromUser("CARD_DONE", c) => ~Posted(post, "ACK_CARD", c)
<1> DEFINE after == Tail(post)
<1>1. /\ after \in Seq(U!UserMessage)
      /\ 1 \in DOMAIN post /\ Head(post) = post[1]
      /\ DOMAIN post \subseteq Nat \ {0}
      /\ \A i \in DOMAIN after : i \in Nat /\ i + 1 \in DOMAIN post /\ after[i] = post[i + 1]
      /\ \A i \in DOMAIN post : i = 1 \/ (i - 1 \in DOMAIN after /\ after[i - 1] = post[i])
  OBVIOUS
<1> HIDE DEF after
<1>2. \A type, c : U!FromUser(type, c).type = type /\ U!FromUser(type, c).card = c
  BY DEF U!FromUser
<1>3. Ordered(after)
  <2>1. \A i \in DOMAIN after :
          /\ after[i].type \in {"HELLO", "CREATE_CARD", "ACK_CARD", "CARD_DONE"}
          /\ after[i].type \in {"ACK_CARD", "CARD_DONE"} => after[i].card \in CardIds
    BY <1>1 DEF Ordered
  <2>2. ASSUME NEW i \in DOMAIN after, NEW j \in DOMAIN after
        PROVE  /\ after[i] = after[j] /\ after[i].type \in {"ACK_CARD", "CARD_DONE"} => i = j
               /\ after[i].type = "ACK_CARD" /\ after[j] = U!FromUser("CARD_DONE", after[i].card)
                    => i < j
    <3>1. /\ i \in Nat /\ j \in Nat /\ i + 1 \in DOMAIN post /\ j + 1 \in DOMAIN post
          /\ after[i] = post[i + 1] /\ after[j] = post[j + 1]
      BY <1>1
    <3>2. /\ after[i] = after[j] /\ after[i].type \in {"ACK_CARD", "CARD_DONE"} => i + 1 = j + 1
          /\ after[i].type = "ACK_CARD" /\ after[j] = U!FromUser("CARD_DONE", after[i].card)
               => i + 1 < j + 1
      BY <3>1 DEF Ordered
    <3>3. QED
      BY <3>1, <3>2
  <2>3. QED
    BY <2>1, <2>2 DEF Ordered
<1>4. ASSUME NEW type \in {"ACK_CARD", "CARD_DONE"}, NEW c
      PROVE  /\ Posted(post, type, c) <=> Head(post) = U!FromUser(type, c) \/ Posted(after, type, c)
             /\ Head(post) = U!FromUser(type, c) => ~Posted(after, type, c)
  <2>1. Posted(post, type, c) <=> Head(post) = U!FromUser(type, c) \/ Posted(after, type, c)
    BY <1>1 DEF Posted
  <2>2. ASSUME Head(post) = U!FromUser(type, c), NEW i \in DOMAIN after,
               after[i] = U!FromUser(type, c)
        PROVE  FALSE
    <3>1. i + 1 \in DOMAIN post /\ post[i + 1] = post[1] /\ post[1].type = type
      BY <1>1, <1>2, <2>2
    <3>2. i + 1 = 1
      BY <1>1, <3>1 DEF Ordered
    <3>3. QED
      BY <1>1, <3>2
  <2>3. QED
    BY <2>1, <2>2 DEF Posted
<1>5. ASSUME NEW c, Head(post) = U!FromUser("CARD_DONE", c), NEW i \in DOMAIN post,
             post[i] = U!FromUser("ACK_CARD", c)
      PROVE  FALSE
  <2>1. post[i].type = "ACK_CARD" /\ post[i].card = c
    BY <1>2, <1>5
  <2>2. i < 1
    BY <1>1, <1>5, <2>1 DEF Ordered
  <2>3. QED
    BY <1>1, <2>2
<1>6. QED
  BY <1>1, <1>3, <1>4, <1>5 DEF after, Posted

-----------------------------------------------------------------------------
(* What changes who does what.                                             *)

\* A step that takes no card in hand, acks none and reports none.
LEMMA DutyKept ==
  ASSUME NEW V, NEW B, NEW d, NEW p, NEW u, NEW m, NEW post, Duty(V, B, d, p, u, m, post),
         NEW v, NEW n, NEW after,
         \A c \in CardIds :
           /\ InHand(v, c) => InHand(u, c)
           /\ Taken(v, n, after, c) <=> Taken(u, m, post, c)
           /\ Reporting(n, after, c) => Reporting(m, post, c)
           /\ Posted(after, "ACK_CARD", c) <=> Posted(post, "ACK_CARD", c)
  PROVE  Duty(V, B, d, p, v, n, after)
BY DEF Duty

\* Who is elected for no card has neither acked one nor reported one.
LEMMA NothingToSay ==
  ASSUME NEW V, NEW B, NEW d, NEW p, NEW u, NEW m, NEW post, Duty(V, B, d, p, u, m, post),
         \A c \in CardIds : ~Elected(V, B, p, c)
  PROVE  Duty(V, B, d, p, u, m, <<>>)
<1>1. \A type, c : ~Posted(<<>>, type, c)
  BY DEF Posted
<1>2. \A c \in CardIds : /\ ~Taken(u, m, post, c)
                         /\ ~Taken(u, m, <<>>, c)
                         /\ ~Posted(post, "ACK_CARD", c)
  BY <1>1 DEF Duty, Taken, Reporting
<1>3. \A c \in CardIds : ~Reporting(m, <<>>, c)
  BY <1>2 DEF Taken
<1> HIDE DEF Posted
<1>4. QED
  BY <1>1, <1>2, <1>3, DutyKept

WithVote(B, c, port, cost) == [B EXCEPT ![c] = @ \cup {<<port, cost>>}]

\* A vote is cast by a user called that has not voted, on the card on offer: for that
\* card nobody was elected before, and for the others nothing changes.
LEMMA VoteCast ==
  ASSUME NEW V \in [CardIds -> SUBSET Ports], NEW B \in [CardIds -> SUBSET (Ports \X Costs)],
         NEW d, Ballots(V, B, d), NEW c \in CardIds, d.offered_card_id = c,
         NEW r \in V[c], r \notin U!Voters(B[c]), NEW n \in Costs,
         NEW C, C = WithVote(B, c, r, n)
  PROVE  /\ C \in [CardIds -> SUBSET (Ports \X Costs)]
         /\ Ballots(V, C, d)
         /\ \A x \in CardIds \ {c} : C[x] = B[x]
         /\ C[c] = B[c] \cup {<<r, n>>} /\ U!Voters(C[c]) = U!Voters(B[c]) \cup {r}
         /\ \A p : \A u \in U!Utenti : Table(V, B, p, u) => Table(V, C, p, u)
         /\ \A p, u, m, post : Duty(V, B, d, p, u, m, post) => Duty(V, C, d, p, u, m, post)
         /\ \A msgs : Cast(B, msgs) => Cast(C, msgs)
<1>1. \A x \in CardIds \ {c} : C[x] = B[x]
  BY DEF WithVote
<1>2. C[c] = B[c] \cup {<<r, n>>}
  BY DEF WithVote
<1>3. r \in Ports /\ <<r, n>> \in Ports \X Costs /\ <<r, n>>[1] = r
  OBVIOUS
<1>4. C \in [CardIds -> SUBSET (Ports \X Costs)]
  BY <1>3 DEF WithVote
<1>5. U!Voters(C[c]) = U!Voters(B[c]) \cup {r}
  BY <1>2, <1>3 DEF U!Voters
<1>6. \A e \in B[c] : e[1] # r
  BY DEF U!Voters
<1>7. /\ C[c] \subseteq V[c] \X Costs
      /\ \A a, b \in C[c] : a[1] = b[1] => a = b
  <2>1. B[c] \subseteq V[c] \X Costs /\ \A a, b \in B[c] : a[1] = b[1] => a = b
    BY DEF Ballots
  <2>2. QED
    BY <1>2, <1>3, <1>6, <2>1
<1>8. \A x \in CardIds : B[x] \subseteq C[x]
  BY <1>1, <1>2
<1>9. Ballots(V, C, d)
  BY <1>1, <1>7 DEF Ballots
<1>10. \A p : ~Elected(V, B, p, c)
  BY DEF Elected
<1>11. \A p : \A x \in CardIds \ {c} : Elected(V, C, p, x) <=> Elected(V, B, p, x)
  BY <1>1 DEF Elected
<1> HIDE DEF Elected
<1>12. ASSUME NEW p, NEW u \in U!Utenti, Table(V, B, p, u)
       PROVE  Table(V, C, p, u)
  <2>1. u.card_id \in CardIds \cup {NoCard}
    BY SameNames DEF U!Utenti
  <2>2. u.card_id # NoCard => u.choices \subseteq C[u.card_id]
    BY <1>8, <1>12, <2>1 DEF Table
  <2>3. QED
    BY <1>10, <1>11, <1>12, <2>2 DEF Table
<1>13. ASSUME NEW p, NEW u, NEW m, NEW post, Duty(V, B, d, p, u, m, post)
       PROVE  Duty(V, C, d, p, u, m, post)
  BY <1>10, <1>11, <1>13 DEF Duty
<1>14. \A msgs : Cast(B, msgs) => Cast(C, msgs)
  BY <1>8 DEF Cast
<1>15. QED
  BY <1>1, <1>2, <1>4, <1>5, <1>9, <1>12, <1>13, <1>14

-----------------------------------------------------------------------------
(* What the board does to its cards, and to the votes on them.             *)

\* The users stay and their cards too; others may come.
Keeps(d, e) == /\ RegisteredPorts(d) \subseteq RegisteredPorts(e)
               /\ WorkerOf(e) = WorkerOf(d)
               /\ \A c \in CardIds : ColumnOf(d)[c] \in {"DOING", "DONE"}
                                       => ColumnOf(e)[c] = ColumnOf(d)[c]

\* With the same card on offer, that is nothing to the votes.
LEMMA KeepsVotes ==
  ASSUME NEW V, NEW B, NEW d, NEW e, Keeps(d, e), e.offered_card_id = d.offered_card_id
  PROVE  /\ Ballots(V, B, d) => Ballots(V, B, e)
         /\ \A p, in : Mail(V, B, d, p, in) => Mail(V, B, e, p, in)
         /\ \A p, u, m, post : Duty(V, B, d, p, u, m, post) => Duty(V, B, e, p, u, m, post)
<1>1. Ballots(V, B, d) => Ballots(V, B, e)
  BY DEF Ballots, Keeps
<1>2. \A p, in : Mail(V, B, d, p, in) => Mail(V, B, e, p, in)
  BY DEF Mail
<1>3. \A p, u, m, post : Duty(V, B, d, p, u, m, post) => Duty(V, B, e, p, u, m, post)
  BY DEF Duty, Keeps
<1>4. QED
  BY <1>1, <1>2, <1>3

\* A card offered had no voters: all the users are called to it, and nobody has voted.
LEMMA OfferCalls ==
  ASSUME NEW V \in [CardIds -> SUBSET Ports], NEW B \in [CardIds -> SUBSET (Ports \X Costs)],
         NEW d, Consistent(d), Ballots(V, B, d), OfferDue(d),
         RegisteredPorts(d) \subseteq Ports,
         NEW W, W = [V EXCEPT ![next_todo_card(d)] = RegisteredPorts(d)]
  PROVE  /\ W \in [CardIds -> SUBSET Ports]
         /\ Ballots(W, B, Offered(d))
         /\ \A in : (\A x \in RegisteredPorts(d) : in[x] = <<>>)
                      => Calling(W, B, Offered(d), <<OfferLoop(d)>>, in)
         /\ \A p, u : Table(V, B, p, u) => Table(W, B, p, u)
         /\ \A p, in : Mail(V, B, d, p, in) => in = <<>>
         /\ \A p, u, m, post : Duty(V, B, d, p, u, m, post) => Duty(W, B, Offered(d), p, u, m, post)
<1> DEFINE c == next_todo_card(d)
           e == Offered(d)
           R == RegisteredPorts(d)
<1>1. c \in InColumn(d, "TODO") /\ c \in CardIds /\ c # NoCard
  BY NextTodo, UsedTypes, SameNames DEF OfferDue
<1>2. d.offered_card_id = NoCard /\ d.num_users > 1 /\ ColumnOf(d)[c] = "TODO"
  BY <1>1 DEF OfferDue, ColumnOf, InColumn, UsedCards
<1>3. e.offered_card_id = c
  BY <1>1, OfferConsistent DEF Offered
<1>4. RegisteredPorts(e) = R /\ ColumnOf(e) = ColumnOf(d) /\ WorkerOf(e) = WorkerOf(d)
  BY OfferedSame, EmployedSame
<1>5. V[c] = {} /\ B[c] = {} /\ U!Voters(B[c]) = {}
  BY <1>1, <1>2 DEF Ballots, U!Voters
<1>6. IsFiniteSet(R) /\ Cardinality(R) \in 2 .. MAX_USERS
  <2>1. IsFiniteSet(R) /\ Cardinality(R) = d.num_users /\ Cardinality(R) = Cardinality(UsedSlots(d))
    BY PortsCounted DEF Consistent, Counted
  <2>2. IsFiniteSet(Slots) /\ Cardinality(Slots) = MAX_USERS /\ UsedSlots(d) \subseteq Slots
    <3>1. Slots = 0 .. (MAX_USERS - 1) /\ MAX_USERS \in Nat /\ MAX_USERS > 0
      BY LimitsAssumption DEF Slots
    <3>2. IsFiniteSet(Slots) /\ Cardinality(Slots) = MAX_USERS
      BY <3>1, FS_Interval
    <3>3. QED
      BY <3>2, UsedTypes
  <2>3. Cardinality(UsedSlots(d)) <= MAX_USERS
    BY <2>2, FS_Subset
  <2>4. Cardinality(R) \in Nat /\ MAX_USERS \in Nat
    BY <2>1, FS_CardinalityType, LimitsAssumption
  <2>5. QED
    BY <1>2, <2>1, <2>3, <2>4
<1>7. R # {}
  BY <1>6, FS_EmptySet
<1> HIDE DEF c, e, R
<1>8. W[c] = R /\ \A x \in CardIds \ {c} : W[x] = V[x]
  BY <1>1 DEF c, R
<1>9. W \in [CardIds -> SUBSET Ports]
  BY <1>1 DEF c, R
<1>10. Ballots(W, B, e)
  <2>1. ASSUME NEW x \in CardIds
        PROVE  /\ B[x] \subseteq W[x] \X Costs
               /\ \A a, b \in B[x] : a[1] = b[1] => a = b
               /\ W[x] # {} => /\ IsFiniteSet(W[x]) /\ Cardinality(W[x]) \in 2 .. MAX_USERS
                               /\ W[x] \subseteq RegisteredPorts(e)
                               /\ e.offered_card_id = x \/ ColumnOf(e)[x] \in {"DOING", "DONE"}
    <3>1. CASE x = c
      BY <1>3, <1>4, <1>5, <1>6, <1>8, <3>1
    <3>2. CASE x # c
      <4>1. W[x] = V[x] /\ d.offered_card_id # x
        BY <1>2, <1>8, <3>2, SameNames
      <4>2. QED
        BY <1>4, <4>1 DEF Ballots, R
    <3>3. QED
      BY <3>1, <3>2
  <2>2. QED
    BY <2>1 DEF Ballots
<1>11. ASSUME NEW in, \A x \in RegisteredPorts(d) : in[x] = <<>>
       PROVE  Calling(W, B, e, <<OfferLoop(d)>>, in)
  <2>1. OfferLoop(d) = [op |-> "offer", card |-> c, rest |-> Keyed(R)]
    BY DEF OfferLoop, c, R
  <2>2. /\ c # NoCard /\ W[c] = RegisteredPorts(e) /\ R \in SUBSET W[c]
        /\ \A x \in R : x \notin U!Voters(B[c]) /\ in[x] = <<>>
    BY <1>1, <1>4, <1>5, <1>8, <1>11 DEF R, c
  <2>3. QED
    BY <1>3, <1>7, <2>1, <2>2 DEF Calling
<1>12. \A p : ~Elected(V, B, p, c) /\ ~Elected(W, B, p, c)
  BY <1>5, <1>7, <1>8 DEF Elected
<1>13. \A p : \A x \in CardIds \ {c} : Elected(W, B, p, x) <=> Elected(V, B, p, x)
  BY <1>8 DEF Elected
<1> HIDE DEF Elected
<1>14. ASSUME NEW p, NEW u, Table(V, B, p, u)
       PROVE  Table(W, B, p, u)
  <2>1. u.state = "CHOOSING" => /\ u.card_id \in CardIds \ {c} /\ W[u.card_id] = V[u.card_id]
                                /\ V[u.card_id] # {} /\ u.total_users = Cardinality(V[u.card_id])
    BY <1>5, <1>8, <1>14 DEF Table
  <2>2. u.state \in Winning => u.card_id \in CardIds /\ Elected(W, B, p, u.card_id)
    BY <1>12, <1>13, <1>14 DEF Table
  <2>3. QED
    BY <1>14, <2>1, <2>2 DEF Table
<1>15. \A p, in : Mail(V, B, d, p, in) => in = <<>>
  BY <1>2, SameNames DEF Mail
<1>16. ASSUME NEW p, NEW u, NEW m, NEW post, Duty(V, B, d, p, u, m, post)
       PROVE  Duty(W, B, e, p, u, m, post)
  <2>1. \A x \in CardIds : d.offered_card_id # x
    BY <1>2, SameNames
  <2>2. QED
    BY <1>4, <1>12, <1>13, <1>16, <2>1 DEF Duty
<1>17. QED
  BY <1>9, <1>10, <1>11, <1>14, <1>15, <1>16 DEF e

\* Only one user is elected for a card.
LEMMA OneElected ==
  ASSUME NEW V, NEW B, NEW p, NEW q, NEW c, Elected(V, B, p, c), Elected(V, B, q, c)
  PROVE  p = q
BY DEF Elected

\* The card goes to the user elected for it, whose ACK_CARD is read.
LEMMA TakeVotes ==
  ASSUME NEW V, NEW B, NEW d, NEW e, Ballots(V, B, d), NEW c \in CardIds, NEW p \in Ports,
         d.offered_card_id = c, e.offered_card_id = NoCard, Elected(V, B, p, c),
         \A x \in CardIds : ColumnOf(d)[x] # "DOING",
         RegisteredPorts(e) = RegisteredPorts(d),
         ColumnOf(e) = [ColumnOf(d) EXCEPT ![c] = "DOING"],
         WorkerOf(e) = [WorkerOf(d) EXCEPT ![c] = p]
  PROVE  /\ Ballots(V, B, e)
         /\ \A q, in : Mail(V, B, d, q, in) => in = <<>>
         /\ \A q \in Ports \ {p} : \A u, m, post :
              Duty(V, B, d, q, u, m, post) => Duty(V, B, e, q, u, m, post)
         /\ \A u, m, post, after :
              /\ Duty(V, B, d, p, u, m, post)
              /\ Posted(post, "ACK_CARD", c) /\ ~Posted(after, "ACK_CARD", c)
              /\ \A x \in CardIds : /\ Posted(after, "CARD_DONE", x) <=> Posted(post, "CARD_DONE", x)
                                    /\ Posted(after, "ACK_CARD", x) => Posted(post, "ACK_CARD", x)
              => Duty(V, B, e, p, u, m, after)
<1>1. /\ ColumnOf(e)[c] = "DOING" /\ WorkerOf(e)[c] = p
      /\ \A x \in CardIds \ {c} : /\ ColumnOf(e)[x] = ColumnOf(d)[x]
                                  /\ WorkerOf(e)[x] = WorkerOf(d)[x]
  BY DEF ColumnOf, WorkerOf
<1>2. \A x \in CardIds : WorkerOf(d)[x] = NoPort
  BY DEF ColumnOf, WorkerOf, InColumn, UsedCards
<1>3. \A q \in Ports : q # NoPort
  BY SameNames
<1>4. Ballots(V, B, e)
  BY <1>1 DEF Ballots
<1>5. \A q, in : Mail(V, B, d, q, in) => in = <<>>
  BY DEF Mail, Elected
<1>6. ASSUME NEW q \in Ports \ {p}, NEW u, NEW m, NEW post, Duty(V, B, d, q, u, m, post)
      PROVE  Duty(V, B, e, q, u, m, post)
  <2>1. ~Elected(V, B, q, c)
    BY OneElected
  <2>2. ASSUME NEW x \in CardIds
        PROVE  /\ ~Posted(post, "ACK_CARD", x) /\ ~Taken(u, m, post, x)
               /\ ~(InHand(u, x) /\ Elected(V, B, q, x))
               /\ WorkerOf(e)[x] # q
    <3>1. WorkerOf(d)[x] # q /\ WorkerOf(e)[x] # q
      BY <1>1, <1>2, <1>3
    <3>2. x # c => ~Posted(post, "ACK_CARD", x)
      BY <1>6 DEF Duty
    <3>3. QED
      BY <1>6, <2>1, <3>1, <3>2 DEF Duty
  <2>3. \A x \in CardIds : ~Reporting(m, post, x)
    BY <2>2 DEF Taken
  <2>4. QED
    BY <2>2, <2>3 DEF Duty
<1>7. ASSUME NEW u, NEW m, NEW post, NEW after, Duty(V, B, d, p, u, m, post),
             Posted(post, "ACK_CARD", c), ~Posted(after, "ACK_CARD", c),
             \A x \in CardIds :
               /\ Posted(after, "CARD_DONE", x) <=> Posted(post, "CARD_DONE", x)
               /\ Posted(after, "ACK_CARD", x) => Posted(post, "ACK_CARD", x)
      PROVE  Duty(V, B, e, p, u, m, after)
  <2>1. \A x \in CardIds : Reporting(m, after, x) <=> Reporting(m, post, x)
    BY <1>7 DEF Reporting
  <2>2. \A x \in CardIds : Taken(u, m, after, x) <=> Taken(u, m, post, x)
    BY <2>1 DEF Taken
  <2>3. \A x \in CardIds : ~Posted(after, "ACK_CARD", x)
    BY <1>7 DEF Duty
  <2>4. ASSUME NEW x \in CardIds
        PROVE  /\ WorkerOf(e)[x] = p <=> x = c
               /\ Taken(u, m, post, x) <=> x = c
               /\ InHand(u, x) /\ Elected(V, B, p, x) => x = c
    <3>1. WorkerOf(e)[x] = p <=> x = c
      BY <1>1, <1>2, <1>3
    <3>2. WorkerOf(d)[x] # p
      BY <1>2, <1>3
    <3>3. QED
      BY <1>7, <3>1, <3>2 DEF Duty
  <2>5. QED
    BY <1>7, <2>1, <2>2, <2>3, <2>4 DEF Duty
<1>8. QED
  BY <1>4, <1>5, <1>6, <1>7

\* The card is done when its user's CARD_DONE is read.
LEMMA FinishVotes ==
  ASSUME NEW V, NEW B, NEW d, NEW e, Ballots(V, B, d), NEW c \in CardIds, NEW p \in Ports,
         d.offered_card_id = NoCard, e.offered_card_id = NoCard, WorkerOf(d)[c] = p,
         \A x \in CardIds \ {c} : WorkerOf(d)[x] = NoPort,
         RegisteredPorts(e) = RegisteredPorts(d),
         ColumnOf(e) = [ColumnOf(d) EXCEPT ![c] = "DONE"],
         WorkerOf(e) = [WorkerOf(d) EXCEPT ![c] = NoPort]
  PROVE  /\ Ballots(V, B, e)
         /\ \A q, in : Mail(V, B, d, q, in) => in = <<>>
         /\ \A q \in Ports \ {p} : \A u, m, post :
              Duty(V, B, d, q, u, m, post) => Duty(V, B, e, q, u, m, post)
         /\ \A u, m, post, after :
              /\ Duty(V, B, d, p, u, m, post)
              /\ m.at = "mark" => u.state = "ACK_PENDING"
              /\ m.at = "join" => ~Posted(post, "CARD_DONE", m.card)
              /\ Posted(post, "CARD_DONE", c) /\ ~Posted(after, "CARD_DONE", c)
              /\ \A x \in CardIds : /\ Posted(after, "CARD_DONE", x) => Posted(post, "CARD_DONE", x)
                                    /\ Posted(after, "ACK_CARD", x) => Posted(post, "ACK_CARD", x)
              => Duty(V, B, e, p, u, m, after)
<1>1. /\ ColumnOf(e)[c] = "DONE" /\ WorkerOf(e)[c] = NoPort
      /\ \A x \in CardIds \ {c} : /\ ColumnOf(e)[x] = ColumnOf(d)[x]
                                  /\ WorkerOf(e)[x] = WorkerOf(d)[x]
  BY DEF ColumnOf, WorkerOf
<1>2. \A q \in Ports : q # NoPort
  BY SameNames
<1>3. \A x \in CardIds : d.offered_card_id # x /\ e.offered_card_id # x
  BY SameNames
<1>4. Ballots(V, B, e)
  BY <1>1, <1>3 DEF Ballots
<1>5. \A q, in : Mail(V, B, d, q, in) => in = <<>>
  BY <1>3 DEF Mail
<1>6. ASSUME NEW q \in Ports \ {p}, NEW u, NEW m, NEW post, Duty(V, B, d, q, u, m, post)
      PROVE  Duty(V, B, e, q, u, m, post)
  <2>1. \A x \in CardIds : WorkerOf(d)[x] # q /\ WorkerOf(e)[x] # q
    BY <1>1, <1>2
  <2>2. QED
    BY <1>3, <1>6, <2>1 DEF Duty
<1>7. ASSUME NEW u, NEW m, NEW post, NEW after, Duty(V, B, d, p, u, m, post),
             m.at = "mark" => u.state = "ACK_PENDING",
             m.at = "join" => ~Posted(post, "CARD_DONE", m.card),
             Posted(post, "CARD_DONE", c), ~Posted(after, "CARD_DONE", c),
             \A x \in CardIds :
               /\ Posted(after, "CARD_DONE", x) => Posted(post, "CARD_DONE", x)
               /\ Posted(after, "ACK_CARD", x) => Posted(post, "ACK_CARD", x)
      PROVE  Duty(V, B, e, p, u, m, after)
  <2>1. Reporting(m, post, c) /\ ~InHand(u, c)
    BY <1>7 DEF Duty, Reporting
  <2>2. ~Taken(u, m, after, c)
    BY <1>7, <2>1 DEF Taken, Reporting, InHand, Winning
  <2>3. ASSUME NEW x \in CardIds \ {c}
        PROVE  ~Taken(u, m, after, x) /\ ~(InHand(u, x) /\ Elected(V, B, p, x))
    <3>1. WorkerOf(d)[x] # p
      BY <1>2
    <3>2. ~Taken(u, m, post, x) /\ ~(InHand(u, x) /\ Elected(V, B, p, x))
      BY <1>3, <1>7, <3>1 DEF Duty
    <3>3. QED
      BY <1>7, <3>2 DEF Taken, Reporting
  <2>4. \A x \in CardIds : /\ ~Taken(u, m, after, x) /\ ~Reporting(m, after, x)
                           /\ ~Posted(after, "ACK_CARD", x) /\ WorkerOf(e)[x] # p
    BY <1>1, <1>2, <1>3, <1>7, <2>2, <2>3 DEF Taken, Duty
  <2>5. QED
    BY <2>1, <2>3, <2>4 DEF Duty
<1>8. QED
  BY <1>4, <1>5, <1>6, <1>7

-----------------------------------------------------------------------------
(* What the handlers leave of the board.                                   *)

\* What BoardInv says of a database d and of the connections, but for NotIdle, which
\* send_available_card sees to.
Kept(d, conn) == Consistent(d) /\ Sound(d) /\ Staffed(d) /\ Wired(d, conn)

\* An offer changes neither the users nor the cards.
LEMMA OfferKept ==
  ASSUME NEW d, NEW conn, Kept(d, conn)
  PROVE  /\ Kept(Offered(d), conn)
         /\ Keeps(d, Offered(d))
         /\ RegisteredPorts(Offered(d)) = RegisteredPorts(d)
<1> DEFINE e == Offered(d)
<1>1. Consistent(e) /\ Sound(e)
  BY OfferedGood DEF Good, Kept
<1>2. OneCard(e) /\ Employed(e)
  BY OfferedOne, OfferedEmployed DEF Kept, Staffed
<1>3. e.users = d.users
  BY DEF Offered, set_offered_card, Kept, Consistent, Databases
<1>4. Wired(e, conn)
  BY OfferedWires, WiredSame DEF Kept
<1>5. RegisteredPorts(e) = RegisteredPorts(d) /\ ColumnOf(e) = ColumnOf(d) /\ WorkerOf(e) = WorkerOf(d)
  BY OfferedEmployed DEF Kept, Staffed
<1> HIDE DEF e
<1>6. FreeIdle(e)
  BY <1>3 DEF FreeIdle, UsedSlots, Kept, Staffed
<1>7. QED
  BY <1>1, <1>2, <1>4, <1>5, <1>6 DEF e, Kept, Staffed, Keeps

\* HELLO adds a user who is free.
LEMMA JoinKept ==
  ASSUME NEW d, NEW conn, Good(d), Kept(d, conn), NEW fd \in Fds, NEW port \in Ports,
         CanAddUser(d, port), conn[fd] = port,
         NEW e, e = add_user(d, fd, port)
  PROVE  /\ Kept(e, conn) /\ Keeps(d, e)
         /\ e.offered_card_id = d.offered_card_id
         /\ RegisteredPorts(e) = RegisteredPorts(d) \cup {port}
<1>1. Consistent(e) /\ Sound(e)
  BY AddUserSound
<1>2. e.cards = d.cards /\ e.offered_card_id = d.offered_card_id
  BY AddUserConsistent DEF Good
<1>3. PICK i \in Slots \ UsedSlots(d) :
             /\ UsedSlots(e) = UsedSlots(d) \cup {i}
             /\ e.users[i].status = "IDLE"
             /\ \A j \in UsedSlots(d) : e.users[j] = d.users[j]
  BY AddUserWrites DEF Kept
<1>4. /\ Employed(e)
      /\ RegisteredPorts(e) = RegisteredPorts(d) \cup {port}
      /\ ColumnOf(e) = ColumnOf(d)
      /\ WorkerOf(e) = WorkerOf(d)
  BY JoinEmployed DEF Kept, Staffed
<1>5. Wired(e, conn)
  BY WiredJoin DEF Kept
<1>6. OneCard(e)
  <2>1. InColumn(e, "DOING") \subseteq InColumn(d, "DOING")
    BY <1>2 DEF InColumn, UsedCards
  <2>2. QED
    BY <1>2, <2>1, FewerOne DEF Kept, Staffed
<1>7. FreeIdle(e)
  BY <1>3 DEF FreeIdle, Kept, Staffed
<1>8. QED
  BY <1>1, <1>2, <1>4, <1>5, <1>6, <1>7 DEF Kept, Staffed, Keeps

\* CREATE_CARD of the user program names no id and the column TODO.
LEMMA CreateKept ==
  ASSUME NEW d, NEW conn, Good(d), Kept(d, conn), CanCreate(d, 0),
         NEW e, e = create_card(d, 0, "TODO")
  PROVE  /\ Kept(e, conn) /\ Keeps(d, e)
         /\ e.offered_card_id = d.offered_card_id
         /\ RegisteredPorts(e) = RegisteredPorts(d)
<1> DEFINE new == NewCardId(d, 0)
<1>1. Consistent(e) /\ Sound(e) /\ "TODO" \in Columns /\ Consistent(d)
  BY CreateSound DEF Columns, Kept
<1>2. e.offered_card_id = d.offered_card_id
  BY <1>1, CreateConsistent
<1>3. /\ new \in CardIds \ UsedCards(d)
      /\ e.users = d.users
      /\ \A c \in CardIds \ {new} : e.cards[c] = d.cards[c]
      /\ e.cards[new].status = "TODO"
  BY <1>1, CreateWrites
<1>4. /\ Employed(e) /\ ColumnOf(d)[new] = "NONE"
      /\ RegisteredPorts(e) = RegisteredPorts(d)
      /\ ColumnOf(e) = [ColumnOf(d) EXCEPT ![new] = "TODO"]
      /\ WorkerOf(e) = WorkerOf(d)
  BY <1>1, CreateEmployed DEF Kept, Staffed
<1>5. Wired(e, conn)
  BY <1>1, CardWires, WiredSame DEF Kept
<1> HIDE DEF new
<1>6. OneCard(e)
  <2>1. InColumn(e, "DOING") \subseteq InColumn(d, "DOING")
    BY <1>3 DEF InColumn, UsedCards
  <2>2. QED
    BY <1>2, <2>1, FewerOne DEF Kept, Staffed
<1>7. FreeIdle(e)
  BY <1>3 DEF FreeIdle, UsedSlots, Kept, Staffed
<1>8. \A c \in CardIds : ColumnOf(d)[c] \in {"DOING", "DONE"} => ColumnOf(e)[c] = ColumnOf(d)[c]
  BY <1>4 DEF ColumnOf
<1>9. QED
  BY <1>1, <1>2, <1>4, <1>5, <1>6, <1>7, <1>8 DEF Kept, Staffed, Keeps

\* ACK_CARD gives the card on offer to its sender, who is free no more.
LEMMA TakeKept ==
  ASSUME NEW d, NEW conn, Good(d), Kept(d, conn), NEW port \in Ports, NEW c \in CardIds,
         d.offered_card_id = c, CanTake(d, port, c),
         NEW e, e = clear_offered_card(card_doing(d, port, c))
  PROVE  /\ Kept(e, conn)
         /\ e.offered_card_id = NoCard
         /\ \A x \in CardIds : ColumnOf(d)[x] # "DOING"
         /\ RegisteredPorts(e) = RegisteredPorts(d)
         /\ ColumnOf(e) = [ColumnOf(d) EXCEPT ![c] = "DOING"]
         /\ WorkerOf(e) = [WorkerOf(d) EXCEPT ![c] = port]
<1> DEFINE f == card_doing(d, port, c)
           i == find_user_index(d, port)
<1>1. port \in Ports \cup {NoPort} /\ OneCard(d) /\ Employed(d) /\ Consistent(d)
  BY DEF Kept, Staffed
<1>2. Good(e)
  BY <1>1, TakeGood
<1>3. /\ Consistent(f) /\ Employed(f)
      /\ \A x \in CardIds : ColumnOf(d)[x] # "DOING"
      /\ RegisteredPorts(f) = RegisteredPorts(d)
      /\ ColumnOf(f) = [ColumnOf(d) EXCEPT ![c] = "DOING"]
      /\ WorkerOf(f) = [WorkerOf(d) EXCEPT ![c] = port]
  BY <1>1, TakeEmployed
<1>4. /\ UsedSlots(f) = UsedSlots(d)
      /\ \A j \in UsedSlots(d) \ {i} : f.users[j] = d.users[j]
      /\ f.users[i].assigned_card_id = c
      /\ \A x \in CardIds \ {c} : f.cards[x] = d.cards[x]
  BY <1>1, TakeWrites
<1>5. SameWires(d, f)
  BY <1>1, CardWires
<1> HIDE DEF f, i
<1>6. e = clear_offered_card(f)
  BY DEF f
<1>7. /\ e.offered_card_id = NoCard /\ e.users = f.users /\ e.cards = f.cards
      /\ NoCard \in CardIds \cup {NoCard}
  BY <1>3, <1>6 DEF clear_offered_card, Consistent, Databases
<1>8. SameBoard(f, e) /\ SameWires(f, e)
  BY <1>3, <1>6, <1>7, OfferSameBoard, OfferedWires
<1>9. Employed(e) /\ RegisteredPorts(e) = RegisteredPorts(f) /\ ColumnOf(e) = ColumnOf(f)
      /\ WorkerOf(e) = WorkerOf(f)
  BY <1>3, <1>8, EmployedSame
<1>10. Wired(e, conn)
  BY <1>5, <1>8, WiredSame DEF Kept
<1>11. InColumn(d, "DOING") = {}
  BY <1>3 DEF ColumnOf, InColumn, UsedCards
<1>12. OneCard(e)
  BY <1>4, <1>7, <1>11 DEF OneCard, InColumn, UsedCards
<1>13. FreeIdle(e)
  <2>1. c # NoCard /\ UsedSlots(e) = UsedSlots(d)
    BY <1>4, <1>7, SameNames DEF UsedSlots
  <2>2. QED
    BY <1>4, <1>7, <2>1 DEF FreeIdle, Kept, Staffed
<1>14. QED
  BY <1>2, <1>3, <1>7, <1>9, <1>10, <1>12, <1>13 DEF Kept, Staffed, Good

\* CARD_DONE ends the work, and frees its user.
LEMMA FinishKept ==
  ASSUME NEW d, NEW conn, Good(d), Kept(d, conn), NEW port, NEW c \in CardIds,
         IsRegistered(d, port), CanFinish(d, port, c),
         NEW e, e = card_done(d, port, c)
  PROVE  /\ Kept(e, conn)
         /\ d.offered_card_id = NoCard /\ e.offered_card_id = NoCard
         /\ WorkerOf(d)[c] = port
         /\ \A x \in CardIds \ {c} : WorkerOf(d)[x] = NoPort
         /\ RegisteredPorts(e) = RegisteredPorts(d)
         /\ ColumnOf(e) = [ColumnOf(d) EXCEPT ![c] = "DONE"]
         /\ WorkerOf(e) = [WorkerOf(d) EXCEPT ![c] = NoPort]
<1> DEFINE i == find_user_index(d, port)
<1>1. OneCard(d) /\ Employed(d) /\ Consistent(d)
  BY DEF Kept, Staffed
<1>2. Consistent(e) /\ Sound(e) /\ e.offered_card_id = d.offered_card_id
  BY <1>1, FinishSound, FinishConsistent
<1>3. /\ Employed(e)
      /\ RegisteredPorts(e) = RegisteredPorts(d)
      /\ ColumnOf(e) = [ColumnOf(d) EXCEPT ![c] = "DONE"]
      /\ WorkerOf(e) = [WorkerOf(d) EXCEPT ![c] = NoPort]
  BY <1>1, FinishEmployed
<1>4. /\ UsedSlots(e) = UsedSlots(d)
      /\ \A j \in UsedSlots(d) \ {i} : e.users[j] = d.users[j]
      /\ e.users[i].status = "IDLE"
      /\ \A x \in CardIds \ {c} : e.cards[x] = d.cards[x]
      /\ e.cards[c].status = "DONE"
  BY <1>1, FinishWrites
<1>5. Wired(e, conn)
  BY <1>1, CardWires, WiredSame DEF Kept
<1> HIDE DEF i
<1>6. c \in InColumn(d, "DOING") /\ \A x \in InColumn(d, "DOING") : x = c
  BY <1>1 DEF CanFinish, OneCard
<1>7. WorkerOf(d)[c] = port /\ \A x \in CardIds \ {c} : WorkerOf(d)[x] = NoPort
  BY <1>6 DEF WorkerOf, CanFinish
<1>8. d.offered_card_id = NoCard
  BY <1>1, <1>6 DEF OneCard
<1>9. OneCard(e)
  <2>1. InColumn(e, "DOING") \subseteq InColumn(d, "DOING")
    BY <1>4 DEF InColumn, UsedCards
  <2>2. QED
    BY <1>1, <1>2, <2>1, FewerOne
<1>10. FreeIdle(e)
  BY <1>4 DEF FreeIdle, Kept, Staffed
<1>11. QED
  BY <1>2, <1>3, <1>5, <1>7, <1>8, <1>9, <1>10 DEF Kept, Staffed

-----------------------------------------------------------------------------
(* The steps of the board.                                                 *)

\* Who is elected was called, so it is registered and connected.
LEMMA ElectedStays ==
  ASSUME NEW V, NEW B, NEW d, Ballots(V, B, d), NEW conn, Wired(d, conn),
         NEW c \in CardIds, NEW p \in Ports, Elected(V, B, p, c)
  PROVE  p \in V[c] /\ p \in RegisteredPorts(d) /\ \E fd \in Fds : conn[fd] = p
<1> DEFINE best == U!Best(B[c])
<1>1. best # {} /\ (CHOOSE a \in best : TRUE)[1] = p
  BY SameNames DEF Elected, U!choose_winner
<1>2. PICK a \in best : a[1] = p
  BY <1>1
<1>3. a \in B[c]
  BY <1>2 DEF U!Best
<1>4. p \in V[c]
  BY <1>2, <1>3 DEF Elected, U!Voters
<1>5. p \in RegisteredPorts(d)
  BY <1>4 DEF Ballots
<1>6. \E fd \in Fds : conn[fd] = p
  BY <1>5 DEF RegisteredPorts, Wired
<1>7. QED
  BY <1>4, <1>5, <1>6

\* What is left to read once a message of each port of "read" has been.
Unread(read) == [p \in Ports |-> IF p \in read THEN Tail(toBoard[p]) ELSE toBoard[p]]

\* Of a step of the board the users see what it sends them, and the end of a connection.
LEMMA Served ==
  ASSUME UsersTyped, NEW V, NEW B, Voting(V, B), NEW read, Carry(read),
         \A p \in read : p \in Ports /\ toBoard[p] # <<>>,
         BoardInv', peer' = peer \/ \E fd : peer' = Closed(peer, fd),
         toUser' \in [Ports -> Seq(U!BoardMessage)],
         NEW W, Ballots(W, B, db'), Calling(W, B, db', stack', toUser'),
         \A p \in Ports : /\ Table(W, B, p, utente[p])
                          /\ Mail(W, B, db', p, toUser'[p])
                          /\ Duty(W, B, db', p, utente[p], main[p], Unread(read)[p])
  PROVE  UsersTyped' /\ Voting(W, B)'
<1>1. UNCHANGED <<utente, main, p2p, stop, wire>>
  BY DEF Carry, userVars
<1>2. Connected' \subseteq Connected
  <2>1. NoPort \in {peer[fd] : fd \in Fds} \cup {NoPort}
    OBVIOUS
  <2>2. \A f \in Fds : peer'[f] = peer[f] \/ peer'[f] = NoPort
    BY DEF Closed
  <2>3. QED
    BY <2>2 DEF Connected
<1>3. eof' = eof \cup (Connected \ Connected')
  BY DEF Carry
<1>4. ASSUME NEW p \in Ports
      PROVE  /\ toBoard'[p] \in Seq(U!UserMessage)
             /\ toBoard'[p] = Unread(read)[p] \/ (toBoard'[p] = <<>> /\ p \notin Connected')
             /\ Ordered(toBoard'[p])
             /\ \A x : Posted(toBoard'[p], "CARD_DONE", x) => Posted(toBoard[p], "CARD_DONE", x)
  <2>1. toBoard[p] \in Seq(U!UserMessage) /\ Ordered(toBoard[p])
    BY DEF UsersTyped, Voting, Fit
  <2>2. toBoard'[p] = IF p \notin Connected' THEN <<>> ELSE Unread(read)[p]
    BY DEF Carry, Unread
  <2>3. CASE p \notin Connected'
    BY <2>2, <2>3 DEF Ordered, Posted
  <2>4. CASE p \in Connected' /\ p \in read
    <3>1. toBoard[p] # <<>> /\ toBoard'[p] = Tail(toBoard[p])
      BY <2>2, <2>4 DEF Unread
    <3>2. QED
      BY <2>1, <2>2, <2>4, <3>1, TailPosted
  <2>5. CASE p \in Connected' /\ p \notin read
    BY <2>1, <2>2, <2>5 DEF Unread
  <2>6. QED
    BY <2>3, <2>4, <2>5
<1>5. UsersTyped'
  <2>1. toBoard' \in [Ports -> Seq(U!UserMessage)]
    <3>1. toBoard' = [p \in Ports |-> toBoard'[p]]
      BY DEF Carry
    <3>2. QED
      BY <1>4, <3>1
  <2>2. QED
    BY <1>1, <2>1 DEF UsersTyped
<1>6. ASSUME NEW p \in Ports PROVE Fit(W, B, p)'
  <2>1. Duty(W, B, db', p, utente[p], main[p], toBoard'[p])
    <3>1. CASE toBoard'[p] = Unread(read)[p]
      BY <3>1
    <3>2. CASE toBoard'[p] = <<>> /\ p \notin Connected'
      <4>1. \A c \in CardIds : ~Elected(W, B, p, c)
        <5>1. \A fd \in Fds : peer'[fd] # p
          BY <3>2, SameNames DEF Connected
        <5>2. Wired(db', peer')
          BY DEF BoardInv
        <5>3. QED
          BY <5>1, <5>2, ElectedStays
      <4>2. Duty(W, B, db', p, utente[p], main[p], <<>>)
        BY <4>1, NothingToSay
      <4>3. QED
        BY <3>2, <4>2
    <3>3. QED
      BY <1>4, <3>1, <3>2
  <2>2. Spot(utente[p], main[p], p2p[p], toBoard'[p], p \in Connected', p \in eof')
    <3>1. Spot(utente[p], main[p], p2p[p], toBoard[p], p \in Connected, p \in eof)
      BY DEF Voting, Fit
    <3>2. p \in Connected' => p \in Connected
      BY <1>2
    <3>3. p \in eof' <=> p \in eof \/ (p \in Connected /\ p \notin Connected')
      BY <1>3
    <3>4. QED
      BY <1>4, <3>1, <3>2, <3>3 DEF Spot
  <2>3. Cast(B, main[p].send)
    BY DEF Voting, Fit
  <2>4. Ordered(toBoard'[p])
    BY <1>4
  <2>5. QED
    BY <1>1, <2>1, <2>2, <2>3, <2>4 DEF Fit
<1>7. Cast(B, wire)
  BY DEF Voting
<1>8. QED
  BY <1>1, <1>5, <1>6, <1>7 DEF Voting

\* What the votes need of a database d, when post[p] is left to read from p.
Regular(V, B, d, post) == /\ Ballots(V, B, d)
                       /\ \A p \in Ports : /\ Table(V, B, p, utente[p])
                                           /\ Mail(V, B, d, p, toUser[p])
                                           /\ Duty(V, B, d, p, utente[p], main[p], post[p])

\* A handler that ends in send_available_card calls the users to vote, or leaves the
\* votes alone.
LEMMA Offering ==
  ASSUME NEW V \in [CardIds -> SUBSET Ports], NEW B \in [CardIds -> SUBSET (Ports \X Costs)],
         NEW d, NEW conn, Kept(d, conn), NEW post, Regular(V, B, d, post), SendAvailableCard(d, <<>>)
  PROVE  /\ db' = Offered(d)
         /\ \E W \in [CardIds -> SUBSET Ports] : Regular(W, B, db', post) /\ Calling(W, B, db', stack', toUser)
<1>1. db' = Offered(d)
  BY HandsOver
<1>2. CASE OfferDue(d)
  <2> DEFINE W == [V EXCEPT ![next_todo_card(d)] = RegisteredPorts(d)]
  <2>1. RegisteredPorts(d) \subseteq Ports
    BY DEF Kept, Wired, RegisteredPorts
  <2>2. Consistent(d) /\ Ballots(V, B, d)
    BY DEF Kept, Regular
  <2>3. /\ W \in [CardIds -> SUBSET Ports]
        /\ Ballots(W, B, Offered(d))
        /\ \A in : (\A x \in RegisteredPorts(d) : in[x] = <<>>)
                     => Calling(W, B, Offered(d), <<OfferLoop(d)>>, in)
        /\ \A p, u : Table(V, B, p, u) => Table(W, B, p, u)
        /\ \A p, in : Mail(V, B, d, p, in) => in = <<>>
        /\ \A p, u, m, after : Duty(V, B, d, p, u, m, after) => Duty(W, B, Offered(d), p, u, m, after)
    BY <1>2, <2>1, <2>2, OfferCalls
  <2> HIDE DEF W
  <2>4. \A p \in Ports : toUser[p] = <<>>
    BY <2>3 DEF Regular
  <2>5. Regular(W, B, Offered(d), post)
    <3>1. \A p \in Ports : Mail(W, B, Offered(d), p, toUser[p])
      BY <2>4 DEF Mail
    <3>2. QED
      BY <2>3, <3>1 DEF Regular
  <2>6. stack' = <<OfferLoop(d)>>
    BY <1>2, FrameTypes DEF SendAvailableCard, Kept
  <2>7. Calling(W, B, Offered(d), stack', toUser)
    BY <2>1, <2>3, <2>4, <2>6
  <2>8. QED
    BY <1>1, <2>3, <2>5, <2>7
<1>3. CASE ~OfferDue(d)
  <2>1. db' = d /\ stack' = <<>>
    BY <1>3 DEF SendAvailableCard
  <2>2. QED
    BY <1>1, <2>1 DEF Calling
<1>4. QED
  BY <1>2, <1>3

\* With the same card on offer, users that come and cards that are created change nothing.
LEMMA RegularKept ==
  ASSUME NEW V, NEW B, NEW d, NEW e, NEW post, Regular(V, B, d, post), Keeps(d, e),
         e.offered_card_id = d.offered_card_id
  PROVE  Regular(V, B, e, post)
BY KeepsVotes DEF Regular

\* A message that neither acks a card nor reports one is read and nothing changes.
LEMMA RegularRead ==
  ASSUME UsersTyped, NEW V, NEW B, Voting(V, B), NEW r \in Ports, toBoard[r] # <<>>,
         Head(toBoard[r]).type \notin {"ACK_CARD", "CARD_DONE"}
  PROVE  Regular(V, B, db, Unread({r}))
<1>1. ASSUME NEW p \in Ports
      PROVE  Duty(V, B, db, p, utente[p], main[p], Unread({r})[p])
  <2>1. Duty(V, B, db, p, utente[p], main[p], toBoard[p])
    BY DEF Voting, Fit
  <2>2. CASE p # r
    BY <2>1, <2>2 DEF Unread
  <2>3. CASE p = r
    <3> DEFINE after == Tail(toBoard[r])
    <3>1. toBoard[r] \in Seq(U!UserMessage) /\ Ordered(toBoard[r])
      BY DEF UsersTyped, Voting, Fit
    <3>2. \A type \in {"ACK_CARD", "CARD_DONE"} : \A c :
            Posted(toBoard[r], type, c) <=> Head(toBoard[r]) = U!FromUser(type, c) \/ Posted(after, type, c)
      BY <3>1, TailPosted
    <3>3. \A type, c : U!FromUser(type, c).type = type
      BY DEF U!FromUser
    <3> HIDE DEF after
    <3>4. \A c : /\ Posted(after, "ACK_CARD", c) <=> Posted(toBoard[r], "ACK_CARD", c)
                 /\ Posted(after, "CARD_DONE", c) <=> Posted(toBoard[r], "CARD_DONE", c)
      BY <3>2, <3>3
    <3>5. \A c : /\ Reporting(main[p], after, c) <=> Reporting(main[p], toBoard[p], c)
                 /\ Taken(utente[p], main[p], after, c) <=> Taken(utente[p], main[p], toBoard[p], c)
      BY <2>3, <3>4 DEF Reporting, Taken
    <3>6. Duty(V, B, db, p, utente[p], main[p], after)
      BY <2>1, <2>3, <3>4, <3>5, DutyKept
    <3>7. QED
      BY <2>3, <3>6 DEF Unread, after
  <2>4. QED
    BY <2>2, <2>3
<1>2. QED
  BY <1>1 DEF Regular, Voting, Fit

\* What a message of r to the board finds there.
LEMMA ServedUser ==
  ASSUME SystemInv, NEW fd, HasMessage(fd), NEW r, r = peer[fd]
  PROVE  /\ fd \in Fds /\ r \in Ports /\ toBoard[r] # <<>> /\ toBoard[r] \in Seq(U!UserMessage)
         /\ Head(toBoard[r]) \in U!UserMessage
         /\ Head(toBoard[r]) = U!FromUser(Head(toBoard[r]).type, Head(toBoard[r]).card)
         /\ Good(db) /\ Kept(db, peer)
         /\ From(fd) => UserPort(fd) = r /\ IsRegistered(db, r)
<1>1. fd \in Fds /\ r \in Ports /\ toBoard[r] # <<>>
  BY DEF HasMessage, IsOpen, SystemInv, BoardInv, IInv, ControlTyped
<1>2. toBoard[r] \in Seq(U!UserMessage)
  BY <1>1 DEF SystemInv, UsersTyped
<1>3. Head(toBoard[r]) \in U!UserMessage
  BY <1>1, <1>2
<1>4. Head(toBoard[r]) = U!FromUser(Head(toBoard[r]).type, Head(toBoard[r]).card)
  BY <1>3 DEF U!FromUser, U!UserMessage
<1>5. Good(db) /\ Kept(db, peer)
  BY DEF SystemInv, BoardInv, IInv, Good, Kept
<1>6. From(fd) => UserPort(fd) = r /\ IsRegistered(db, r)
  <2>1. CASE From(fd)
    <3>1. port_from_socket(db, fd) # NoPort
      BY <2>1 DEF From
    <3>2. Wired(db, peer)
      BY <1>5 DEF Kept
    <3>3. port_from_socket(db, fd) = r
      BY <3>1, <3>2, UserOfSocket
    <3>4. QED
      BY <3>1, <3>3, SocketRegistered DEF UserPort
  <2>2. QED
    BY <2>1
<1>7. QED
  BY <1>1, <1>2, <1>3, <1>4, <1>5, <1>6

\* A step that reads a message of r, sends nothing and leaves the votes regular.
LEMMA ServedWell ==
  ASSUME SystemInv, NEW V, NEW B \in [CardIds -> SUBSET (Ports \X Costs)], Voting(V, B),
         NEW fd, HasMessage(fd), NEW r, r = peer[fd], Carry({r}), out' = {},
         IInv', Kept(db', peer'), gone' = {}, peer' = peer \/ peer' = Closed(peer, fd),
         NEW W \in [CardIds -> SUBSET Ports], Regular(W, B, db', Unread({r})),
         Calling(W, B, db', stack', toUser)
  PROVE  SystemInv'
<1>1. BoardInv'
  BY DEF BoardInv, Kept
<1>2. UsersTyped /\ r \in Ports /\ toBoard[r] # <<>>
  BY ServedUser DEF SystemInv
<1>3. toUser' = toUser
  <2>1. \A p : Sent(p) = {}
    BY DEF Sent
  <2>2. toUser' = [p \in Ports |-> toUser[p]]
    BY <2>1 DEF Carry
  <2>3. QED
    BY <1>2, <2>2 DEF UsersTyped
<1>4. toUser' \in [Ports -> Seq(U!BoardMessage)]
  BY <1>2, <1>3 DEF UsersTyped
<1>5. UsersTyped' /\ Voting(W, B)'
  BY <1>1, <1>2, <1>3, <1>4, Served DEF Regular
<1>6. QED
  BY <1>1, <1>5 DEF SystemInv

\* HELLO: the user is added, or its connection closed.
LEMMA ServeHello ==
  ASSUME Undisturbed, SystemInv, NEW fd, HasMessage(fd), NEW r, r = peer[fd], Carry({r}),
         Head(toBoard[r]).type = "HELLO", HandleHello(fd, r)
  PROVE  SystemInv'
<1>1. /\ fd \in Fds /\ r \in Ports /\ toBoard[r] # <<>> /\ Good(db) /\ Kept(db, peer)
  BY ServedUser
<1>2. PICK V \in [CardIds -> SUBSET Ports], B \in [CardIds -> SUBSET (Ports \X Costs)] : Voting(V, B)
  BY DEF SystemInv
<1>3. Regular(V, B, db, Unread({r}))
  BY <1>1, <1>2, RegularRead DEF SystemInv
<1>4. IInv'
  BY <1>1, MessagesInv DEF Messages, SystemInv, BoardInv
<1>5. gone = {} /\ stack = <<>> /\ out' = {} /\ peer \in [Fds -> Ports \cup {NoPort}]
  BY DEF SystemInv, BoardInv, IInv, ControlTyped, HandleHello, Idle, Refuse
<1>6. CASE /\ CanAddUser(db, r)
           /\ SendAvailableCard(add_user(db, fd, r), <<>>)
           /\ UNCHANGED <<peer, gone>>
  <2> DEFINE d == add_user(db, fd, r)
  <2>1. Kept(d, peer) /\ Keeps(db, d) /\ d.offered_card_id = db.offered_card_id
    BY <1>1, <1>6, JoinKept
  <2>2. Regular(V, B, d, Unread({r}))
    BY <1>3, <2>1, RegularKept
  <2> HIDE DEF d
  <2>3. SendAvailableCard(d, <<>>)
    BY <1>6 DEF d
  <2>4. /\ db' = Offered(d)
        /\ \E W \in [CardIds -> SUBSET Ports] :
             Regular(W, B, db', Unread({r})) /\ Calling(W, B, db', stack', toUser)
    BY <1>2, <2>1, <2>2, <2>3, Offering
  <2>5. Kept(db', peer')
    BY <1>6, <2>1, <2>4, OfferKept
  <2>6. QED
    BY <1>2, <1>4, <1>5, <1>6, <2>4, <2>5, ServedWell
<1>7. CASE ~CanAddUser(db, r) /\ Refuse(fd)
  <2>1. peer' = Closed(peer, fd) /\ gone' = {} /\ UNCHANGED <<db, stack>>
    BY <1>5, <1>7 DEF Refuse, CloseFd, Closed
  <2>2. Kept(db', peer')
    <3>1. port_from_socket(db, fd) # peer[fd]
      BY DEF HandleHello, Undisturbed
    <3>2. QED
      BY <1>1, <2>1, <3>1, WiredClose DEF Kept
  <2>3. Calling(V, B, db', stack', toUser)
    BY <1>5, <2>1 DEF Calling
  <2>4. QED
    BY <1>2, <1>3, <1>4, <1>5, <2>1, <2>2, <2>3, ServedWell
<1>8. QED
  BY <1>6, <1>7 DEF HandleHello, Undisturbed

\* CREATE_CARD: a new card, or none.
LEMMA ServeCreate ==
  ASSUME Undisturbed, SystemInv, NEW fd, HasMessage(fd), NEW r, r = peer[fd], Carry({r}),
         Head(toBoard[r]).type = "CREATE_CARD",
         HandleCreateCard(fd, 0, "TODO") \/ Ignored(fd, CanCreate(db, 0))
  PROVE  SystemInv'
<1>1. r \in Ports /\ toBoard[r] # <<>> /\ Good(db) /\ Kept(db, peer)
  BY ServedUser
<1>2. PICK V \in [CardIds -> SUBSET Ports], B \in [CardIds -> SUBSET (Ports \X Costs)] : Voting(V, B)
  BY DEF SystemInv
<1>3. Regular(V, B, db, Unread({r}))
  BY <1>1, <1>2, RegularRead DEF SystemInv
<1>4. gone = {} /\ stack = <<>> /\ out' = {} /\ UNCHANGED <<peer, gone>>
  BY DEF SystemInv, BoardInv, HandleCreateCard, Ignored, From, Idle
<1>5. CASE HandleCreateCard(fd, 0, "TODO")
  <2> DEFINE d == create_card(db, 0, "TODO")
  <2>1. SendAvailableCard(d, <<>>) /\ CanCreate(db, 0)
    BY <1>5 DEF HandleCreateCard
  <2>2. Kept(d, peer) /\ Keeps(db, d) /\ d.offered_card_id = db.offered_card_id
    BY <1>1, <2>1, CreateKept
  <2>3. Regular(V, B, d, Unread({r}))
    BY <1>3, <2>2, RegularKept
  <2> HIDE DEF d
  <2>4. /\ db' = Offered(d)
        /\ \E W \in [CardIds -> SUBSET Ports] :
             Regular(W, B, db', Unread({r})) /\ Calling(W, B, db', stack', toUser)
    BY <1>2, <2>1, <2>2, <2>3, Offering
  <2>5. Kept(db', peer')
    BY <1>4, <2>2, <2>4, OfferKept
  <2>6. IInv'
    BY <1>4, <2>1, <2>2, OfferingStep DEF Kept, SystemInv, BoardInv
  <2>7. QED
    BY <1>2, <1>4, <2>4, <2>5, <2>6, ServedWell
<1>6. CASE Ignored(fd, CanCreate(db, 0))
  <2>1. UNCHANGED <<db, stack>>
    BY <1>6 DEF Ignored
  <2>2. IInv'
    BY <1>4, <2>1 DEF SystemInv, BoardInv, IInv, ControlTyped
  <2>3. Calling(V, B, db', stack', toUser)
    BY <1>4, <2>1 DEF Calling
  <2>4. QED
    BY <1>1, <1>2, <1>3, <1>4, <2>1, <2>2, <2>3, ServedWell
<1>7. QED
  BY <1>5, <1>6

\* ACK_CARD comes from the user elected, and finds the card on offer.
LEMMA ServeAck ==
  ASSUME SystemInv, NEW fd, HasMessage(fd), NEW r, r = peer[fd], Carry({r}),
         NEW c, Head(toBoard[r]) = U!FromUser("ACK_CARD", c),
         HandleAckCard(fd, c) \/ Ignored(fd, db.offered_card_id = c /\ CanTake(db, r, c))
  PROVE  SystemInv'
<1>1. /\ fd \in Fds /\ r \in Ports /\ toBoard[r] # <<>> /\ toBoard[r] \in Seq(U!UserMessage)
      /\ Good(db) /\ Kept(db, peer)
  BY ServedUser
<1>2. From(fd) /\ UserPort(fd) = r /\ IsRegistered(db, r)
  BY ServedUser DEF HandleAckCard, Ignored
<1>3. PICK V \in [CardIds -> SUBSET Ports], B \in [CardIds -> SUBSET (Ports \X Costs)] : Voting(V, B)
  BY DEF SystemInv
<1> DEFINE u == utente[r]
           m == main[r]
           post == toBoard[r]
           after == Tail(toBoard[r])
<1>4. Duty(V, B, db, r, u, m, post) /\ Ordered(post)
  BY <1>1, <1>3 DEF Voting, Fit
<1>5. /\ Posted(post, "ACK_CARD", c) /\ ~Posted(after, "ACK_CARD", c)
      /\ \A x : /\ Posted(after, "CARD_DONE", x) <=> Posted(post, "CARD_DONE", x)
                /\ Posted(after, "ACK_CARD", x) => Posted(post, "ACK_CARD", x)
  <2>1. \A type \in {"ACK_CARD", "CARD_DONE"} : \A x :
          /\ Posted(post, type, x) <=> Head(post) = U!FromUser(type, x) \/ Posted(after, type, x)
          /\ Head(post) = U!FromUser(type, x) => ~Posted(after, type, x)
    BY <1>1, <1>4, TailPosted
  <2>2. \A x : Head(post) # U!FromUser("CARD_DONE", x)
    BY DEF U!FromUser
  <2>3. QED
    BY <2>1, <2>2
<1> HIDE DEF u, m, post, after
<1>6. c \in CardIds
  <2>1. PICK i \in DOMAIN post : post[i] = U!FromUser("ACK_CARD", c)
    BY <1>5 DEF Posted
  <2>2. post[i].type = "ACK_CARD" /\ post[i].card = c
    BY <2>1 DEF U!FromUser
  <2>3. QED
    BY <1>4, <2>1, <2>2 DEF Ordered
<1>7. db.offered_card_id = c /\ Elected(V, B, r, c)
  BY <1>4, <1>5, <1>6 DEF Duty
<1>8. CanTake(db, r, c)
  <2>1. c \in InColumn(db, "TODO") /\ InColumn(db, "DOING") = {}
    BY <1>1, <1>6, <1>7, SameNames DEF Kept, Sound, Staffed, OneCard
  <2>2. \A i \in UsedSlots(db) : db.users[i].status = "IDLE"
    BY <1>1, <2>1 DEF Kept, Staffed, Employed, FreeIdle
  <2>3. UserAt(db, r).status = "IDLE"
    BY <1>2, <2>2, FindUser DEF UserAt
  <2>4. QED
    BY <1>2, <2>1, <2>3 DEF CanTake
<1>9. /\ db' = clear_offered_card(card_doing(db, r, c))
      /\ out' = {} /\ UNCHANGED <<peer, gone, stack>>
  BY <1>2, <1>7, <1>8 DEF HandleAckCard, Ignored
<1>10. IInv'
  <2>1. HandleAckCard(fd, c)
    BY <1>7, <1>8 DEF Ignored
  <2>2. QED
    BY <1>1, <1>6, <2>1, MessagesInv DEF Messages, SystemInv, BoardInv
<1>11. /\ Kept(db', peer)
       /\ db'.offered_card_id = NoCard
       /\ \A x \in CardIds : ColumnOf(db)[x] # "DOING"
       /\ RegisteredPorts(db') = RegisteredPorts(db)
       /\ ColumnOf(db') = [ColumnOf(db) EXCEPT ![c] = "DOING"]
       /\ WorkerOf(db') = [WorkerOf(db) EXCEPT ![c] = r]
  BY <1>1, <1>6, <1>7, <1>8, <1>9, TakeKept
<1>12. /\ Ballots(V, B, db')
       /\ \A q, in : Mail(V, B, db, q, in) => in = <<>>
       /\ \A q \in Ports \ {r} : \A x, n, p :
            Duty(V, B, db, q, x, n, p) => Duty(V, B, db', q, x, n, p)
       /\ Duty(V, B, db', r, u, m, after)
  <2>1. Ballots(V, B, db)
    BY <1>3 DEF Voting
  <2>2. QED
    BY <1>1, <1>4, <1>5, <1>6, <1>7, <1>11, <2>1, TakeVotes
<1>13. Regular(V, B, db', Unread({r}))
  <2>1. \A p \in Ports : Mail(V, B, db', p, toUser[p])
    <3>1. \A p \in Ports : toUser[p] = <<>>
      BY <1>3, <1>12 DEF Voting, Fit
    <3>2. QED
      BY <3>1 DEF Mail
  <2>2. \A p \in Ports : Duty(V, B, db', p, utente[p], main[p], Unread({r})[p])
    BY <1>3, <1>12 DEF Unread, Voting, Fit, u, m, after
  <2>3. QED
    BY <1>3, <1>12, <2>1, <2>2 DEF Regular, Voting, Fit
<1>14. Calling(V, B, db', stack', toUser) /\ gone' = {}
  BY <1>2, <1>9 DEF Calling, From, Idle, SystemInv, BoardInv
<1>15. QED
  BY <1>3, <1>9, <1>10, <1>11, <1>13, <1>14, ServedWell

\* A CARD_DONE read is about the card its user works on.
LEMMA DoneFits ==
  ASSUME SystemInv, NEW r \in Ports, toBoard[r] # <<>>,
         NEW c, Head(toBoard[r]) = U!FromUser("CARD_DONE", c)
  PROVE  c \in CardIds /\ CanFinish(db, r, c)
<1>1. PICK V \in [CardIds -> SUBSET Ports], B \in [CardIds -> SUBSET (Ports \X Costs)] : Voting(V, B)
  BY DEF SystemInv
<1>2. Duty(V, B, db, r, utente[r], main[r], toBoard[r]) /\ Ordered(toBoard[r])
      /\ toBoard[r] \in Seq(U!UserMessage)
  BY <1>1 DEF Voting, Fit, SystemInv, UsersTyped
<1>3. Posted(toBoard[r], "CARD_DONE", c) /\ ~Posted(toBoard[r], "ACK_CARD", c)
  BY <1>2, TailPosted
<1>4. c \in CardIds
  <2>1. PICK i \in DOMAIN toBoard[r] : toBoard[r][i] = U!FromUser("CARD_DONE", c)
    BY <1>3 DEF Posted
  <2>2. toBoard[r][i].type = "CARD_DONE" /\ toBoard[r][i].card = c
    BY <2>1 DEF U!FromUser
  <2>3. QED
    BY <1>2, <2>1, <2>2 DEF Ordered
<1>5. WorkerOf(db)[c] = r
  BY <1>2, <1>3, <1>4 DEF Duty, Taken, Reporting
<1>6. QED
  BY <1>4, <1>5, SameNames DEF WorkerOf, CanFinish

\* CARD_DONE comes from the user at work on the card.
LEMMA ServeDone ==
  ASSUME SystemInv, NEW fd, HasMessage(fd), NEW r, r = peer[fd], Carry({r}),
         NEW c, Head(toBoard[r]) = U!FromUser("CARD_DONE", c),
         HandleCardDone(fd, c) \/ Ignored(fd, CanFinish(db, r, c))
  PROVE  SystemInv'
<1>1. /\ fd \in Fds /\ r \in Ports /\ toBoard[r] # <<>> /\ toBoard[r] \in Seq(U!UserMessage)
      /\ Good(db) /\ Kept(db, peer)
  BY ServedUser
<1>2. From(fd) /\ UserPort(fd) = r /\ IsRegistered(db, r)
  BY ServedUser DEF HandleCardDone, Ignored
<1>3. PICK V \in [CardIds -> SUBSET Ports], B \in [CardIds -> SUBSET (Ports \X Costs)] : Voting(V, B)
  BY DEF SystemInv
<1> DEFINE u == utente[r]
           m == main[r]
           post == toBoard[r]
           after == Tail(toBoard[r])
<1>4. /\ Duty(V, B, db, r, u, m, post) /\ Ordered(post)
      /\ m.at = "mark" => u.state = "ACK_PENDING"
      /\ m.at = "join" => ~Posted(post, "CARD_DONE", m.card)
  BY <1>1, <1>3 DEF Voting, Fit, Spot
<1>5. /\ Posted(post, "CARD_DONE", c) /\ ~Posted(after, "CARD_DONE", c) /\ ~Posted(post, "ACK_CARD", c)
      /\ \A x : /\ Posted(after, "CARD_DONE", x) => Posted(post, "CARD_DONE", x)
                /\ Posted(after, "ACK_CARD", x) => Posted(post, "ACK_CARD", x)
  BY <1>1, <1>4, TailPosted
<1> HIDE DEF u, m, post, after
<1>6. c \in CardIds
  BY <1>1, DoneFits
<1>7. CanFinish(db, r, c)
  BY <1>1, DoneFits
<1>8. HandleCardDone(fd, c)
  BY <1>7 DEF Ignored
<1> DEFINE d == card_done(db, r, c)
<1>9. SendAvailableCard(d, <<>>) /\ out' = {} /\ UNCHANGED <<peer, gone>>
  BY <1>2, <1>8 DEF HandleCardDone
<1>10. IInv'
  BY <1>1, <1>6, <1>8, MessagesInv DEF Messages, SystemInv, BoardInv
<1>11. /\ Kept(d, peer)
       /\ db.offered_card_id = NoCard /\ d.offered_card_id = NoCard
       /\ WorkerOf(db)[c] = r
       /\ \A x \in CardIds \ {c} : WorkerOf(db)[x] = NoPort
       /\ RegisteredPorts(d) = RegisteredPorts(db)
       /\ ColumnOf(d) = [ColumnOf(db) EXCEPT ![c] = "DONE"]
       /\ WorkerOf(d) = [WorkerOf(db) EXCEPT ![c] = NoPort]
  BY <1>1, <1>2, <1>6, <1>7, FinishKept
<1> HIDE DEF d
<1>12. /\ Ballots(V, B, d)
       /\ \A q, in : Mail(V, B, db, q, in) => in = <<>>
       /\ \A q \in Ports \ {r} : \A x, n, p :
            Duty(V, B, db, q, x, n, p) => Duty(V, B, d, q, x, n, p)
       /\ Duty(V, B, d, r, u, m, after)
  <2>1. Ballots(V, B, db)
    BY <1>3 DEF Voting
  <2>2. /\ Ballots(V, B, d)
        /\ \A q, in : Mail(V, B, db, q, in) => in = <<>>
        /\ \A q \in Ports \ {r} : \A x, n, p :
             Duty(V, B, db, q, x, n, p) => Duty(V, B, d, q, x, n, p)
        /\ \A x, n, p, q :
             /\ Duty(V, B, db, r, x, n, p)
             /\ n.at = "mark" => x.state = "ACK_PENDING"
             /\ n.at = "join" => ~Posted(p, "CARD_DONE", n.card)
             /\ Posted(p, "CARD_DONE", c) /\ ~Posted(q, "CARD_DONE", c)
             /\ \A y \in CardIds : /\ Posted(q, "CARD_DONE", y) => Posted(p, "CARD_DONE", y)
                                   /\ Posted(q, "ACK_CARD", y) => Posted(p, "ACK_CARD", y)
             => Duty(V, B, d, r, x, n, q)
    BY <1>1, <1>6, <1>11, <2>1, FinishVotes
  <2>3. Duty(V, B, d, r, u, m, after)
    BY <1>4, <1>5, <2>2
  <2>4. QED
    BY <2>2, <2>3
<1>13. Regular(V, B, d, Unread({r}))
  <2>1. \A p \in Ports : Mail(V, B, d, p, toUser[p])
    <3>1. \A p \in Ports : toUser[p] = <<>>
      BY <1>3, <1>12 DEF Voting, Fit
    <3>2. QED
      BY <3>1 DEF Mail
  <2>2. \A p \in Ports : Duty(V, B, d, p, utente[p], main[p], Unread({r})[p])
    BY <1>3, <1>12 DEF Unread, Voting, Fit, u, m, after
  <2>3. QED
    BY <1>3, <1>12, <2>1, <2>2 DEF Regular, Voting, Fit
<1>14. /\ db' = Offered(d)
       /\ \E W \in [CardIds -> SUBSET Ports] :
            Regular(W, B, db', Unread({r})) /\ Calling(W, B, db', stack', toUser)
  BY <1>3, <1>9, <1>11, <1>13, Offering
<1>15. Kept(db', peer') /\ gone' = {}
  BY <1>9, <1>11, <1>14, OfferKept DEF SystemInv, BoardInv
<1>16. QED
  BY <1>3, <1>9, <1>10, <1>14, <1>15, ServedWell

\* An iteration of the loop of send_available_card: one more user is called.
LEMMA CallOne ==
  ASSUME SystemInv, OfferStep, Carry({})
  PROVE  SystemInv' /\ db' = db
<1>1. PICK V \in [CardIds -> SUBSET Ports], B \in [CardIds -> SUBSET (Ports \X Costs)] : Voting(V, B)
  BY DEF SystemInv
<1> DEFINE c == db.offered_card_id
<1>2. /\ c # NoCard /\ V[c] = RegisteredPorts(db)
      /\ \E R \in SUBSET V[c] :
           /\ R # {} /\ stack = <<[op |-> "offer", card |-> c, rest |-> Keyed(R)]>>
           /\ \A x \in R : x \notin U!Voters(B[c]) /\ toUser[x] = <<>>
  BY <1>1 DEF OfferStep, Running, Voting, Calling
<1>3. PICK R \in SUBSET V[c] : /\ stack = <<[op |-> "offer", card |-> c, rest |-> Keyed(R)]>>
                               /\ \A x \in R : x \notin U!Voters(B[c]) /\ toUser[x] = <<>>
  BY <1>2
<1>4. Kept(db, peer) /\ gone = {} /\ IInv /\ Consistent(db)
  BY DEF SystemInv, BoardInv, IInv, Good, Kept
<1>5. c \in CardIds
  BY <1>2, <1>4 DEF Consistent, Databases
<1> HIDE DEF c
<1>6. /\ Head(stack) = [op |-> "offer", card |-> c, rest |-> Keyed(R)] /\ Tail(stack) = <<>>
      /\ Head(stack).card = c /\ Head(stack).rest = Keyed(R)
  BY <1>3
<1>7. PICK e \in Keyed(R) :
             LET fd == socket_from_port(db, e[2])
             IN  \/ /\ SendOk(fd)
                    /\ out' = {<<fd, AvailableCard(db, c, e[2])>>}
                    /\ stack' = After(e)
                    /\ UNCHANGED <<db, peer, gone>>
                 \/ SendFails(fd)
  BY <1>6 DEF OfferStep, Least
<1>8. PICK x \in R : e = <<x, x>>
  BY <1>7 DEF Keyed
<1> DEFINE fd == socket_from_port(db, x)
<1>9. fd \in Fds /\ peer[fd] = x /\ x \in Ports /\ x # NoPort
  <2>1. IsRegistered(db, x)
    BY <1>2, RegisteredIff
  <2>2. find_user_index(db, x) \in UsedSlots(db) /\ UserAt(db, x).port = x
    BY <2>1, FindUser DEF UserAt
  <2>3. fd = UserAt(db, x).socket_fd
    BY <2>1 DEF socket_from_port
  <2>4. fd \in Fds /\ peer[fd] = x /\ x \in Ports
    BY <1>4, <2>2, <2>3 DEF Kept, Wired, UserAt
  <2>5. QED
    BY <2>4, SameNames
<1> HIDE DEF fd
<1> DEFINE call == Call(V, c, x)
<1>10. /\ out' = {<<fd, AvailableCard(db, c, x)>>}
       /\ stack' = After(e)
       /\ UNCHANGED <<db, peer, gone>>
  BY <1>4, <1>7, <1>8, <1>9 DEF SendFails, IsOpen, fd
<1>11. AvailableCard(db, c, x) = call /\ call \in U!BoardMessage
  <2>1. db.num_users = Cardinality(V[c])
    BY <1>2, <1>4, PortsCounted
  <2>2. AvailableCard(db, c, x) = call
    BY <1>2, <2>1 DEF AvailableCard, users_list_except, Call
  <2>3. Cardinality(V[c]) \in Int /\ V[c] \subseteq Ports
    BY <1>1, <1>4, <1>5, <2>1 DEF Consistent, Databases
  <2>4. QED
    BY <1>5, <2>2, <2>3 DEF Call, U!BoardMessage
<1> HIDE DEF call
<1>12. stack' = IF R \ {x} = {} THEN <<>>
                ELSE <<[op |-> "offer", card |-> c, rest |-> Keyed(R \ {x})]>>
  <2>1. Keyed(R) \ {e} = Keyed(R \ {x}) /\ (Keyed(R \ {x}) = {} <=> R \ {x} = {})
    <3>1. \A y, z : <<y, y>> = <<z, z>> => y = z
      OBVIOUS
    <3>2. Keyed(R) \ {<<x, x>>} = Keyed(R \ {x})
      BY <3>1 DEF Keyed
    <3>3. Keyed(R \ {x}) = {} <=> R \ {x} = {}
      BY DEF Keyed
    <3>4. QED
      BY <1>8, <3>2, <3>3
  <2>2. After(e) = IF Keyed(R \ {x}) = {} THEN <<>>
                   ELSE <<[Head(stack) EXCEPT !.rest = Keyed(R \ {x})]>> \o <<>>
    <3>1. Head(stack).rest \ {e} = Keyed(R \ {x}) /\ Tail(stack) = <<>>
      BY <1>6, <2>1
    <3>2. After(e) = IF Head(stack).rest \ {e} = {} THEN Tail(stack)
                     ELSE <<[Head(stack) EXCEPT !.rest = Head(stack).rest \ {e}]>> \o Tail(stack)
      BY DEF After
    <3>3. QED
      BY <3>1, <3>2
  <2>3. [Head(stack) EXCEPT !.rest = Keyed(R \ {x})] = [op |-> "offer", card |-> c, rest |-> Keyed(R \ {x})]
    BY <1>6
  <2>4. \A f : <<f>> \o <<>> = <<f>>
    OBVIOUS
  <2>5. QED
    BY <1>10, <2>1, <2>2, <2>3, <2>4
<1>13. \A p \in Ports : toUser'[p] = IF p = x THEN <<call>> ELSE toUser[p]
  <2>1. \A p : Sent(p) = IF p = x THEN {call} ELSE {}
    <3>1. <<fd, call>>[1] = fd /\ <<fd, call>>[2] = call /\ out' = {<<fd, call>>}
      BY <1>10, <1>11
    <3>2. \A p : {y \in out' : peer[y[1]] = p /\ y[1] \notin gone} = IF p = x THEN out' ELSE {}
      BY <1>4, <1>9, <3>1
    <3>3. {y[2] : y \in out'} = {call}
      BY <3>1
    <3>4. ASSUME NEW p PROVE Sent(p) = IF p = x THEN {call} ELSE {}
      <4>1. Sent(p) = {y[2] : y \in IF p = x THEN out' ELSE {}}
        BY <3>2 DEF Sent
      <4>2. QED
        BY <3>3, <4>1
    <3>5. QED
      BY <3>4
  <2>2. toUser' = [p \in Ports |-> IF p = x THEN Append(toUser[p], call) ELSE toUser[p]]
    <3>1. call \in {call} /\ (CHOOSE y \in {call} : TRUE) = call
      OBVIOUS
    <3>2. toUser' = [p \in Ports |-> IF Sent(p) = {} THEN toUser[p]
                                    ELSE Append(toUser[p], CHOOSE y \in Sent(p) : TRUE)]
      BY DEF Carry
    <3>3. QED
      BY <2>1, <3>1, <3>2
  <2>3. toUser[x] = <<>> /\ Append(<<>>, call) = <<call>>
    BY <1>3
  <2>4. QED
    BY <2>2, <2>3
<1>14. toUser' \in [Ports -> Seq(U!BoardMessage)]
  <2>1. toUser' = [p \in Ports |-> toUser'[p]]
    BY DEF Carry
  <2>2. \A p \in Ports : toUser'[p] \in Seq(U!BoardMessage)
    <3>1. <<call>> \in Seq(U!BoardMessage)
      BY <1>11
    <3>2. QED
      BY <1>13, <3>1 DEF SystemInv, UsersTyped
  <2>3. QED
    BY <2>1, <2>2
<1>15. BoardInv'
  <2>1. IInv'
    BY <1>4, LoopsInv DEF Loops
  <2>2. QED
    BY <1>4, <1>10, <2>1 DEF BoardInv, Kept
<1>16. Calling(V, B, db', stack', toUser')
  <2>1. CASE R \ {x} = {}
    BY <1>12, <2>1 DEF Calling
  <2>2. CASE R \ {x} # {}
    <3>1. \A y \in R \ {x} : y \notin U!Voters(B[c]) /\ toUser'[y] = <<>>
      BY <1>1, <1>3, <1>5, <1>13
    <3>2. db'.offered_card_id = c /\ db' = db
      BY <1>10 DEF c
    <3>3. R \ {x} \in SUBSET V[c]
      OBVIOUS
    <3>4. QED
      BY <1>2, <1>12, <2>2, <3>1, <3>2, <3>3 DEF Calling
  <2>3. QED
    BY <2>1, <2>2
<1>17. ASSUME NEW p \in Ports
       PROVE  /\ Table(V, B, p, utente[p])
              /\ Mail(V, B, db', p, toUser'[p])
              /\ Duty(V, B, db', p, utente[p], main[p], Unread({})[p])
  <2>1. Mail(V, B, db', p, toUser'[p])
    <3>1. CASE p = x
      <4>1. x \in V[c] /\ x \notin U!Voters(B[c]) /\ toUser'[x] = <<Call(V, c, x)>>
        BY <1>3, <1>9, <1>13 DEF call
      <4>2. db'.offered_card_id = c
        BY <1>10 DEF c
      <4>3. QED
        BY <1>5, <3>1, <4>1, <4>2 DEF Mail
    <3>2. CASE p # x
      BY <1>1, <1>10, <1>13, <3>2 DEF Voting, Fit
    <3>3. QED
      BY <3>1, <3>2
  <2>2. Unread({})[p] = toBoard[p]
    BY DEF Unread
  <2>3. QED
    BY <1>1, <1>10, <2>1, <2>2 DEF Voting, Fit
<1>18. Ballots(V, B, db')
  BY <1>1, <1>10 DEF Voting
<1>19. UsersTyped' /\ Voting(V, B)'
  BY <1>1, <1>10, <1>14, <1>15, <1>16, <1>17, <1>18, Served DEF SystemInv
<1>20. QED
  BY <1>10, <1>15, <1>19 DEF SystemInv

\* What the board may do here: call a user, or read a message of one.
Reads(fd, r) ==
  LET m == Head(toBoard[r])
  IN  /\ HasMessage(fd) /\ r = peer[fd] /\ Carry({r})
      /\ \/ m.type = "HELLO" /\ HandleHello(fd, r)
         \/ /\ m.type = "CREATE_CARD"
            /\ HandleCreateCard(fd, 0, "TODO") \/ Ignored(fd, CanCreate(db, 0))
         \/ \E c : /\ m = U!FromUser("ACK_CARD", c)
                   /\ \/ HandleAckCard(fd, c)
                      \/ Ignored(fd, db.offered_card_id = c /\ CanTake(db, r, c))
         \/ \E c : /\ m = U!FromUser("CARD_DONE", c)
                   /\ HandleCardDone(fd, c) \/ Ignored(fd, CanFinish(db, r, c))

\* A step of the board is one of these.
LEMMA BoardKinds ==
  ASSUME Undisturbed, SystemInv, BoardStep
  PROVE  (OfferStep /\ Carry({})) \/ \E fd, r : Reads(fd, r)
<1>1. CASE LoopStep
  <2>1. PICK V \in [CardIds -> SUBSET Ports], B \in [CardIds -> SUBSET (Ports \X Costs)] : Voting(V, B)
    BY DEF SystemInv
  <2>2. stack # <<>> => Head(stack).op = "offer"
    <3>1. CASE stack # <<>>
      <4>1. PICK R : stack = <<[op |-> "offer", card |-> db.offered_card_id, rest |-> Keyed(R)]>>
        BY <2>1, <3>1 DEF Voting, Calling
      <4>2. QED
        BY <4>1
    <3>2. QED
      BY <3>1
  <2>3. QED
    BY <1>1, <2>2 DEF LoopStep, Loops, WorkStep, CheckPingStep, EvictStep, Running
<1>2. CASE \E fd \in Fds : ServeClient(fd)
  <2>1. PICK fd \in Fds : ServeClient(fd)
    BY <1>2
  <2> DEFINE r == peer[fd]
             m == Head(toBoard[r])
  <2>2. HasMessage(fd) /\ HandleMessage(fd) /\ Carry({r}) /\ NextMessage(fd) = m
    BY <2>1 DEF ServeClient, NextMessage
  <2>3. /\ r \in Ports /\ toBoard[r] # <<>> /\ toBoard[r] \in Seq(U!UserMessage)
        /\ m = U!FromUser(m.type, m.card)
        /\ From(fd) => UserPort(fd) = r
    BY <2>2, ServedUser
  <2>4. m.type \in {"HELLO", "CREATE_CARD", "ACK_CARD", "CARD_DONE"}
    <3>1. Ordered(toBoard[r])
      BY <2>3 DEF SystemInv, Voting, Fit
    <3>2. 1 \in DOMAIN toBoard[r] /\ m = toBoard[r][1]
      BY <2>3
    <3>3. QED
      BY <3>1, <3>2 DEF Ordered
  <2>5. \/ m.type = "HELLO" /\ HandleHello(fd, r)
        \/ /\ m.type = "CREATE_CARD"
           /\ HandleCreateCard(fd, 0, "TODO") \/ Ignored(fd, CanCreate(db, 0))
        \/ /\ m.type = "ACK_CARD"
           /\ \/ HandleAckCard(fd, m.card)
              \/ Ignored(fd, db.offered_card_id = m.card /\ CanTake(db, UserPort(fd), m.card))
        \/ /\ m.type = "CARD_DONE"
           /\ HandleCardDone(fd, m.card) \/ Ignored(fd, CanFinish(db, UserPort(fd), m.card))
    BY <2>2, <2>4 DEF HandleMessage
  <2>6. /\ Ignored(fd, db.offered_card_id = m.card /\ CanTake(db, UserPort(fd), m.card))
             => Ignored(fd, db.offered_card_id = m.card /\ CanTake(db, r, m.card))
        /\ Ignored(fd, CanFinish(db, UserPort(fd), m.card)) => Ignored(fd, CanFinish(db, r, m.card))
    BY <2>3 DEF Ignored
  <2> HIDE DEF r
  <2>7. Reads(fd, r)
    BY <2>2, <2>3, <2>5, <2>6 DEF Reads, r
  <2>8. QED
    BY <2>7
<1>3. ~\E fd \in Fds : ServeEnd(fd)
  BY DEF ServeEnd, ClientClosed, Undisturbed, SystemInv, BoardInv
<1>4. ~TimeStep
  BY DEF TimeStep, Undisturbed
<1>5. QED
  BY <1>1, <1>2, <1>3, <1>4 DEF BoardStep

\* Every step of the board keeps the invariant: the others do not happen here.
LEMMA BoardStepInv ==
  ASSUME Undisturbed, SystemInv, BoardStep
  PROVE  SystemInv'
<1>1. CASE OfferStep /\ Carry({})
  BY <1>1, CallOne
<1>2. ASSUME NEW fd, NEW r, Reads(fd, r)
      PROVE  SystemInv'
  BY <1>2, ServeHello, ServeCreate, ServeAck, ServeDone DEF Reads
<1>3. QED
  BY <1>1, <1>2, BoardKinds

-----------------------------------------------------------------------------
(* The steps of the users.                                                 *)

\* User p comes to the state v, its main thread to n, its P2P thread to s, and its
\* channels to "in" and "post".
Comes(p, v, n, s, in, post) ==
  /\ v \in U!Utenti /\ utente' = [utente EXCEPT ![p] = v]
  /\ n \in Mains /\ main' = [main EXCEPT ![p] = n]
  /\ s \in {"none", "starting", "serving", "ended"} /\ p2p' = [p2p EXCEPT ![p] = s]
  /\ in \in Seq(U!BoardMessage) /\ toUser' = [toUser EXCEPT ![p] = in]
  /\ post \in Seq(U!UserMessage) /\ toBoard' = [toBoard EXCEPT ![p] = post]
  /\ UNCHANGED <<stop, eof>>

\* A step of p that may vote, and so leaves the votes C.
LEMMA UserMoves ==
  ASSUME SystemInv, BoardInv', UNCHANGED <<db, stack>>, NEW V \in [CardIds -> SUBSET Ports],
         NEW B, Voting(V, B), NEW p \in Ports,
         NEW v, NEW n, NEW s, NEW in, NEW post, Comes(p, v, n, s, in, post),
         \A q \in Ports \ {p} : q \in Connected' <=> q \in Connected,
         NEW C \in [CardIds -> SUBSET (Ports \X Costs)],
         Ballots(V, C, db), Calling(V, C, db, stack, toUser'),
         Cast(C, wire'), \A msgs : Cast(B, msgs) => Cast(C, msgs),
         \A q \in Ports \ {p} :
           /\ \A u \in U!Utenti : Table(V, B, q, u) => Table(V, C, q, u)
           /\ \A box : Mail(V, B, db, q, box) => Mail(V, C, db, q, box)
           /\ \A u, m, box : Duty(V, B, db, q, u, m, box) => Duty(V, C, db, q, u, m, box),
         Table(V, C, p, v), Mail(V, C, db, p, in), Duty(V, C, db, p, v, n, post), Ordered(post),
         Spot(v, n, s, post, p \in Connected', p \in eof), Cast(C, n.send)
  PROVE  SystemInv'
<1>1. UsersTyped
  BY DEF SystemInv
<1>2. /\ utente'[p] = v /\ main'[p] = n /\ p2p'[p] = s /\ toUser'[p] = in /\ toBoard'[p] = post
      /\ \A q \in Ports \ {p} : /\ utente'[q] = utente[q] /\ main'[q] = main[q] /\ p2p'[q] = p2p[q]
                                /\ toUser'[q] = toUser[q] /\ toBoard'[q] = toBoard[q]
  BY <1>1 DEF Comes, UsersTyped
<1>3. UsersTyped'
  BY <1>1 DEF Comes, UsersTyped
<1>4. eof' = eof
  BY DEF Comes
<1>5. Fit(V, C, p)'
  BY <1>2, <1>4 DEF Fit
<1>6. ASSUME NEW q \in Ports \ {p} PROVE Fit(V, C, q)'
  <2>1. Fit(V, B, q) /\ utente[q] \in U!Utenti
    BY <1>1 DEF Voting, UsersTyped
  <2>2. /\ Table(V, C, q, utente[q]) /\ Mail(V, C, db, q, toUser[q])
        /\ Duty(V, C, db, q, utente[q], main[q], toBoard[q])
        /\ Cast(C, main[q].send)
    BY <2>1 DEF Fit
  <2>3. Spot(utente[q], main[q], p2p[q], toBoard[q], q \in Connected', q \in eof')
    <3>1. Spot(utente[q], main[q], p2p[q], toBoard[q], q \in Connected, q \in eof)
      BY <2>1 DEF Fit
    <3>2. q \in Connected' <=> q \in Connected
      OBVIOUS
    <3>3. QED
      BY <1>4, <3>1, <3>2 DEF Spot
  <2>4. QED
    BY <1>2, <2>1, <2>2, <2>3 DEF Fit
<1>7. Voting(V, C)'
  BY <1>5, <1>6 DEF Voting
<1>8. QED
  BY <1>3, <1>7 DEF SystemInv

\* A step of p alone, which neither reads a call nor votes.
Acts(p, v, n, s, post) == /\ Alone /\ toUser' = toUser
                          /\ Comes(p, v, n, s, toUser[p], post)

LEMMA UserActs ==
  ASSUME SystemInv, NEW V \in [CardIds -> SUBSET Ports],
         NEW B \in [CardIds -> SUBSET (Ports \X Costs)], Voting(V, B), NEW p \in Ports,
         NEW v, NEW n, NEW s, NEW post, Acts(p, v, n, s, post),
         Cast(B, wire'), Table(V, B, p, v), Duty(V, B, db, p, v, n, post), Ordered(post),
         Spot(v, n, s, post, p \in Connected, p \in eof), Cast(B, n.send)
  PROVE  SystemInv'
<1>1. UNCHANGED <<db, peer, gone, stack>> /\ out' = {} /\ toUser' = toUser
  BY DEF Acts, Alone
<1>2. BoardInv'
  BY <1>1 DEF SystemInv, BoardInv, IInv, ControlTyped
<1>3. Connected' = Connected
  BY <1>1 DEF Connected
<1>4. /\ Ballots(V, B, db) /\ Calling(V, B, db, stack, toUser') /\ Mail(V, B, db, p, toUser[p])
  BY <1>1 DEF Voting, Fit
<1>5. Comes(p, v, n, s, toUser[p], post)
  BY DEF Acts
<1>6. Spot(v, n, s, post, p \in Connected', p \in eof)
  BY <1>3
<1>7. QED
  BY <1>1, <1>2, <1>3, <1>4, <1>5, <1>6, UserMoves

\* What of p stays as it is.
LEMMA Still ==
  ASSUME SystemInv, NEW p \in Ports
  PROVE  /\ utente[p] \in U!Utenti /\ utente = [utente EXCEPT ![p] = utente[p]]
         /\ main[p] \in Mains /\ main = [main EXCEPT ![p] = main[p]]
         /\ p2p[p] \in {"none", "starting", "serving", "ended"} /\ p2p = [p2p EXCEPT ![p] = p2p[p]]
         /\ toUser[p] \in Seq(U!BoardMessage) /\ toUser = [toUser EXCEPT ![p] = toUser[p]]
         /\ toBoard[p] \in Seq(U!UserMessage) /\ toBoard = [toBoard EXCEPT ![p] = toBoard[p]]
         /\ stop = {}
BY DEF SystemInv, UsersTyped

LEMMA AtPlace ==
  \A at \in U!Places : /\ U!At(at) \in Mains
                       /\ U!At(at).at = at /\ U!At(at).card = NoCard /\ U!At(at).send = {}
BY SameNames DEF U!At, Mains

\* A user that forgets its card is free; its worker is to join as before.
LEMMA FreeUser ==
  ASSUME NEW u \in U!Utenti, NEW v, v = U!Released(u)
  PROVE  /\ v \in U!Utenti /\ v.state = "IDLE" /\ v.card_id = NoCard /\ v.choices = {}
         /\ v.worker_started = u.worker_started
<1>1. \A zero \in Int :
        LET w == [u EXCEPT !.state = "IDLE", !.card_id = NoCard, !.total_users = zero,
                           !.peer_ports = {}, !.choices = {}]
        IN  /\ w \in U!Utenti /\ w.state = "IDLE" /\ w.card_id = NoCard /\ w.choices = {}
            /\ w.worker_started = u.worker_started
  BY SameNames DEF U!Utenti, U!UtenteState
<1>2. 0 \in Int
  OBVIOUS
<1>3. QED
  BY <1>1, <1>2, SameNames, Zenon DEF U!Released

\* HELLO and CREATE_CARD have nothing to do with the cards in hand.
LEMMA Relayed ==
  ASSUME NEW post \in Seq(U!UserMessage), Ordered(post), NEW type \in {"HELLO", "CREATE_CARD"},
         NEW after, after = Append(post, U!FromUser(type, U!NoCard))
  PROVE  /\ after \in Seq(U!UserMessage) /\ Ordered(after)
         /\ \A c : /\ Posted(after, "ACK_CARD", c) <=> Posted(post, "ACK_CARD", c)
                   /\ Posted(after, "CARD_DONE", c) <=> Posted(post, "CARD_DONE", c)
<1> DEFINE x == U!FromUser(type, U!NoCard)
<1>1. x \in U!UserMessage /\ x.type = type /\ \A other, c : U!FromUser(other, c).type = other
  BY DEF U!FromUser, U!UserMessage
<1> HIDE DEF x
<1>2. after = Append(post, x)
  BY DEF x
<1>3. Ordered(after)
  BY <1>1, <1>2, OrderedAppend
<1>4. \A other, c : Posted(after, other, c) <=> x = U!FromUser(other, c) \/ Posted(post, other, c)
  BY <1>1, <1>2, PostedAppend
<1>5. \A c : x # U!FromUser("ACK_CARD", c) /\ x # U!FromUser("CARD_DONE", c)
  BY <1>1
<1>6. QED
  BY <1>1, <1>2, <1>3, <1>4, <1>5

\* A step of p that does nothing to a card, whatever else it does.
LEMMA UserPasses ==
  ASSUME SystemInv, NEW V \in [CardIds -> SUBSET Ports],
         NEW B \in [CardIds -> SUBSET (Ports \X Costs)], Voting(V, B), NEW p \in Ports,
         NEW v, NEW n, NEW s, NEW post, Acts(p, v, n, s, post),
         Cast(B, wire'), n.send = {} \/ n = main[p],
         post = toBoard[p] \/ \E type \in {"HELLO", "CREATE_CARD"} :
                                post = Append(toBoard[p], U!FromUser(type, U!NoCard)),
         main[p].at \notin {"mark", "join"}, n.at \notin {"mark", "join"},
         \/ v.card_id = utente[p].card_id /\ v.choices = utente[p].choices
         \/ v.card_id = NoCard /\ v.choices = {},
         v = utente[p] \/ /\ v.state \notin Winning \cup {"CHOOSING"}
                          /\ utente[p].state \notin {"WORKING", "DONE_PENDING"},
         Spot(v, n, s, post, p \in Connected, p \in eof)
  PROVE  SystemInv'
<1> DEFINE u == utente[p]
           m == main[p]
<1>1. /\ Table(V, B, p, u) /\ Duty(V, B, db, p, u, m, toBoard[p]) /\ Ordered(toBoard[p])
      /\ toBoard[p] \in Seq(U!UserMessage) /\ u \in U!Utenti
  BY Still DEF Voting, Fit
<1>2. /\ Ordered(post)
      /\ \A c : /\ Posted(post, "ACK_CARD", c) <=> Posted(toBoard[p], "ACK_CARD", c)
                /\ Posted(post, "CARD_DONE", c) <=> Posted(toBoard[p], "CARD_DONE", c)
  BY <1>1, Relayed
<1>3. Table(V, B, p, v)
  BY <1>1 DEF Table, Winning
<1>4. Duty(V, B, db, p, v, n, post)
  <2>1. \A c \in CardIds : /\ InHand(v, c) => InHand(u, c)
                           /\ Reporting(n, post, c) <=> Reporting(m, toBoard[p], c)
    BY <1>2 DEF InHand, Reporting, Winning
  <2>2. \A c \in CardIds : Taken(v, n, post, c) <=> Taken(u, m, toBoard[p], c)
    BY <2>1 DEF Taken, Winning
  <2>3. QED
    BY <1>1, <1>2, <2>1, <2>2, DutyKept
<1>5. Cast(B, n.send)
  BY DEF Cast, Voting, Fit
<1>6. QED
  BY <1>2, <1>3, <1>4, <1>5, UserActs

\* A step that moves only the main thread, to another place.
LEMMA UserWalks ==
  ASSUME SystemInv, NEW V \in [CardIds -> SUBSET Ports],
         NEW B \in [CardIds -> SUBSET (Ports \X Costs)], Voting(V, B), NEW p \in Ports, Alone,
         NEW at \in U!Places \ {"mark", "join"}, U!Goto(p, U!At(at)),
         UNCHANGED <<utente, p2p, stop, toUser, eof>>, Cast(B, wire'),
         NEW post, toBoard' = [toBoard EXCEPT ![p] = post],
         post = toBoard[p] \/ \E type \in {"HELLO", "CREATE_CARD"} :
                                post = Append(toBoard[p], U!FromUser(type, U!NoCard)),
         main[p].at \notin {"mark", "join"},
         Spot(utente[p], U!At(at), p2p[p], post, p \in Connected, p \in eof)
  PROVE  SystemInv'
<1>1. /\ U!At(at) \in Mains /\ U!At(at).at = at /\ U!At(at).send = {}
  BY AtPlace
<1>2. toBoard[p] \in Seq(U!UserMessage) /\ Ordered(toBoard[p])
  BY Still DEF Voting, Fit
<1>3. post \in Seq(U!UserMessage)
  BY <1>2, Relayed
<1>4. Acts(p, utente[p], U!At(at), p2p[p], post)
  BY <1>1, <1>3, Still DEF Acts, Comes, U!Goto
<1>5. QED
  BY <1>1, <1>4, UserPasses

\* start_p2p_on_port and the HELLO after it.
LEMMA StartingInv ==
  ASSUME SystemInv, NEW p \in Ports, UserStarts(p)
  PROVE  SystemInv'
<1>1. PICK V \in [CardIds -> SUBSET Ports], B \in [CardIds -> SUBSET (Ports \X Costs)] : Voting(V, B)
  BY DEF SystemInv
<1> DEFINE u == utente[p]
           m == main[p]
           post == toBoard[p]
           Placed(v, n, s, after) == Spot(v, n, s, after, p \in Connected, p \in eof)
<1>2. Placed(u, m, p2p[p], post) /\ Cast(B, wire) /\ Alone
  BY <1>1 DEF Voting, Fit, UserStarts
<1>3. /\ u \in U!Utenti /\ post \in Seq(U!UserMessage)
      /\ utente = [utente EXCEPT ![p] = utente[p]] /\ toBoard = [toBoard EXCEPT ![p] = post]
      /\ p2p = [p2p EXCEPT ![p] = p2p[p]] /\ toUser = [toUser EXCEPT ![p] = toUser[p]]
      /\ toUser[p] \in Seq(U!BoardMessage) /\ p2p[p] \in {"none", "starting", "serving", "ended"}
  BY Still
<1>4. CASE U!StartUser(p)
  <2> DEFINE v == U!utente_init
             n == U!At("starting")
  <2>1. m.at = "off" /\ wire' = wire
    BY <1>4 DEF U!StartUser, U!links
  <2>2. v \in U!Utenti /\ v.card_id = NoCard /\ v.choices = {} /\ v.state = "STARTING_P2P"
        /\ ~v.worker_started
    BY SameNames DEF U!utente_init, U!Utenti, U!UtenteState
  <2>3. n \in Mains /\ n.at = "starting" /\ n.send = {}
    BY AtPlace DEF U!Places
  <2>4. Acts(p, v, n, "starting", post)
    BY <1>2, <1>3, <1>4, <2>2, <2>3
       DEF Acts, Comes, U!StartUser, U!SetUser, U!Goto, U!links
  <2> HIDE DEF v, n
  <2>5. Placed(v, n, "starting", post)
    BY <1>2, <2>1, <2>2, <2>3 DEF Spot
  <2>6. u.state \notin {"WORKING", "DONE_PENDING"}
    BY <1>2, <2>1 DEF Spot
  <2>7. v.state \notin Winning \cup {"CHOOSING"}
    BY <2>2 DEF Winning
  <2>8. QED
    BY <1>1, <1>2, <2>1, <2>2, <2>3, <2>4, <2>5, <2>6, <2>7, UserPasses
<1>5. CASE U!P2PStarted(p)
  <2>1. /\ m.at = "starting" /\ u.state # "STARTING_P2P"
        /\ UNCHANGED <<utente, p2p, stop, toUser, toBoard, eof, wire>>
        /\ \/ u.state = "CONNECTING" /\ U!Goto(p, U!At("connecting"))
           \/ u.state # "CONNECTING" /\ p2p[p] = "ended" /\ U!Goto(p, U!At("ended"))
    BY <1>5 DEF U!P2PStarted, U!links
  <2>2. PICK at \in {"connecting", "ended"} : /\ U!Goto(p, U!At(at))
                                              /\ at = "connecting" => u.state = "CONNECTING"
    BY <2>1
  <2>3. at \in U!Places \ {"mark", "join"} /\ U!At(at).at = at
    BY AtPlace DEF U!Places
  <2>4. Placed(u, U!At(at), p2p[p], post)
    BY <1>2, <2>1, <2>2, <2>3 DEF Spot
  <2>5. /\ Cast(B, wire') /\ toBoard' = [toBoard EXCEPT ![p] = post]
        /\ main[p].at \notin {"mark", "join"} /\ UNCHANGED <<utente, p2p, stop, toUser, eof>>
    BY <1>2, <1>3, <2>1
  <2>6. U!Goto(p, U!At(at)) /\ Alone
    BY <1>2, <2>2
  <2>7. QED
    BY <1>1, <2>3, <2>4, <2>5, <2>6, UserWalks
<1>6. CASE U!SendHello(p)
  <2>1. m.at = "hello" /\ UNCHANGED <<p2p, stop, toUser, eof, wire>>
        /\ \/ /\ U!Send(p, U!FromUser("HELLO", U!NoCard), U!At("idle"), U!At("idle"))
              /\ UNCHANGED utente
           \/ p \in eof /\ U!GiveUp(p) /\ UNCHANGED toBoard
    BY <1>6 DEF U!SendHello
  <2>2. CASE U!Send(p, U!FromUser("HELLO", U!NoCard), U!At("idle"), U!At("idle")) /\ UNCHANGED utente
    <3>1. PICK after : /\ after = post \/ \E type \in {"HELLO", "CREATE_CARD"} :
                                            after = Append(post, U!FromUser(type, U!NoCard))
                       /\ toBoard' = [toBoard EXCEPT ![p] = after] /\ U!Goto(p, U!At("idle"))
      BY <1>3, <2>2 DEF U!Send
    <3>2. "idle" \in U!Places \ {"mark", "join"} /\ U!At("idle").at = "idle"
      BY AtPlace DEF U!Places
    <3>3. Placed(u, U!At("idle"), p2p[p], after)
      BY <1>2, <2>1, <3>2 DEF Spot
    <3>4. QED
      BY <1>1, <1>2, <2>1, <2>2, <3>1, <3>2, <3>3, UserWalks
  <2>3. CASE p \in eof /\ U!GiveUp(p) /\ UNCHANGED toBoard
    <3> DEFINE v == U!update_state(u, "DISCONNECTING")
               n == U!At("closing")
    <3>1. v \in U!Utenti /\ v.state = "DISCONNECTING" /\ v.card_id = u.card_id
          /\ v.choices = u.choices /\ v.worker_started = u.worker_started
      BY <1>3 DEF U!update_state, U!Utenti, U!UtenteState
    <3>2. n \in Mains /\ n.at = "closing" /\ n.send = {}
      BY AtPlace DEF U!Places
    <3>3. Acts(p, v, n, p2p[p], post)
      BY <1>2, <1>3, <2>1, <2>3, <3>1, <3>2 DEF Acts, Comes, U!GiveUp, U!SetUser, U!Goto
    <3> HIDE DEF v, n
    <3>4. Placed(v, n, p2p[p], post)
      BY <1>2, <2>1, <2>3, <3>1, <3>2 DEF Spot
    <3>5. u.state \notin {"WORKING", "DONE_PENDING"} /\ v.state \notin Winning \cup {"CHOOSING"}
      BY <1>2, <2>1, <3>1 DEF Spot, Winning
    <3>6. QED
      BY <1>1, <1>2, <2>1, <3>1, <3>2, <3>3, <3>4, <3>5, UserPasses
  <2>4. QED
    BY <2>1, <2>2, <2>3
<1>7. CASE U!SetIdle(p)
  <2> DEFINE v == U!update_state(u, "IDLE")
             n == U!At("listen")
  <2>1. m.at = "idle" /\ wire' = wire
    BY <1>7 DEF U!SetIdle, U!links
  <2>2. v \in U!Utenti /\ v.state = "IDLE" /\ v.card_id = u.card_id
        /\ v.choices = u.choices /\ v.worker_started = u.worker_started
    BY <1>3 DEF U!update_state, U!Utenti, U!UtenteState
  <2>3. n \in Mains /\ n.at = "listen" /\ n.send = {}
    BY AtPlace DEF U!Places
  <2>4. Acts(p, v, n, p2p[p], post)
    BY <1>2, <1>3, <1>7, <2>2, <2>3 DEF Acts, Comes, U!SetIdle, U!SetUser, U!Goto, U!links
  <2> HIDE DEF v, n
  <2>5. Placed(v, n, p2p[p], post)
    BY <1>2, <2>1, <2>2, <2>3 DEF Spot
  <2>6. u.state \notin {"WORKING", "DONE_PENDING"} /\ v.state \notin Winning \cup {"CHOOSING"}
    BY <1>2, <2>1, <2>2 DEF Spot, Winning
  <2>7. QED
    BY <1>1, <1>2, <2>1, <2>2, <2>3, <2>4, <2>5, <2>6, UserPasses
<1>8. QED
  BY <1>4, <1>5, <1>6, <1>7 DEF UserStarts

\* client_connect_to_server, accepted on a descriptor that no user has.
LEMMA ConnectingInv ==
  ASSUME SystemInv, NEW p \in Ports, UserConnects(p)
  PROVE  SystemInv'
<1>1. PICK V \in [CardIds -> SUBSET Ports], B \in [CardIds -> SUBSET (Ports \X Costs)] : Voting(V, B)
  BY DEF SystemInv
<1> DEFINE u == utente[p]
           n == U!At("hello")
<1>2. /\ Table(V, B, p, u) /\ Mail(V, B, db, p, toUser[p])
      /\ Duty(V, B, db, p, u, main[p], toBoard[p]) /\ Ordered(toBoard[p])
      /\ Spot(u, main[p], p2p[p], toBoard[p], p \in Connected, p \in eof)
      /\ Cast(B, wire) /\ Ballots(V, B, db) /\ Calling(V, B, db, stack, toUser)
  BY <1>1 DEF Voting, Fit
<1>3. /\ n \in Mains /\ n.at = "hello" /\ n.send = {}
  BY AtPlace DEF U!Places
<1>4. /\ main[p].at = "connecting" /\ main' = [main EXCEPT ![p] = n]
      /\ UNCHANGED <<utente, p2p, stop, toUser, toBoard, eof, wire>>
      /\ UNCHANGED <<db, gone, stack>> /\ Accept(p)
  BY DEF UserConnects, U!Connect, U!Goto, U!links, Accept
<1>5. /\ peer \in [Fds -> Ports \cup {NoPort}] /\ Wired(db, peer) /\ IInv
  BY DEF SystemInv, BoardInv, IInv, ControlTyped
<1>6. PICK fd \in Fds : peer[fd] = NoPort /\ peer' = [peer EXCEPT ![fd] = p]
  BY <1>4 DEF Accept, FreeFds
<1>7. Wired(db, peer)'
  <2>1. \A i \in UsedSlots(db) : db.users[i].port # NoPort /\ db.users[i].socket_fd # fd
    BY <1>5, <1>6, SameNames DEF Wired
  <2>2. QED
    BY <1>4, <1>5, <1>6, <2>1 DEF Wired
<1>8. BoardInv'
  <2>1. IInv'
    BY <1>4, <1>5, ConnectionsInv DEF Connections
  <2>2. QED
    BY <1>4, <1>7, <2>1 DEF SystemInv, BoardInv
<1>9. p \in Connected' /\ \A q \in Ports \ {p} : q \in Connected' <=> q \in Connected
  BY <1>5, <1>6, SameNames DEF Connected
<1>10. Comes(p, u, n, p2p[p], toUser[p], toBoard[p])
  BY <1>3, <1>4, Still DEF Comes
<1>11. Duty(V, B, db, p, u, n, toBoard[p])
  <2>1. \A c \in CardIds : /\ Reporting(n, toBoard[p], c) <=> Reporting(main[p], toBoard[p], c)
                           /\ Taken(u, n, toBoard[p], c) <=> Taken(u, main[p], toBoard[p], c)
    BY <1>3, <1>4 DEF Reporting, Taken
  <2>2. QED
    BY <1>2, <2>1, DutyKept
<1>12. Spot(u, n, p2p[p], toBoard[p], p \in Connected', p \in eof)
  BY <1>2, <1>3, <1>4 DEF Spot
<1>13. /\ Cast(B, n.send) /\ Cast(B, wire') /\ Calling(V, B, db, stack, toUser')
  BY <1>2, <1>3, <1>4 DEF Cast
<1> HIDE DEF n
<1>14. UNCHANGED <<db, stack>>
  BY <1>4
<1>15. QED
  BY <1>1, <1>2, <1>8, <1>9, <1>10, <1>11, <1>12, <1>13, <1>14, UserMoves


\* The commands typed are CREATE_CARD.
LEMMA TypingInv ==
  ASSUME Undisturbed, SystemInv, NEW p \in Ports, UserTypes(p)
  PROVE  SystemInv'
<1>1. PICK V \in [CardIds -> SUBSET Ports], B \in [CardIds -> SUBSET (Ports \X Costs)] : Voting(V, B)
  BY DEF SystemInv
<1> DEFINE post == toBoard[p]
           x == U!FromUser("CREATE_CARD", U!NoCard)
<1>2. U!TypeRelayed(p, "CREATE_CARD") /\ Alone
  BY DEF UserTypes, U!Terminal, U!TypeRelayed, U!TypeChooseUser, U!TypeAckCard, U!TypeCardDone,
         U!TypeQuit, U!Types, Undisturbed
<1>3. main[p].at = "listen" /\ UNCHANGED <<utente, p2p, stop, toUser, eof, wire>>
      /\ U!Send(p, x, U!At("server"), U!At("quit"))
  BY <1>2 DEF U!TypeRelayed, U!Types, U!InPass
<1>4. toBoard = [toBoard EXCEPT ![p] = post]
  BY Still
<1>5. PICK at \in {"server", "quit"}, after \in {post, Append(post, x)} :
        U!Goto(p, U!At(at)) /\ toBoard' = [toBoard EXCEPT ![p] = after] /\ (at = "quit" => p \in eof)
  BY <1>3, <1>4 DEF U!Send
<1>6. at \in U!Places \ {"mark", "join"} /\ U!At(at).at = at
  BY AtPlace DEF U!Places
<1>7. Spot(utente[p], main[p], p2p[p], post, p \in Connected, p \in eof) /\ Cast(B, wire')
  BY <1>1, <1>3 DEF Voting, Fit
<1>8. Spot(utente[p], U!At(at), p2p[p], after, p \in Connected, p \in eof)
  BY <1>3, <1>5, <1>6, <1>7 DEF Spot
<1>9. after = post \/ \E type \in {"HELLO", "CREATE_CARD"} : after = Append(post, U!FromUser(type, U!NoCard))
  BY <1>5
<1>10. main[p].at \notin {"mark", "join"} /\ UNCHANGED <<utente, p2p, stop, toUser, eof>>
  BY <1>3
<1>11. QED
  BY <1>1, <1>2, <1>5, <1>6, <1>7, <1>8, <1>9, <1>10, UserWalks

\* A cost under way is a vote: counted by who it is for, it may be the last.
LEMMA HearingInv ==
  ASSUME SystemInv, NEW p \in Ports, Alone, NEW x \in wire, U!Deliver(p, x)
  PROVE  SystemInv'
<1>1. PICK V \in [CardIds -> SUBSET Ports], B \in [CardIds -> SUBSET (Ports \X Costs)] : Voting(V, B)
  BY DEF SystemInv
<1> DEFINE u == utente[p]
           m == main[p]
           c == x.card
           w == [u EXCEPT !.card_id = c, !.choices = U!add_choice(u.choices, x.from, x.cost)]
           v == U!record_choice(u, p, c, x.from, x.cost)
<1>2. /\ Table(V, B, p, u) /\ Duty(V, B, db, p, u, m, toBoard[p]) /\ Ordered(toBoard[p])
      /\ Spot(u, m, p2p[p], toBoard[p], p \in Connected, p \in eof)
      /\ Cast(B, m.send) /\ Cast(B, wire) /\ Ballots(V, B, db) /\ u \in U!Utenti
  BY <1>1, Still DEF Voting, Fit
<1>3. Cast(B, wire')
  BY <1>2 DEF U!Deliver, Cast
<1>4. c \in CardIds /\ <<x.from, x.cost>> \in B[c] /\ <<x.from, x.cost>> \in Ports \X Costs
  BY <1>2 DEF Cast
<1>5. U!add_choice(u.choices, x.from, x.cost) \subseteq u.choices \cup {<<x.from, x.cost>>}
  BY DEF U!add_choice
<1>6. CASE u.card_id \notin {NoCard, c}
  <2>1. v = u
    BY <1>6, SameNames DEF U!record_choice
  <2>2. Acts(p, u, m, p2p[p], toBoard[p])
    BY <2>1, Still DEF Acts, Comes, U!Deliver, U!SetUser
  <2>3. QED
    BY <1>1, <1>2, <1>3, <2>2, UserActs
<1>7. CASE u.card_id \in {NoCard, c}
  <2>1. v = U!evaluate_election(w, p)
    BY <1>7, SameNames DEF U!record_choice
  <2>2. /\ w \in U!Utenti /\ w.state = u.state /\ w.card_id = c
        /\ w.worker_started = u.worker_started /\ w.total_users = u.total_users
    BY <1>2, <1>4, <1>5 DEF U!Utenti
  <2>3. w.choices \subseteq B[c]
    BY <1>2, <1>4, <1>5, <1>7 DEF U!Utenti, Table
  <2>4. u.state \in Winning \cup {"CHOOSING"} => u.card_id = c
    BY <1>2, <1>7, SameNames DEF Table
  <2>5. Table(V, B, p, w)
    BY <1>2, <1>4, <2>2, <2>3, <2>4, SameNames DEF Table
  <2> HIDE DEF v, w
  <2>6. /\ Table(V, B, p, v)
        /\ \/ v = w
           \/ w.state = "CHOOSING" /\ v = U!Released(w)
           \/ w.state = "CHOOSING" /\ v = U!update_state(w, "ACK_PENDING")
    BY <1>2, <2>1, <2>2, <2>5, Decides
  <2>7. /\ v \in U!Utenti /\ v.worker_started = u.worker_started
        /\ \/ v.state = u.state /\ v.card_id = c
           \/ u.state = "CHOOSING" /\ v.state = "IDLE"
           \/ u.state = "CHOOSING" /\ v.state = "ACK_PENDING" /\ v.card_id = c
    <3>1. CASE v = w
      BY <2>2, <3>1
    <3>2. CASE w.state = "CHOOSING" /\ v = U!Released(w)
      BY <2>2, <3>2, FreeUser
    <3>3. CASE w.state = "CHOOSING" /\ v = U!update_state(w, "ACK_PENDING")
      BY <2>2, <3>3 DEF U!update_state, U!Utenti, U!UtenteState
    <3>4. QED
      BY <2>6, <3>1, <3>2, <3>3
  <2>8. Duty(V, B, db, p, v, m, toBoard[p])
    <3>1. m.at = "mark" => u.state = "ACK_PENDING"
      BY <1>2 DEF Spot
    <3>2. \A y \in CardIds : /\ InHand(v, y) => InHand(u, y)
                             /\ Taken(v, m, toBoard[p], y) <=> Taken(u, m, toBoard[p], y)
      BY <2>4, <2>7, <3>1 DEF InHand, Taken, Winning
    <3>3. QED
      BY <1>2, <3>2, DutyKept
  <2>9. Spot(v, m, p2p[p], toBoard[p], p \in Connected, p \in eof)
    BY <1>2, <2>7 DEF Spot, Winning
  <2>10. Acts(p, v, m, p2p[p], toBoard[p])
    BY <2>7, Still DEF Acts, Comes, U!Deliver, U!SetUser, v
  <2>11. QED
    BY <1>1, <1>2, <1>3, <2>6, <2>8, <2>9, <2>10, UserActs
<1>8. QED
  BY <1>6, <1>7

\* The P2P thread comes and goes while its user has no card.
LEMMA ListeningInv ==
  ASSUME Undisturbed, SystemInv, NEW p \in Ports, UserListens(p)
  PROVE  SystemInv'
<1>1. PICK V \in [CardIds -> SUBSET Ports], B \in [CardIds -> SUBSET (Ports \X Costs)] : Voting(V, B)
  BY DEF SystemInv
<1> DEFINE u == utente[p]
           m == main[p]
           post == toBoard[p]
<1>2. /\ Spot(u, m, p2p[p], post, p \in Connected, p \in eof) /\ Cast(B, wire) /\ u \in U!Utenti
      /\ Alone
  BY <1>1, Still DEF Voting, Fit, UserListens
<1>3. ASSUME NEW s \in {"serving", "ended"}, NEW state \in {"CONNECTING", "SHUTTING_DOWN"},
             p2p' = [p2p EXCEPT ![p] = s], U!SetUser(p, U!update_state(u, state)),
             UNCHANGED <<main, stop, toUser, toBoard, eof, wire>>,
             u.state \in {"STARTING_P2P", "DISCONNECTING", "SHUTTING_DOWN"},
             m.at \in {"starting", "closing", "ended"},
             state = "CONNECTING" => m.at = "starting"
      PROVE  SystemInv'
  <2> DEFINE v == U!update_state(u, state)
  <2>1. v \in U!Utenti /\ v.state = state /\ v.card_id = u.card_id
        /\ v.choices = u.choices /\ v.worker_started = u.worker_started
    BY <1>2 DEF U!update_state, U!Utenti, U!UtenteState
  <2>2. Acts(p, v, m, s, post)
    BY <1>2, <1>3, <2>1, Still DEF Acts, Comes, U!SetUser
  <2> HIDE DEF v
  <2>3. Spot(v, m, s, post, p \in Connected, p \in eof)
    BY <1>2, <1>3, <2>1 DEF Spot
  <2>4. /\ u.state \notin {"WORKING", "DONE_PENDING"} /\ v.state \notin Winning \cup {"CHOOSING"}
        /\ main[p].at \notin {"mark", "join"} /\ Cast(B, wire')
    BY <1>2, <1>3, <2>1 DEF Winning
  <2>5. QED
    BY <1>1, <2>1, <2>2, <2>3, <2>4, UserPasses
<1>4. CASE U!P2PReady(p)
  BY <1>2, <1>3, <1>4 DEF U!P2PReady, U!links, Spot
<1>5. CASE U!P2PFails(p)
  BY <1>2, <1>3, <1>5 DEF U!P2PFails, U!LeaveP2P, U!links, Spot, Undisturbed
<1>6. CASE U!P2PEnds(p)
  BY <1>2, <1>3, <1>6 DEF U!P2PEnds, U!LeaveP2P, U!links, Spot
<1>7. QED
  BY <1>2, <1>4, <1>5, <1>6, HearingInv DEF UserListens, U!P2PThread, U!Hear

\* The worker ends the work on the card its user is at work on.
LEMMA WorkingInv ==
  ASSUME SystemInv, NEW p \in Ports, UserWorks(p)
  PROVE  SystemInv'
<1>1. PICK V \in [CardIds -> SUBSET Ports], B \in [CardIds -> SUBSET (Ports \X Costs)] : Voting(V, B)
  BY DEF SystemInv
<1> DEFINE u == utente[p]
           m == main[p]
           post == toBoard[p]
<1>2. /\ Table(V, B, p, u) /\ Duty(V, B, db, p, u, m, post) /\ Ordered(post)
      /\ Spot(u, m, p2p[p], post, p \in Connected, p \in eof)
      /\ Cast(B, m.send) /\ Cast(B, wire) /\ u \in U!Utenti /\ Alone
  BY <1>1, Still DEF Voting, Fit, UserWorks
<1>3. ASSUME NEW v, v = u \/ (v = U!update_state(u, "DONE_PENDING") /\ u.state = "WORKING"),
             utente' = [utente EXCEPT ![p] = v],
             UNCHANGED <<main, p2p, stop, toUser, toBoard, eof, wire>>
      PROVE  SystemInv'
  <2>1. /\ v \in U!Utenti /\ v.card_id = u.card_id /\ v.choices = u.choices
        /\ v.worker_started = u.worker_started /\ v.total_users = u.total_users
        /\ v.state = u.state \/ (u.state = "WORKING" /\ v.state = "DONE_PENDING")
    <3>1. CASE v = u
      BY <1>2, <3>1
    <3>2. CASE v = U!update_state(u, "DONE_PENDING") /\ u.state = "WORKING"
      BY <1>2, <3>2 DEF U!update_state, U!Utenti, U!UtenteState
    <3>3. QED
      BY <1>3, <3>1, <3>2
  <2>2. Table(V, B, p, v)
    BY <1>2, <2>1 DEF Table, Winning
  <2>3. \A c \in CardIds : /\ InHand(v, c) => InHand(u, c)
                           /\ Taken(v, m, post, c) <=> Taken(u, m, post, c)
    BY <2>1 DEF InHand, Taken, Winning
  <2>4. Duty(V, B, db, p, v, m, post)
    BY <1>2, <2>3, DutyKept
  <2>5. Spot(v, m, p2p[p], post, p \in Connected, p \in eof)
    BY <1>2, <2>1 DEF Spot, Winning
  <2>6. Acts(p, v, m, p2p[p], post)
    BY <1>2, <1>3, <2>1, Still DEF Acts, Comes
  <2>7. Cast(B, wire')
    BY <1>2, <1>3
  <2>8. QED
    BY <1>1, <1>2, <2>2, <2>4, <2>5, <2>6, <2>7, UserActs
<1>4. CASE U!WorkerBegins(p)
  <2>1. utente' = [utente EXCEPT ![p] = u] /\ UNCHANGED <<main, p2p, stop, toUser, toBoard, eof, wire>>
    BY <1>4, Still DEF U!WorkerBegins, U!links
  <2>2. QED
    BY <1>3, <2>1
<1>5. CASE U!WorkerWakes(p)
  <2> DEFINE v == U!mark_done_pending(u, worker[p].card)
  <2>1. utente' = [utente EXCEPT ![p] = v] /\ UNCHANGED <<main, p2p, stop, toUser, toBoard, eof, wire>>
    BY <1>5 DEF U!WorkerWakes, U!links, U!SetUser
  <2>2. v = u \/ (v = U!update_state(u, "DONE_PENDING") /\ u.state = "WORKING")
    BY DEF U!mark_done_pending
  <2> HIDE DEF v
  <2>3. QED
    BY <1>3, <2>1, <2>2
<1>6. CASE U!LooseWorkerRuns(p)
  <2>1. UNCHANGED <<main, p2p, stop, toUser, toBoard, eof, wire>>
        /\ \/ utente' = utente
           \/ \E w \in loose[p] : U!SetUser(p, U!mark_done_pending(u, w.card))
    BY <1>6 DEF U!LooseWorkerRuns, U!links
  <2>2. CASE utente' = utente
    <3>1. utente' = [utente EXCEPT ![p] = u]
      BY <2>2, Still
    <3>2. QED
      BY <1>3, <2>1, <3>1
  <2>3. ASSUME NEW w \in loose[p], U!SetUser(p, U!mark_done_pending(u, w.card))
        PROVE  SystemInv'
    <3> DEFINE v == U!mark_done_pending(u, w.card)
    <3>1. utente' = [utente EXCEPT ![p] = v]
      BY <2>3 DEF U!SetUser
    <3>2. v = u \/ (v = U!update_state(u, "DONE_PENDING") /\ u.state = "WORKING")
      BY DEF U!mark_done_pending
    <3> HIDE DEF v
    <3>3. QED
      BY <1>3, <2>1, <3>1, <3>2
  <2>4. QED
    BY <2>1, <2>2, <2>3
<1>7. QED
  BY <1>4, <1>5, <1>6 DEF UserWorks

\* A user leaves when the board has closed its connection: it has nothing to do.
LEMMA LeavingInv ==
  ASSUME Undisturbed, SystemInv, NEW p \in Ports, Leaves(p)
  PROVE  SystemInv'
<1>1. PICK V \in [CardIds -> SUBSET Ports], B \in [CardIds -> SUBSET (Ports \X Costs)] : Voting(V, B)
  BY DEF SystemInv
<1> DEFINE u == utente[p]
           m == main[p]
           post == toBoard[p]
           v == U!update_state(U!worker_joined(u), "DISCONNECTING")
           n == U!At("closing")
<1>2. /\ Table(V, B, p, u) /\ Duty(V, B, db, p, u, m, post) /\ Ordered(post)
      /\ Mail(V, B, db, p, toUser[p])
      /\ Spot(u, m, p2p[p], post, p \in Connected, p \in eof)
      /\ Cast(B, wire) /\ Ballots(V, B, db) /\ Calling(V, B, db, stack, toUser) /\ u \in U!Utenti
  BY <1>1, Still DEF Voting, Fit
<1>3. /\ m.at = "leaving" /\ UNCHANGED <<p2p, stop, toUser, toBoard, eof, wire>>
      /\ utente' = [utente EXCEPT ![p] = v] /\ main' = [main EXCEPT ![p] = n]
  BY DEF Leaves, U!Kill, Undisturbed, U!CloseUser, U!SetUser, U!Goto, U!links
<1>4. p \in eof /\ p \notin Connected
  BY <1>2, <1>3 DEF Spot
<1>5. \A fd \in Fds : peer[fd] # p
  BY <1>4, SameNames DEF Connected
<1>6. UNCHANGED vars
  BY <1>5 DEF Leaves
<1>7. UNCHANGED <<db, peer, gone, stack>> /\ Connected' = Connected /\ BoardInv'
  BY <1>6 DEF vars, Connected, SystemInv, BoardInv, IInv, ControlTyped
<1>8. \A c \in CardIds : ~Elected(V, B, p, c)
  BY <1>2, <1>5, ElectedStays DEF SystemInv, BoardInv
<1>9. v \in U!Utenti /\ v.state = "DISCONNECTING" /\ v.card_id = u.card_id
      /\ v.choices = u.choices /\ ~v.worker_started
  BY <1>2 DEF U!update_state, U!worker_joined, U!Utenti, U!UtenteState
<1>10. /\ n \in Mains /\ n.at = "closing" /\ n.send = {}
  BY AtPlace DEF U!Places
<1>11. Comes(p, v, n, p2p[p], toUser[p], post)
  BY <1>3, <1>9, <1>10, Still DEF Comes
<1> HIDE DEF v, n
<1>12. Table(V, B, p, v)
  BY <1>2, <1>9 DEF Table, Winning
<1>13. Duty(V, B, db, p, v, n, post)
  <2>1. \A c \in CardIds : ~Taken(u, m, post, c)
    BY <1>2, <1>8 DEF Duty
  <2>2. \A c \in CardIds : ~Posted(post, "CARD_DONE", c)
    BY <2>1 DEF Taken, Reporting
  <2>3. \A c \in CardIds : ~InHand(v, c) /\ ~Reporting(n, post, c) /\ ~Taken(v, n, post, c)
    BY <1>9, <1>10, <2>2 DEF InHand, Taken, Reporting, Winning
  <2>4. QED
    BY <1>2, <2>1, <2>3, DutyKept
<1>14. Spot(v, n, p2p[p], post, p \in Connected', p \in eof)
  BY <1>2, <1>3, <1>4, <1>7, <1>9, <1>10 DEF Spot
<1>15. /\ Cast(B, n.send) /\ Cast(B, wire') /\ Calling(V, B, db, stack, toUser')
       /\ \A q \in Ports \ {p} : q \in Connected' <=> q \in Connected
  BY <1>2, <1>3, <1>7, <1>10 DEF Cast
<1>16. UNCHANGED <<db, stack>>
  BY <1>7
<1>17. QED
  BY <1>1, <1>2, <1>7, <1>11, <1>12, <1>13, <1>14, <1>15, <1>16, UserMoves


\* While a card is on offer, who has not voted on it has no card and no work.
LEMMA CalledFree ==
  ASSUME SystemInv, NEW V, NEW B, Voting(V, B), NEW p \in Ports, toUser[p] # <<>>
  PROVE  /\ \A c \in CardIds : /\ ~Taken(utente[p], main[p], toBoard[p], c)
                               /\ ~Posted(toBoard[p], "ACK_CARD", c)
                               /\ WorkerOf(db)[c] = NoPort
         /\ \A q : ~Elected(V, B, q, db.offered_card_id)
         /\ main[p].at # "join" => ~utente[p].worker_started
<1> DEFINE c == db.offered_card_id
<1>1. /\ Mail(V, B, db, p, toUser[p]) /\ Duty(V, B, db, p, utente[p], main[p], toBoard[p])
      /\ Spot(utente[p], main[p], p2p[p], toBoard[p], p \in Connected, p \in eof)
      /\ Table(V, B, p, utente[p])
  BY DEF Voting, Fit
<1>2. c \in CardIds /\ p \in V[c] /\ p \notin U!Voters(B[c])
  BY <1>1 DEF Mail
<1>3. \A q : ~Elected(V, B, q, c)
  BY <1>2 DEF Elected
<1>4. \A x \in CardIds : WorkerOf(db)[x] = NoPort
  <2>1. InColumn(db, "DOING") = {}
    BY <1>2, SameNames DEF SystemInv, BoardInv, Staffed, OneCard
  <2>2. QED
    BY <2>1 DEF WorkerOf
<1>5. \A x \in CardIds : ~Taken(utente[p], main[p], toBoard[p], x) /\ ~Posted(toBoard[p], "ACK_CARD", x)
  <2>1. \A x \in CardIds : WorkerOf(db)[x] # p
    BY <1>4, SameNames
  <2>2. QED
    BY <1>1, <1>3, <2>1 DEF Duty
<1>6. ASSUME main[p].at # "join", utente[p].worker_started
      PROVE  FALSE
  <2>1. utente[p].state \in {"WORKING", "DONE_PENDING"}
    BY <1>1, <1>6 DEF Spot
  <2>2. utente[p].card_id \in CardIds
    BY <1>1, <2>1 DEF Table, Winning
  <2>3. QED
    BY <1>5, <2>1, <2>2 DEF Taken
<1>7. QED
  BY <1>3, <1>4, <1>5, <1>6

\* handle_available_card: the cost drawn is a vote, and what is sent is that vote.
LEMMA VotingInv ==
  ASSUME SystemInv, NEW p \in Ports, Alone, U!ReceiveAvailableCard(p)
  PROVE  SystemInv'
<1>1. PICK V \in [CardIds -> SUBSET Ports], B \in [CardIds -> SUBSET (Ports \X Costs)] : Voting(V, B)
  BY DEF SystemInv
<1> DEFINE u == utente[p]
           m == main[p]
           post == toBoard[p]
           c == db.offered_card_id
           S == V[c]
           total == Cardinality(S)
           peers == S \ {p}
<1>2. /\ Table(V, B, p, u) /\ Duty(V, B, db, p, u, m, post) /\ Ordered(post)
      /\ Mail(V, B, db, p, toUser[p])
      /\ Spot(u, m, p2p[p], post, p \in Connected, p \in eof)
      /\ Cast(B, wire) /\ Ballots(V, B, db) /\ Calling(V, B, db, stack, toUser) /\ u \in U!Utenti
  BY <1>1, Still DEF Voting, Fit
<1>3. /\ m.at \in {"listen", "server"} /\ toUser[p] # <<>>
      /\ toUser' = [toUser EXCEPT ![p] = Tail(@)]
      /\ UNCHANGED <<p2p, stop, toBoard, eof, wire>>
  BY DEF U!ReceiveAvailableCard, U!Read, U!InPass
<1>4. c \in CardIds /\ p \in S /\ p \notin U!Voters(B[c]) /\ toUser[p] = <<Call(V, c, p)>>
  BY <1>2, <1>3 DEF Mail
<1>5. /\ total \in 2 .. MAX_USERS /\ S \subseteq Ports /\ peers \in SUBSET Ports /\ total \in Int
  <2>1. total \in 2 .. MAX_USERS /\ S \subseteq Ports
    BY <1>1, <1>2, <1>4 DEF Ballots
  <2>2. QED
    BY <2>1
<1>6. Tail(toUser[p]) = <<>> /\ U!Message(p) = Call(V, c, p)
  <2>1. \A x : Head(<<x>>) = x /\ Tail(<<x>>) = <<>>
    OBVIOUS
  <2>2. QED
    BY <1>4, <2>1 DEF U!Message
<1>7. PICK n \in Costs :
        /\ U!SetUser(p, U!start_election(u, p, c, total, peers, n))
        /\ U!Goto(p, [U!At("broadcast") EXCEPT !.send = U!CostsTo(p, peers, c, n)])
  <2>1. Call(V, c, p).card = c /\ Call(V, c, p).total = total /\ Call(V, c, p).peers = peers
    BY DEF Call
  <2> HIDE DEF total, peers
  <2>2. QED
    BY <1>5, <1>6, <2>1 DEF U!ReceiveAvailableCard
<1> DEFINE C == WithVote(B, c, p, n)
           kept == IF u.card_id = c THEN u.choices ELSE {}
           w == [u EXCEPT !.card_id = c, !.total_users = total, !.peer_ports = peers,
                          !.own_cost = n, !.state = "CHOOSING",
                          !.choices = U!add_choice(kept, p, n)]
           v == U!evaluate_election(w, p)
           at == [U!At("broadcast") EXCEPT !.send = U!CostsTo(p, peers, c, n)]
<1>8. /\ C \in [CardIds -> SUBSET (Ports \X Costs)] /\ Ballots(V, C, db)
      /\ \A x \in CardIds \ {c} : C[x] = B[x]
      /\ C[c] = B[c] \cup {<<p, n>>} /\ U!Voters(C[c]) = U!Voters(B[c]) \cup {p}
      /\ \A q : \A x \in U!Utenti : Table(V, B, q, x) => Table(V, C, q, x)
      /\ \A q, x, k, box : Duty(V, B, db, q, x, k, box) => Duty(V, C, db, q, x, k, box)
      /\ \A msgs : Cast(B, msgs) => Cast(C, msgs)
  <2>1. /\ C = WithVote(B, c, p, n) /\ db.offered_card_id = c /\ c \in CardIds
        /\ p \in V[c] /\ p \notin U!Voters(B[c]) /\ Ballots(V, B, db)
    BY <1>2, <1>4
  <2> HIDE DEF c, C
  <2>2. C[c] = B[c] \cup {<<p, n>>}
    BY <2>1 DEF WithVote
  <2>3. U!Voters(C[c]) = U!Voters(B[c]) \cup {p}
    <3>1. <<p, n>>[1] = p
      OBVIOUS
    <3>2. QED
      BY <2>2, <3>1 DEF U!Voters
  <2>4. /\ C \in [CardIds -> SUBSET (Ports \X Costs)] /\ Ballots(V, C, db)
        /\ \A x \in CardIds \ {c} : C[x] = B[x]
        /\ \A q : \A x \in U!Utenti : Table(V, B, q, x) => Table(V, C, q, x)
        /\ \A q, x, k, box : Duty(V, B, db, q, x, k, box) => Duty(V, C, db, q, x, k, box)
        /\ \A msgs : Cast(B, msgs) => Cast(C, msgs)
    BY <2>1, VoteCast
  <2>5. QED
    BY <2>2, <2>3, <2>4
<1> HIDE DEF C
<1>9. at \in Mains /\ at.at = "broadcast" /\ at.card = NoCard /\ at.send = U!CostsTo(p, peers, c, n)
  <2>1. U!At("broadcast") \in Mains /\ U!At("broadcast").at = "broadcast" /\ U!At("broadcast").card = NoCard
    BY AtPlace DEF U!Places
  <2>2. U!CostsTo(p, peers, c, n) \in SUBSET U!Choose
    BY <1>4, <1>5 DEF U!CostsTo, U!Choose
  <2>3. QED
    BY <2>1, <2>2 DEF Mains
<1>10. Cast(C, at.send)
  <2>1. \A y \in at.send : y.card = c /\ y.from = p /\ y.cost = n
    BY <1>9 DEF U!CostsTo
  <2>2. <<p, n>> \in C[c]
    BY <1>8
  <2> HIDE DEF at, c
  <2>3. QED
    BY <1>4, <2>1, <2>2 DEF Cast
<1>11. /\ w \in U!Utenti /\ w.state = "CHOOSING" /\ w.card_id = c /\ w.total_users = total
       /\ w.worker_started = u.worker_started /\ w.choices = U!add_choice(kept, p, n)
       /\ w.choices \subseteq C[c]
  <2>1. kept \subseteq B[c]
    BY <1>2, <1>4, SameNames DEF Table
  <2>2. U!add_choice(kept, p, n) \subseteq kept \cup {<<p, n>>}
    BY DEF U!add_choice
  <2>3. U!add_choice(kept, p, n) \subseteq C[c] /\ C[c] \subseteq Ports \X Costs
    BY <1>4, <1>8, <2>1, <2>2
  <2> HIDE DEF kept, total, peers, c, u
  <2>4. QED
    BY <1>2, <1>4, <1>5, <2>3 DEF U!Utenti, U!UtenteState
<1>12. Table(V, C, p, w)
  BY <1>4, <1>11, SameNames DEF Table, Winning
<1> HIDE DEF w
<1>13. /\ Table(V, C, p, v)
       /\ \/ v = w
          \/ w.state = "CHOOSING" /\ v = U!Released(w)
          \/ w.state = "CHOOSING" /\ v = U!update_state(w, "ACK_PENDING")
  BY <1>8, <1>11, <1>12, Decides
<1> HIDE DEF v
<1>14. /\ v \in U!Utenti /\ v.worker_started = u.worker_started /\ v.card_id \in {c, NoCard}
       /\ v.state \in {"IDLE", "CHOOSING", "ACK_PENDING"}
       /\ v.state = "IDLE" \/ v.card_id = c
  <2>1. CASE v = w
    BY <1>11, <2>1
  <2>2. CASE v = U!Released(w)
    BY <1>11, <2>2, FreeUser
  <2>3. CASE v = U!update_state(w, "ACK_PENDING")
    BY <1>11, <2>3 DEF U!update_state, U!Utenti, U!UtenteState
  <2>4. QED
    BY <1>13, <2>1, <2>2, <2>3
<1>15. /\ \A x \in CardIds : /\ ~Taken(u, m, post, x) /\ ~Posted(post, "ACK_CARD", x)
                             /\ WorkerOf(db)[x] = NoPort
       /\ ~u.worker_started
  BY <1>1, <1>3, CalledFree
<1>16. Duty(V, C, db, p, v, at, post)
  <2>1. \A x \in CardIds : ~Posted(post, "CARD_DONE", x)
    BY <1>15 DEF Taken, Reporting
  <2>2. \A x \in CardIds : ~Reporting(at, post, x) /\ ~Taken(v, at, post, x)
    BY <1>9, <1>14, <2>1 DEF Taken, Reporting
  <2>3. \A x \in CardIds : InHand(v, x) => x = c
    BY <1>14, SameNames DEF InHand, Winning
  <2>4. \A x \in CardIds : WorkerOf(db)[x] # p
    BY <1>15, SameNames
  <2>5. QED
    BY <1>15, <2>2, <2>3, <2>4 DEF Duty
<1>17. Spot(v, at, p2p[p], post, p \in Connected, p \in eof)
  BY <1>2, <1>3, <1>9, <1>14, <1>15 DEF Spot
<1>18. toUser'[p] = <<>> /\ \A q \in Ports \ {p} : toUser'[q] = toUser[q]
  BY <1>3, <1>6 DEF SystemInv, UsersTyped
<1>19. Calling(V, C, db, stack, toUser')
  <2>1. CASE stack = <<>>
    BY <2>1 DEF Calling
  <2>2. CASE stack # <<>>
    <3>1. /\ c # NoCard /\ V[c] = RegisteredPorts(db)
          /\ \E R \in SUBSET V[c] :
               /\ R # {} /\ stack = <<[op |-> "offer", card |-> c, rest |-> Keyed(R)]>>
               /\ \A x \in R : x \notin U!Voters(B[c]) /\ toUser[x] = <<>>
      BY <1>2, <2>2 DEF Calling
    <3>2. PICK R \in SUBSET V[c] :
               /\ R # {} /\ stack = <<[op |-> "offer", card |-> c, rest |-> Keyed(R)]>>
               /\ \A x \in R : x \notin U!Voters(B[c]) /\ toUser[x] = <<>>
      BY <3>1
    <3>3. \A x \in R : x \notin U!Voters(C[c]) /\ toUser'[x] = <<>>
      <4>1. p \notin R
        BY <1>3, <3>2
      <4>2. QED
        BY <1>5, <1>8, <1>18, <3>2, <4>1
    <3>4. QED
      BY <3>1, <3>2, <3>3 DEF Calling
  <2>3. QED
    BY <2>1, <2>2
<1>20. ASSUME NEW q \in Ports \ {p}, NEW box, Mail(V, B, db, q, box)
       PROVE  Mail(V, C, db, q, box)
  BY <1>8, <1>20 DEF Mail
<1>21. Mail(V, C, db, p, <<>>)
  BY DEF Mail
<1>22. Comes(p, v, at, p2p[p], <<>>, post)
  <2>1. utente' = [utente EXCEPT ![p] = v]
    BY <1>7 DEF U!SetUser, U!start_election, v, w
  <2>2. main' = [main EXCEPT ![p] = at]
    BY <1>7 DEF U!Goto
  <2>3. <<>> \in Seq(U!BoardMessage) /\ toUser' = [toUser EXCEPT ![p] = <<>>]
    <3>1. toUser' = [toUser EXCEPT ![p] = Tail(toUser[p])]
      BY <1>3
    <3>2. toUser' = [toUser EXCEPT ![p] = <<>>]
      BY <1>6, <3>1, Zenon
    <3>3. <<>> \in Seq(U!BoardMessage)
      OBVIOUS
    <3>4. QED
      BY <3>2, <3>3
  <2>4. QED
    BY <1>3, <1>9, <1>14, <2>1, <2>2, <2>3, Still DEF Comes
<1>23. UNCHANGED <<db, stack>> /\ BoardInv' /\ Connected' = Connected /\ Cast(B, wire')
  BY <1>2, <1>3 DEF Alone, Connected, SystemInv, BoardInv, IInv, ControlTyped
<1>24. Cast(C, wire') /\ Spot(v, at, p2p[p], post, p \in Connected', p \in eof)
  BY <1>8, <1>17, <1>23
<1> HIDE DEF at, u, m, post, c, S, total, peers
<1>25. /\ UNCHANGED <<db, stack>> /\ BoardInv' /\ \A q \in Ports \ {p} : q \in Connected' <=> q \in Connected
  BY <1>23
<1>26. \A q \in Ports \ {p} :
         /\ \A x \in U!Utenti : Table(V, B, q, x) => Table(V, C, q, x)
         /\ \A box : Mail(V, B, db, q, box) => Mail(V, C, db, q, box)
         /\ \A x, k, box : Duty(V, B, db, q, x, k, box) => Duty(V, C, db, q, x, k, box)
  BY <1>8, <1>20
<1>27. C \in [CardIds -> SUBSET (Ports \X Costs)] /\ Ballots(V, C, db) /\ Ordered(post)
       /\ \A msgs : Cast(B, msgs) => Cast(C, msgs)
  BY <1>2, <1>8
<1>28. QED
  BY <1>1, <1>10, <1>13, <1>16, <1>19, <1>21, <1>22, <1>24, <1>25, <1>26, <1>27, UserMoves


\* Who takes a card, or reports it, is still connected.
LEMMA ElectedLinked ==
  ASSUME SystemInv, NEW V, NEW B, Voting(V, B), NEW p \in Ports, NEW c \in CardIds, Elected(V, B, p, c)
  PROVE  p \in Connected /\ p \notin eof
<1>1. Ballots(V, B, db) /\ Spot(utente[p], main[p], p2p[p], toBoard[p], p \in Connected, p \in eof)
  BY DEF Voting, Fit
<1>2. PICK fd \in Fds : peer[fd] = p
  BY <1>1, ElectedStays DEF SystemInv, BoardInv
<1>3. p \in Connected
  BY <1>2, SameNames DEF Connected
<1>4. QED
  BY <1>1, <1>3 DEF Spot

\* ACK_CARD: the card is on offer still, for its user has not taken it yet.
LEMMA AckingInv ==
  ASSUME SystemInv, NEW p \in Ports, Alone, U!TakeAck(p)
  PROVE  SystemInv'
<1>1. PICK V \in [CardIds -> SUBSET Ports], B \in [CardIds -> SUBSET (Ports \X Costs)] : Voting(V, B)
  BY DEF SystemInv
<1> DEFINE u == utente[p]
           m == main[p]
           post == toBoard[p]
           c == u.card_id
           x == U!FromUser("ACK_CARD", c)
           after == Append(post, x)
           n == U!At("mark")
<1>2. /\ Table(V, B, p, u) /\ Duty(V, B, db, p, u, m, post) /\ Ordered(post)
      /\ Spot(u, m, p2p[p], post, p \in Connected, p \in eof)
      /\ Cast(B, wire) /\ post \in Seq(U!UserMessage)
  BY <1>1, Still DEF Voting, Fit
<1>3. /\ m.at \in {"listen", "server", "pending"} /\ u.state = "ACK_PENDING"
      /\ U!Send(p, x, n, U!At("quit"))
      /\ UNCHANGED <<utente, p2p, stop, toUser, eof, wire>>
  BY DEF U!TakeAck, U!InPass, U!Pass, U!CanAck
<1>4. c \in CardIds /\ Elected(V, B, p, c) /\ InHand(u, c)
  BY <1>2, <1>3 DEF Table, InHand, Winning
<1>5. ~Reporting(m, post, c) /\ ~Taken(u, m, post, c)
  BY <1>2, <1>3, <1>4 DEF Duty, Taken
<1>6. /\ ~Posted(post, "ACK_CARD", c) /\ ~Posted(post, "CARD_DONE", c)
      /\ db.offered_card_id = c
  BY <1>2, <1>4, <1>5 DEF Duty, Reporting
<1>7. p \notin eof
  BY <1>1, <1>4, ElectedLinked
<1>8. toBoard' = [toBoard EXCEPT ![p] = after] /\ main' = [main EXCEPT ![p] = n]
  BY <1>3, <1>7 DEF U!Send, U!Goto
<1>9. n \in Mains /\ n.at = "mark" /\ n.send = {}
  BY AtPlace DEF U!Places
<1>10. x \in U!UserMessage /\ x.type = "ACK_CARD" /\ x.card = c
  BY <1>4 DEF U!FromUser, U!UserMessage
<1>11. \A y : /\ U!FromUser("CARD_DONE", y) # x
              /\ x = U!FromUser("ACK_CARD", y) <=> y = c
  BY DEF U!FromUser
<1> HIDE DEF x, n
<1>12. /\ \A type, y : Posted(after, type, y) <=> x = U!FromUser(type, y) \/ Posted(post, type, y)
       /\ Ordered(after) /\ after \in Seq(U!UserMessage)
  BY <1>2, <1>4, <1>6, <1>10, PostedAppend, OrderedAppend
<1> HIDE DEF after
<1>13. \A y : /\ Posted(after, "CARD_DONE", y) <=> Posted(post, "CARD_DONE", y)
              /\ Posted(after, "ACK_CARD", y) <=> y = c \/ Posted(post, "ACK_CARD", y)
  BY <1>11, <1>12
<1>14. Duty(V, B, db, p, u, n, after)
  <2>1. \A y : Reporting(n, after, y) <=> Reporting(m, post, y)
    BY <1>3, <1>9, <1>13 DEF Reporting
  <2>2. \A y \in CardIds : Taken(u, n, after, y) <=> y = c \/ Taken(u, m, post, y)
    BY <1>3, <1>9, <2>1 DEF Taken
  <2>3. QED
    BY <1>2, <1>4, <1>5, <1>6, <1>13, <2>1, <2>2 DEF Duty
<1>15. Spot(u, n, p2p[p], after, p \in Connected, p \in eof)
  BY <1>2, <1>3, <1>9 DEF Spot
<1>16. Acts(p, u, n, p2p[p], after)
  BY <1>3, <1>8, <1>9, <1>12, Still DEF Acts, Comes
<1>17. Cast(B, n.send) /\ Cast(B, wire')
  BY <1>2, <1>3, <1>9 DEF Cast
<1>18. QED
  BY <1>1, <1>2, <1>12, <1>14, <1>15, <1>16, <1>17, UserActs

\* The work begins, with no worker left to join.
LEMMA BeginningInv ==
  ASSUME SystemInv, NEW p \in Ports, Alone, U!MarkWorking(p)
  PROVE  SystemInv'
<1>1. PICK V \in [CardIds -> SUBSET Ports], B \in [CardIds -> SUBSET (Ports \X Costs)] : Voting(V, B)
  BY DEF SystemInv
<1> DEFINE u == utente[p]
           m == main[p]
           post == toBoard[p]
           v == U!start_worker(U!mark_working(u))
           n == U!At("pending")
<1>2. /\ Table(V, B, p, u) /\ Duty(V, B, db, p, u, m, post) /\ Ordered(post)
      /\ Spot(u, m, p2p[p], post, p \in Connected, p \in eof)
      /\ Cast(B, wire) /\ u \in U!Utenti
  BY <1>1, Still DEF Voting, Fit
<1>3. m.at = "mark" /\ UNCHANGED <<p2p, stop, toUser, toBoard, eof, wire>>
      /\ U!StartWorker(p, U!mark_working(u), "pending")
  BY DEF U!MarkWorking, U!links
<1>4. u.state = "ACK_PENDING" /\ ~u.worker_started
  BY <1>2, <1>3 DEF Spot
<1>5. U!CanStart(U!mark_working(u))
  BY <1>2, <1>4 DEF U!CanStart, U!mark_working, U!update_state, U!Utenti
<1>6. utente' = [utente EXCEPT ![p] = v] /\ main' = [main EXCEPT ![p] = n]
  BY <1>3, <1>5 DEF U!StartWorker, U!SetUser, U!Goto
<1>7. v \in U!Utenti /\ v.state = "WORKING" /\ v.card_id = u.card_id /\ v.choices = u.choices
  BY <1>2 DEF U!start_worker, U!mark_working, U!update_state, U!Utenti, U!UtenteState
<1>8. n \in Mains /\ n.at = "pending" /\ n.send = {}
  BY AtPlace DEF U!Places
<1> HIDE DEF v, n
<1>9. Table(V, B, p, v)
  BY <1>2, <1>4, <1>7 DEF Table, Winning
<1>10. Duty(V, B, db, p, v, n, post)
  <2>1. \A y : Reporting(n, post, y) <=> Reporting(m, post, y)
    BY <1>3, <1>8 DEF Reporting
  <2>2. \A y : /\ InHand(v, y) <=> InHand(u, y)
               /\ Taken(v, n, post, y) <=> Taken(u, m, post, y)
    BY <1>3, <1>4, <1>7, <1>8, <2>1 DEF InHand, Taken, Winning
  <2>3. QED
    BY <1>2, <2>1, <2>2, DutyKept
<1>11. Spot(v, n, p2p[p], post, p \in Connected, p \in eof)
  BY <1>2, <1>3, <1>7, <1>8 DEF Spot
<1>12. Acts(p, v, n, p2p[p], post)
  BY <1>3, <1>6, <1>7, <1>8, Still DEF Acts, Comes
<1>13. Cast(B, n.send) /\ Cast(B, wire')
  BY <1>2, <1>3, <1>8 DEF Cast
<1>14. QED
  BY <1>1, <1>2, <1>9, <1>10, <1>11, <1>12, <1>13, UserActs

\* The work has ended: the user is free, and has its CARD_DONE to send.
LEMMA ReleasingInv ==
  ASSUME SystemInv, NEW p \in Ports, Alone, U!TakeDone(p)
  PROVE  SystemInv'
<1>1. PICK V \in [CardIds -> SUBSET Ports], B \in [CardIds -> SUBSET (Ports \X Costs)] : Voting(V, B)
  BY DEF SystemInv
<1> DEFINE u == utente[p]
           m == main[p]
           post == toBoard[p]
           c == u.card_id
           v == U!Released(u)
           n == [U!At("join") EXCEPT !.card = c]
<1>2. /\ Table(V, B, p, u) /\ Duty(V, B, db, p, u, m, post) /\ Ordered(post)
      /\ Spot(u, m, p2p[p], post, p \in Connected, p \in eof)
      /\ Cast(B, wire) /\ u \in U!Utenti
  BY <1>1, Still DEF Voting, Fit
<1>3. /\ m.at \in {"listen", "server", "pending"} /\ u.state = "DONE_PENDING"
      /\ utente' = [utente EXCEPT ![p] = v] /\ main' = [main EXCEPT ![p] = n]
      /\ UNCHANGED <<p2p, stop, toUser, toBoard, eof, wire>>
  BY DEF U!TakeDone, U!InPass, U!Pass, U!CanFinish, U!SetUser, U!Goto, U!take_done, U!links
<1>4. c \in CardIds /\ InHand(u, c)
  BY <1>2, <1>3 DEF Table, InHand, Winning
<1>5. v \in U!Utenti /\ v.state = "IDLE" /\ v.card_id = NoCard /\ v.choices = {}
      /\ v.worker_started = u.worker_started
  BY <1>2, FreeUser
<1>6. n \in Mains /\ n.at = "join" /\ n.card = c /\ n.send = {}
  <2>1. U!At("join") \in Mains /\ U!At("join").at = "join" /\ U!At("join").send = {}
    BY AtPlace DEF U!Places
  <2>2. QED
    BY <1>4, <2>1 DEF Mains
<1> HIDE DEF v, n
<1>7. ~Posted(post, "CARD_DONE", c)
  BY <1>2, <1>4 DEF Duty, Reporting
<1>8. Table(V, B, p, v)
  BY <1>5 DEF Table, Winning
<1>9. Duty(V, B, db, p, v, n, post)
  <2>1. \A y : Reporting(n, post, y) <=> y = c \/ Reporting(m, post, y)
    BY <1>3, <1>6 DEF Reporting
  <2>2. \A y \in CardIds : ~InHand(v, y) /\ (Taken(v, n, post, y) <=> Taken(u, m, post, y))
    BY <1>3, <1>5, <1>6, <2>1, SameNames DEF InHand, Taken, Winning
  <2>3. QED
    BY <1>2, <2>2 DEF Duty
<1>10. Spot(v, n, p2p[p], post, p \in Connected, p \in eof)
  BY <1>2, <1>3, <1>4, <1>5, <1>6, <1>7 DEF Spot, Winning
<1>11. Acts(p, v, n, p2p[p], post)
  BY <1>3, <1>5, <1>6, Still DEF Acts, Comes
<1>12. Cast(B, n.send) /\ Cast(B, wire')
  BY <1>2, <1>3, <1>6 DEF Cast
<1>13. QED
  BY <1>1, <1>2, <1>8, <1>9, <1>10, <1>11, <1>12, UserActs

\* CARD_DONE, after the worker is joined.
LEMMA ReportingInv ==
  ASSUME SystemInv, NEW p \in Ports, Alone, U!JoinWorker(p)
  PROVE  SystemInv'
<1>1. PICK V \in [CardIds -> SUBSET Ports], B \in [CardIds -> SUBSET (Ports \X Costs)] : Voting(V, B)
  BY DEF SystemInv
<1> DEFINE u == utente[p]
           m == main[p]
           post == toBoard[p]
           c == m.card
           v == U!worker_joined(u)
           x == U!FromUser("CARD_DONE", c)
           after == Append(post, x)
           n == U!At("listen")
<1>2. /\ Table(V, B, p, u) /\ Duty(V, B, db, p, u, m, post) /\ Ordered(post)
      /\ Spot(u, m, p2p[p], post, p \in Connected, p \in eof)
      /\ Cast(B, wire) /\ post \in Seq(U!UserMessage) /\ u \in U!Utenti
  BY <1>1, Still DEF Voting, Fit
<1>3. /\ m.at = "join" /\ utente' = [utente EXCEPT ![p] = v]
      /\ U!Send(p, x, n, U!At("quit"))
      /\ UNCHANGED <<p2p, stop, toUser, eof, wire>>
  BY DEF U!JoinWorker, U!SetUser
<1>4. /\ c \in CardIds /\ ~Posted(post, "CARD_DONE", c) /\ u.state \notin Winning \cup {"CHOOSING"}
  BY <1>2, <1>3 DEF Spot
<1>5. Elected(V, B, p, c)
  BY <1>2, <1>3, <1>4 DEF Duty, Taken, Reporting
<1>6. p \notin eof
  BY <1>1, <1>4, <1>5, ElectedLinked
<1>7. toBoard' = [toBoard EXCEPT ![p] = after] /\ main' = [main EXCEPT ![p] = n]
  BY <1>3, <1>6 DEF U!Send, U!Goto
<1>8. n \in Mains /\ n.at = "listen" /\ n.send = {}
  BY AtPlace DEF U!Places
<1>9. x \in U!UserMessage /\ x.type = "CARD_DONE" /\ x.card = c
  BY <1>4 DEF U!FromUser, U!UserMessage
<1>10. \A y : /\ U!FromUser("ACK_CARD", y) # x
              /\ x = U!FromUser("CARD_DONE", y) <=> y = c
  BY DEF U!FromUser
<1>11. /\ v \in U!Utenti /\ v.state = u.state /\ v.card_id = u.card_id /\ v.choices = u.choices
       /\ v.total_users = u.total_users /\ ~v.worker_started
  BY <1>2 DEF U!worker_joined, U!Utenti
<1> HIDE DEF v, x, n
<1>12. /\ \A type, y : Posted(after, type, y) <=> x = U!FromUser(type, y) \/ Posted(post, type, y)
       /\ Ordered(after) /\ after \in Seq(U!UserMessage)
  BY <1>2, <1>4, <1>9, PostedAppend, OrderedAppend
<1> HIDE DEF after
<1>13. \A y : /\ Posted(after, "CARD_DONE", y) <=> y = c \/ Posted(post, "CARD_DONE", y)
              /\ Posted(after, "ACK_CARD", y) <=> Posted(post, "ACK_CARD", y)
  BY <1>10, <1>12
<1>14. Duty(V, B, db, p, v, n, after)
  <2>1. \A y : Reporting(n, after, y) <=> Reporting(m, post, y)
    BY <1>3, <1>8, <1>13 DEF Reporting
  <2>2. \A y \in CardIds : /\ InHand(v, y) <=> InHand(u, y)
                           /\ Taken(v, n, after, y) <=> Taken(u, m, post, y)
    BY <1>3, <1>8, <1>11, <2>1 DEF InHand, Taken
  <2>3. QED
    BY <1>2, <1>13, <2>1, <2>2, DutyKept
<1>15. Spot(v, n, p2p[p], after, p \in Connected, p \in eof)
  BY <1>2, <1>3, <1>8, <1>11 DEF Spot
<1>16. Acts(p, v, n, p2p[p], after)
  BY <1>3, <1>7, <1>8, <1>11, <1>12, Still DEF Acts, Comes
<1>17. Cast(B, n.send) /\ Cast(B, wire') /\ Table(V, B, p, v)
  BY <1>2, <1>3, <1>8, <1>11 DEF Cast, Table
<1>18. QED
  BY <1>1, <1>2, <1>12, <1>14, <1>15, <1>16, <1>17, UserActs

\* All that the main thread does between two messages, and to end.
LEMMA RunningInv ==
  ASSUME SystemInv, NEW p \in Ports, UserRuns(p)
  PROVE  SystemInv'
<1>1. PICK V \in [CardIds -> SUBSET Ports], B \in [CardIds -> SUBSET (Ports \X Costs)] : Voting(V, B)
  BY DEF SystemInv
<1> DEFINE u == utente[p]
           m == main[p]
           post == toBoard[p]
<1>2. /\ Mail(V, B, db, p, toUser[p]) /\ Cast(B, m.send) /\ Cast(B, wire)
      /\ Spot(u, m, p2p[p], post, p \in Connected, p \in eof)
      /\ toBoard = [toBoard EXCEPT ![p] = post] /\ Alone /\ stop = {}
  BY <1>1, Still DEF Voting, Fit, UserRuns
<1>3. ASSUME NEW at \in {"listen", "pending", "quit", "leaving", "ended"},
             main' = [main EXCEPT ![p] = U!At(at)],
             UNCHANGED <<utente, p2p, stop, toUser, toBoard, eof>>, Cast(B, wire'),
             m.at \in {"listen", "server", "broadcast", "pending", "quit", "closing"},
             at \in {"quit", "leaving"} => p \in eof, m.at = "closing" => at = "ended"
      PROVE  SystemInv'
  <2>1. at \in U!Places \ {"mark", "join"} /\ U!At(at).at = at
    BY AtPlace DEF U!Places
  <2>2. Spot(u, U!At(at), p2p[p], post, p \in Connected, p \in eof)
    BY <1>2, <1>3, <2>1 DEF Spot
  <2>3. U!Goto(p, U!At(at)) /\ toBoard' = [toBoard EXCEPT ![p] = post] /\ main[p].at \notin {"mark", "join"}
        /\ UNCHANGED <<utente, p2p, stop, toUser, eof>>
    BY <1>2, <1>3 DEF U!Goto
  <2>4. QED
    BY <1>1, <1>2, <1>3, <2>1, <2>2, <2>3, UserWalks
<1>4. toUser[p] # <<>> => U!Message(p).type = "AVAILABLE_CARD"
  <2>1. \A y : Head(<<y>>) = y
    OBVIOUS
  <2>2. QED
    BY <1>2, <2>1 DEF Mail, Call, U!Message
<1>5. CASE U!Receive(p)
  <2>1. U!ReceiveAvailableCard(p) \/ U!ReceiveEnd(p)
    BY <1>4, <1>5 DEF U!Receive, U!ReceivePing, U!ReceiveUserList, U!ReceiveQuit, U!Read
  <2>2. CASE U!ReceiveEnd(p)
    BY <1>2, <1>3, <2>2 DEF U!ReceiveEnd, U!InPass, U!Goto, U!links
  <2>3. QED
    BY <1>2, <2>1, <2>2, VotingInv
<1>6. CASE U!Pending(p)
  <2>1. ~U!StartAfterAck(p)
    BY <1>2 DEF U!StartAfterAck, Spot
  <2>2. CASE U!Broadcast(p)
    <3>1. Cast(B, wire')
      BY <1>2, <2>2 DEF U!Broadcast, U!Reachable, Cast
    <3>2. QED
      BY <1>3, <2>2, <3>1 DEF U!Broadcast, U!Goto
  <2>3. CASE U!EndPass(p)
    BY <1>2, <1>3, <2>3 DEF U!EndPass, U!Goto, U!links
  <2>4. QED
    BY <1>2, <1>6, <2>1, <2>2, <2>3, AckingInv, BeginningInv, ReleasingInv, ReportingInv DEF U!Pending
<1>7. ~U!SeeStop(p)
  BY <1>2 DEF U!SeeStop, Spot
<1>8. CASE U!SendQuit(p)
  <2>1. m.at = "quit" /\ p \in eof
    BY <1>2, <1>8 DEF U!SendQuit, Spot
  <2>2. QED
    BY <1>2, <1>3, <1>8, <2>1 DEF U!SendQuit, U!Send, U!Goto
<1>9. CASE U!Exit(p)
  <2>1. Cast(B, wire')
    BY <1>2, <1>9 DEF U!Exit, Cast
  <2>2. QED
    BY <1>3, <1>9, <2>1 DEF U!Exit, U!Goto
<1>10. QED
  BY <1>5, <1>6, <1>7, <1>8, <1>9 DEF UserRuns


-----------------------------------------------------------------------------
(* The whole system.                                                       *)

\* At the start nobody is called, and nobody has voted.
LEMMA SystemStarts == ASSUME SystemInit PROVE SystemInv
<1>1. Init /\ U!Init
  BY DEF SystemInit
<1>2. IInv
  BY <1>1, InitInv
<1>3. db = DatabaseInit /\ db.offered_card_id = NoCard
  BY <1>1, InitConsistent DEF Init
<1>4. UsedSlots(db) = {} /\ InColumn(db, "DOING") = {}
  BY <1>3 DEF DatabaseInit, UsedSlots, FreeSlot, InColumn, UsedCards, FreeCard
<1>5. BoardInv
  BY <1>1, <1>2, <1>3, <1>4
     DEF BoardInv, Staffed, OneCard, Employed, FreeIdle, Wired, Init
<1>6. U!utente_init \in U!Utenti /\ U!utente_init.card_id = NoCard /\ U!utente_init.choices = {}
      /\ U!utente_init.state = "STARTING_P2P" /\ ~U!utente_init.worker_started
  BY SameNames DEF U!utente_init, U!Utenti, U!UtenteState
<1>7. U!At("off") \in Mains /\ U!At("off").at = "off" /\ U!At("off").send = {}
  BY AtPlace DEF U!Places
<1>8. UsersTyped
  <2>1. <<>> \in Seq(U!BoardMessage) /\ <<>> \in Seq(U!UserMessage)
    OBVIOUS
  <2>2. QED
    BY <1>1, <1>6, <1>7, <2>1 DEF U!Init, UsersTyped
<1> DEFINE V == [c \in CardIds |-> {}]
           B == [c \in CardIds |-> {}]
<1>9. /\ V \in [CardIds -> SUBSET Ports] /\ B \in [CardIds -> SUBSET (Ports \X Costs)]
      /\ \A c \in CardIds : V[c] = {} /\ B[c] = {}
  OBVIOUS
<1> HIDE DEF V, B
<1>10. Ballots(V, B, db) /\ Calling(V, B, db, stack, toUser) /\ Cast(B, wire)
  BY <1>1, <1>9 DEF Ballots, Calling, Cast, Init, U!Init
<1>11. ASSUME NEW p \in Ports PROVE Fit(V, B, p)
  <2> DEFINE u == U!utente_init
             m == U!At("off")
  <2>1. utente[p] = u /\ main[p] = m /\ p2p[p] = "none" /\ toUser[p] = <<>> /\ toBoard[p] = <<>>
        /\ p \notin eof
    BY <1>1 DEF U!Init
  <2>2. p \notin Connected
    BY <1>1, SameNames DEF Init, Connected
  <2>3. \A type, c : ~Posted(<<>>, type, c)
    BY DEF Posted
  <2> HIDE DEF u, m
  <2>4. Table(V, B, p, u)
    BY <1>6 DEF Table, Winning, u
  <2>5. Mail(V, B, db, p, <<>>) /\ Ordered(<<>>) /\ Cast(B, m.send)
    BY <1>7 DEF Mail, Ordered, Cast, m
  <2>6. Duty(V, B, db, p, u, m, <<>>)
    <3>1. \A c \in CardIds : ~InHand(u, c) /\ ~Taken(u, m, <<>>, c) /\ ~Reporting(m, <<>>, c)
      BY <1>6, <1>7, <2>3 DEF InHand, Taken, Reporting, Winning, u, m
    <3>2. \A c \in CardIds : WorkerOf(db)[c] # p
      BY <1>4, SameNames DEF WorkerOf
    <3>3. QED
      BY <2>3, <3>1, <3>2 DEF Duty
  <2>7. Spot(u, m, "none", <<>>, p \in Connected, p \in eof)
    BY <1>6, <1>7, <2>1, <2>2 DEF Spot, u, m
  <2>8. QED
    BY <2>1, <2>4, <2>5, <2>6, <2>7 DEF Fit
<1>12. QED
  BY <1>5, <1>8, <1>9, <1>10, <1>11 DEF SystemInv, Voting

\* Every step of the board and of a user keeps it, and so does a stutter.
LEMMA SystemSteps == ASSUME Undisturbed, SystemInv, [SystemNext]_allVars PROVE SystemInv'
<1>1. CASE BoardStep
  BY <1>1, BoardStepInv
<1>2. ASSUME NEW p \in Ports, UserStep(p) PROVE SystemInv'
  <2>1. ~U!Signal(p)
    BY DEF U!Signal, Undisturbed
  <2>2. QED
    BY <1>2, <2>1, ConnectingInv, StartingInv, RunningInv, TypingInv, ListeningInv, WorkingInv,
       LeavingInv DEF UserStep
<1>3. CASE UNCHANGED allVars
  <2>1. /\ UNCHANGED <<db, peer, gone, stack, out>>
        /\ UNCHANGED <<utente, main, p2p, stop, toUser, toBoard, eof, wire>>
    BY <1>3 DEF allVars, vars, userVars, channels
  <2>2. BoardInv'
    BY <2>1 DEF SystemInv, BoardInv, IInv, ControlTyped
  <2>3. UsersTyped'
    BY <2>1 DEF SystemInv, UsersTyped
  <2>4. Connected' = Connected
    BY <2>1 DEF Connected
  <2>5. ASSUME NEW V, NEW B, Voting(V, B) PROVE Voting(V, B)'
    BY <2>1, <2>4, <2>5 DEF Voting, Fit
  <2>6. QED
    BY <2>2, <2>3, <2>5 DEF SystemInv
<1>4. QED
  BY <1>1, <1>2, <1>3 DEF SystemNext

\* In every state there are votes that agree with what the board, the channels and each
\* user hold: the inductive invariant of the system of lavagna.c and utente.c that nothing
\* disturbs, from which the four theorems below follow.
THEOREM SystemSafe == Undisturbed => (SystemSpec => []SystemInv)
<1> SUFFICES ASSUME Undisturbed PROVE SystemSpec => []SystemInv
  OBVIOUS
<1>1. SystemInit => SystemInv
  BY SystemStarts
<1>2. SystemInv /\ [SystemNext]_allVars => SystemInv'
  BY SystemSteps
<1>3. QED
  BY <1>1, <1>2, PTL DEF SystemSpec

\* Who takes itself for the winner of a card has been elected for it, and the card is
\* on offer or given to it.
LEMMA HolderElected ==
  ASSUME SystemInv, NEW V, NEW B, Voting(V, B), NEW p \in Ports, NEW c, Holds(p, c)
  PROVE  /\ c \in CardIds /\ Elected(V, B, p, c)
         /\ db.offered_card_id = c \/ WorksOn(p, c)
<1>1. utente[p].card_id = c /\ utente[p].state \in Winning
  BY DEF Holds, Winning
<1>2. Table(V, B, p, utente[p]) /\ Duty(V, B, db, p, utente[p], main[p], toBoard[p])
  BY DEF Voting, Fit
<1>3. c \in CardIds /\ Elected(V, B, p, c) /\ InHand(utente[p], c)
  BY <1>1, <1>2 DEF Table, InHand
<1>4. db.offered_card_id = c \/ WorkerOf(db)[c] = p
  BY <1>2, <1>3 DEF Duty
<1>5. QED
  BY <1>3, <1>4, SameNames DEF WorkerOf, WorksOn

\* At most one card is on offer or worked on, and one user is elected for it.
LEMMA HolderAlone ==
  ASSUME SystemInv, NEW p \in Ports, NEW q \in Ports, NEW c, NEW e, Holds(p, c), Holds(q, e)
  PROVE  p = q /\ c = e
<1>1. PICK V \in [CardIds -> SUBSET Ports], B \in [CardIds -> SUBSET (Ports \X Costs)] : Voting(V, B)
  BY DEF SystemInv
<1>2. /\ c \in CardIds /\ Elected(V, B, p, c) /\ (db.offered_card_id = c \/ WorksOn(p, c))
      /\ e \in CardIds /\ Elected(V, B, q, e) /\ (db.offered_card_id = e \/ WorksOn(q, e))
  BY <1>1, HolderElected
<1>3. c = e
  <2>1. OneCard(db)
    BY DEF SystemInv, BoardInv, Staffed
  <2>2. QED
    BY <1>2, <2>1, SameNames DEF OneCard, WorksOn
<1>4. QED
  BY <1>2, <1>3, OneElected

\* At most one user takes itself for the winner of a vote, or works (doc.md:26): what
\* one counts late or in another order does not make another winner.
THEOREM WinnerAlone == Undisturbed => (SystemSpec => []OneWinner)
<1>1. SystemInv => OneWinner
  <2> SUFFICES ASSUME SystemInv PROVE OneWinner
    OBVIOUS
  <2> DEFINE S == {p \in Ports : \E c \in CardIds : Holds(p, c)}
  <2>1. \A p, q \in S : p = q
    BY HolderAlone
  <2> HIDE DEF S
  <2>2. Cardinality(S) <= 1
    <3>1. CASE S = {}
      BY <3>1, FS_EmptySet
    <3>2. CASE S # {}
      <4>1. PICK p \in S : TRUE
        BY <3>2
      <4>2. S = {p}
        BY <2>1, <4>1
      <4>3. Cardinality({p}) = 1
        BY FS_Singleton
      <4>4. QED
        BY <4>2, <4>3
    <3>3. QED
      BY <3>1, <3>2
  <2>3. QED
    BY <2>2 DEF S, OneWinner
<1>2. QED
  BY <1>1, SystemSafe, PTL

\* A user works on the card that the board has given it, or will when it reads its
\* ACK_CARD (utente_state.h:13).
THEOREM WorkGiven == Undisturbed => (SystemSpec => []WorkIsGiven)
<1>1. SystemInv => WorkIsGiven
  <2> SUFFICES ASSUME SystemInv, NEW p \in Ports, utente[p].state = "WORKING"
               PROVE  \/ WorksOn(p, utente[p].card_id)
                      \/ \E i \in DOMAIN toBoard[p] :
                           toBoard[p][i] = U!FromUser("ACK_CARD", utente[p].card_id)
    BY DEF WorkIsGiven
  <2> DEFINE c == utente[p].card_id
  <2>1. PICK V \in [CardIds -> SUBSET Ports], B \in [CardIds -> SUBSET (Ports \X Costs)] : Voting(V, B)
    BY DEF SystemInv
  <2>2. Duty(V, B, db, p, utente[p], main[p], toBoard[p])
    BY <2>1 DEF Voting, Fit
  <2>3. c \in CardIds
    BY <2>1, HolderElected DEF Holds
  <2>4. Posted(toBoard[p], "ACK_CARD", c) \/ WorkerOf(db)[c] = p
    BY <2>2, <2>3 DEF Duty, Taken
  <2>5. QED
    BY <2>3, <2>4, SameNames DEF Posted, WorkerOf, WorksOn
<1>2. QED
  BY <1>1, SystemSafe, PTL

\* A card in DOING is one that its user works on, or has done and is about to report
\* (doc.md:26): nothing else would ever move it.
THEOREM DoingReal == Undisturbed => (SystemSpec => []DoingIsReal)
<1>1. SystemInv => DoingIsReal
  <2> SUFFICES ASSUME SystemInv, NEW c \in InColumn(db, "DOING"),
                      NEW p, p = db.cards[c].assigned_user_port
               PROVE  Holds(p, c) \/ (main[p].at = "join" /\ main[p].card = c) \/ OnItsWay(p, c)
    BY DEF DoingIsReal
  <2>1. PICK V \in [CardIds -> SUBSET Ports], B \in [CardIds -> SUBSET (Ports \X Costs)] : Voting(V, B)
    BY DEF SystemInv
  <2>2. c \in CardIds /\ p \in Ports /\ WorkerOf(db)[c] = p
    <3>1. c \in CardIds
      BY DEF InColumn, UsedCards
    <3>2. Employed(db)
      BY DEF SystemInv, BoardInv, Staffed
    <3>3. QED
      BY <3>1, <3>2 DEF Employed, WorkerOf
  <2>3. /\ Duty(V, B, db, p, utente[p], main[p], toBoard[p])
        /\ Spot(utente[p], main[p], p2p[p], toBoard[p], p \in Connected, p \in eof)
    BY <2>1, <2>2 DEF Voting, Fit
  <2>4. Taken(utente[p], main[p], toBoard[p], c)
    BY <2>2, <2>3 DEF Duty
  <2>5. QED
    BY <2>3, <2>4 DEF Taken, Reporting, Posted, OnItsWay, Holds, Spot
<1>2. QED
  BY <1>1, SystemSafe, PTL

-----------------------------------------------------------------------------
(* The cards shared out.                                                   *)

\* Who is at work on what.
Doers == {d \in Ports \X CardIds : utente[d[1]].state = "WORKING" /\ utente[d[1]].card_id = d[2]}

Hands(D) == [c \in CardIds |-> IF \E p \in Ports : <<p, c>> \in D
                                THEN CHOOSE p \in Ports : <<p, c>> \in D ELSE NoPort]

OneDoer == AtWorkOn = Hands(Doers) /\ \A d, e \in Doers : d = e

\* A user at work is elected, so that its connection is open; and it is the only one.
LEMMA DoersKnown == SystemInv => OneDoer
<1> SUFFICES ASSUME SystemInv PROVE OneDoer
  OBVIOUS
<1>1. PICK V \in [CardIds -> SUBSET Ports], B \in [CardIds -> SUBSET (Ports \X Costs)] : Voting(V, B)
  BY DEF SystemInv
<1>2. ASSUME NEW p \in Ports, NEW c \in CardIds
      PROVE  AtWork(p, c) <=> <<p, c>> \in Doers
  <2>1. <<p, c>> \in Doers <=> utente[p].state = "WORKING" /\ utente[p].card_id = c
    BY DEF Doers
  <2>2. Holds(p, c) => p \notin eof
    BY <1>1, HolderElected, ElectedLinked
  <2>3. main[p].at # "start"
    BY <1>1 DEF Voting, Fit, Spot
  <2>4. QED
    BY <2>1, <2>2, <2>3 DEF AtWork, Holds
<1>3. \A c \in CardIds :
        /\ (\E p \in Ports : AtWork(p, c)) <=> (\E p \in Ports : <<p, c>> \in Doers)
        /\ (CHOOSE p \in Ports : AtWork(p, c)) = (CHOOSE p \in Ports : <<p, c>> \in Doers)
  BY <1>2
<1>4. AtWorkOn = Hands(Doers)
  BY <1>3, Zenon DEF AtWorkOn, Hands
<1>5. ASSUME NEW d \in Doers, NEW e \in Doers PROVE d = e
  <2>1. /\ d = <<d[1], d[2]>> /\ d[1] \in Ports /\ Holds(d[1], d[2])
        /\ e = <<e[1], e[2]>> /\ e[1] \in Ports /\ Holds(e[1], e[2])
    BY DEF Doers, Holds
  <2>2. d[1] = e[1] /\ d[2] = e[2]
    BY <2>1, HolderAlone
  <2>3. QED
    BY <2>1, <2>2
<1>6. QED
  BY <1>4, <1>5 DEF OneDoer

\* What a step of SharedWork is, in these terms.
Quiet == Doers' = Doers /\ Finished' = Finished

Starts(p, c) == Doers = {} /\ Doers' = {<<p, c>>} /\ Finished' = Finished /\ c \notin Finished

Stops(p, c) == Doers = {<<p, c>>} /\ Doers' = {} /\ Finished' = Finished \cup {c}

Shares == Quiet \/ \E p \in Ports, c \in CardIds : Starts(p, c) \/ Stops(p, c)

\* A step that starts or stops one work, or none, is one of SharedWork or a stutter.
LEMMA SharesWell ==
  ASSUME SystemInv, SystemInv', Shares
  PROVE  [Work!Next]_(Work!vars)
<1>1. AtWorkOn = Hands(Doers)
  BY DoersKnown DEF OneDoer
<1>2. AtWorkOn' = Hands(Doers')
  <2>1. SystemInv' => OneDoer'
    BY DoersKnown, PTL
  <2>2. QED
    BY <2>1 DEF OneDoer, Hands
<1>3. \A c \in CardIds : Hands({})[c] = NoPort
  BY DEF Hands
<1>4. \A p \in Ports, c \in CardIds : /\ Hands({<<p, c>>}) = [Hands({}) EXCEPT ![c] = p]
                                      /\ Hands({<<p, c>>})[c] = p
                                      /\ Hands({}) = [Hands({<<p, c>>}) EXCEPT ![c] = NoPort]
  <2> TAKE p \in Ports, c \in CardIds
  <2> DEFINE S == {<<p, c>>}
  <2>1. \A q \in Ports : <<q, c>> \in S <=> q = p
    OBVIOUS
  <2>2. \A x \in CardIds \ {c} : \A q \in Ports : <<q, x>> \notin S
    OBVIOUS
  <2>3. (CHOOSE q \in Ports : <<q, c>> \in S) = p /\ \E q \in Ports : <<q, c>> \in S
    BY <2>1
  <2>4. Hands(S)[c] = p /\ \A x \in CardIds \ {c} : Hands(S)[x] = NoPort
    BY <2>2, <2>3 DEF Hands
  <2>5. DOMAIN Hands(S) = CardIds /\ DOMAIN Hands({}) = CardIds
    BY DEF Hands
  <2> QED
    BY <1>3, <2>4, <2>5 DEF Hands
<1>5. Quiet => UNCHANGED Work!vars
  BY <1>1, <1>2 DEF Quiet, Work!vars
<1>6. ASSUME NEW p \in Ports, NEW c \in CardIds, Starts(p, c)
      PROVE  Work!Begin(p, c)
  <2>1. \A d \in CardIds : AtWorkOn[d] = NoPort
    BY <1>1, <1>3, <1>6 DEF Starts
  <2>2. AtWorkOn' = [AtWorkOn EXCEPT ![c] = p]
    BY <1>1, <1>2, <1>4, <1>6 DEF Starts
  <2>3. QED
    BY <1>6, <2>1, <2>2, Zenon DEF Starts, Work!Begin
<1>7. ASSUME NEW p \in Ports, NEW c \in CardIds, Stops(p, c)
      PROVE  Work!Finish(c)
  <2>1. AtWorkOn[c] # NoPort
    BY <1>1, <1>4, <1>7, SameNames DEF Stops
  <2>2. AtWorkOn' = [AtWorkOn EXCEPT ![c] = NoPort]
    BY <1>1, <1>2, <1>4, <1>7 DEF Stops
  <2>3. QED
    BY <1>7, <2>1, <2>2, Zenon DEF Stops, Work!Finish
<1>8. QED
  BY <1>5, <1>6, <1>7 DEF Shares, Work!Next

\* The part of a user in Doers and Finished.
Doing(u, c) == u.state = "WORKING" /\ u.card_id = c

Ending(u, m, post, c) == (u.state = "DONE_PENDING" /\ u.card_id = c) \/ Reporting(m, post, c)

Becomes(p, v, n, post) == /\ utente' = [utente EXCEPT ![p] = v]
                          /\ main' = [main EXCEPT ![p] = n]
                          /\ toBoard' = [toBoard EXCEPT ![p] = post]
                          /\ db' = db

\* A step of one user changes its own part only.
LEMMA UserPart ==
  ASSUME SystemInv, NEW p \in Ports, NEW v, NEW n, NEW post, Becomes(p, v, n, post)
  PROVE  /\ \A q \in Ports, c \in CardIds :
              /\ <<q, c>> \in Doers <=> Doing(utente[q], c)
              /\ <<q, c>> \in Doers' <=> IF q = p THEN Doing(v, c) ELSE Doing(utente[q], c)
         /\ Doers \subseteq Ports \X CardIds /\ Doers' \subseteq Ports \X CardIds
         /\ \A q \in Ports, c \in CardIds :
              /\ Ended(q, c) <=> Ending(utente[q], main[q], toBoard[q], c)
              /\ Ended(q, c)' <=> IF q = p THEN Ending(v, n, post, c)
                                  ELSE Ending(utente[q], main[q], toBoard[q], c)
<1>1. /\ utente \in [Ports -> U!Utenti] /\ main \in [Ports -> Mains]
      /\ toBoard \in [Ports -> Seq(U!UserMessage)]
  BY DEF SystemInv, UsersTyped
<1>2. \A q \in Ports : /\ utente'[q] = IF q = p THEN v ELSE utente[q]
                       /\ main'[q] = IF q = p THEN n ELSE main[q]
                       /\ toBoard'[q] = IF q = p THEN post ELSE toBoard[q]
  BY <1>1 DEF Becomes
<1>3. \A q, c : <<q, c>>[1] = q /\ <<q, c>>[2] = c
  OBVIOUS
<1>4. \A q \in Ports, c \in CardIds :
        /\ <<q, c>> \in Doers <=> Doing(utente[q], c)
        /\ <<q, c>> \in Doers' <=> Doing(utente'[q], c)
  BY <1>3 DEF Doers, Doing
<1>5. \A q \in Ports, c \in CardIds :
        /\ Ended(q, c) <=> Ending(utente[q], main[q], toBoard[q], c)
        /\ Ended(q, c)' <=> Ending(utente'[q], main'[q], toBoard'[q], c)
  BY DEF Ended, Ending, OnItsWay, Reporting, Posted
<1>6. Doers \subseteq Ports \X CardIds /\ Doers' \subseteq Ports \X CardIds
  BY DEF Doers
<1>7. QED
  BY <1>2, <1>4, <1>5, <1>6

\* A step that is about neither.
LEMMA UserKeeps ==
  ASSUME SystemInv, NEW p \in Ports, NEW v, NEW n, NEW post, Becomes(p, v, n, post),
         \A c \in CardIds :
           /\ Doing(v, c) <=> Doing(utente[p], c)
           /\ Ending(v, n, post, c) <=> Ending(utente[p], main[p], toBoard[p], c)
  PROVE  Quiet
<1>1. /\ \A q \in Ports, c \in CardIds : /\ <<q, c>> \in Doers' <=> <<q, c>> \in Doers
                                         /\ Ended(q, c)' <=> Ended(q, c)
      /\ Doers \subseteq Ports \X CardIds /\ Doers' \subseteq Ports \X CardIds
  BY UserPart
<1>2. Doers' = Doers
  <2>1. ASSUME NEW d \in Ports \X CardIds PROVE d \in Doers' <=> d \in Doers
    <3>1. d = <<d[1], d[2]>> /\ d[1] \in Ports /\ d[2] \in CardIds
      OBVIOUS
    <3>2. <<d[1], d[2]>> \in Doers' <=> <<d[1], d[2]>> \in Doers
      BY <1>1, <3>1
    <3>3. QED
      BY <3>1, <3>2, Zenon
  <2>2. QED
    BY <1>1, <2>1
<1>3. InColumn(db, "DONE")' = InColumn(db, "DONE")
  BY DEF Becomes
<1>4. Finished' = Finished
  BY <1>1, <1>3 DEF Finished
<1>5. QED
  BY <1>2, <1>4 DEF Quiet

\* A user that has no work and takes none, whatever it sends but CARD_DONE.
LEMMA UserAside ==
  ASSUME SystemInv, NEW p \in Ports, NEW v, NEW n, NEW post, Becomes(p, v, n, post),
         \/ v.state = utente[p].state /\ v.card_id = utente[p].card_id
         \/ {v.state, utente[p].state} \cap {"WORKING", "DONE_PENDING"} = {},
         n = main[p] \/ "join" \notin {n.at, main[p].at},
         \/ post = toBoard[p]
         \/ \E x \in U!UserMessage : x.type # "CARD_DONE" /\ post = Append(toBoard[p], x)
  PROVE  Quiet
<1>1. \A c \in CardIds : Doing(v, c) <=> Doing(utente[p], c)
  BY DEF Doing
<1>2. \A c : Posted(post, "CARD_DONE", c) <=> Posted(toBoard[p], "CARD_DONE", c)
  <2>1. CASE post = toBoard[p]
    BY <2>1
  <2>2. ASSUME NEW x \in U!UserMessage, x.type # "CARD_DONE", post = Append(toBoard[p], x)
        PROVE  \A c : Posted(post, "CARD_DONE", c) <=> Posted(toBoard[p], "CARD_DONE", c)
    <3>1. toBoard[p] \in Seq(U!UserMessage)
      BY Still
    <3>2. \A c : x # U!FromUser("CARD_DONE", c)
      BY <2>2 DEF U!FromUser
    <3>3. \A type, c : Posted(Append(toBoard[p], x), type, c)
                         <=> x = U!FromUser(type, c) \/ Posted(toBoard[p], type, c)
      BY <3>1, PostedAppend
    <3>4. QED
      BY <2>2, <3>2, <3>3
  <2>3. QED
    BY <2>1, <2>2
<1>3. \A c \in CardIds : Ending(v, n, post, c) <=> Ending(utente[p], main[p], toBoard[p], c)
  BY <1>2 DEF Ending, Reporting
<1>4. QED
  BY <1>1, <1>3, UserKeeps

\* The main thread goes on, and sends at most a message that is not CARD_DONE.
LEMMA UserGoesOn ==
  ASSUME SystemInv, NEW p \in Ports, NEW at \in U!Places \ {"join"}, U!Goto(p, U!At(at)),
         UNCHANGED <<db, utente>>, main[p].at # "join",
         \/ UNCHANGED toBoard
         \/ \E x \in U!UserMessage : x.type # "CARD_DONE"
                                     /\ toBoard' = [toBoard EXCEPT ![p] = Append(@, x)]
  PROVE  Quiet
<1>1. U!At(at).at = at
  BY AtPlace
<1>2. PICK post : /\ toBoard' = [toBoard EXCEPT ![p] = post]
                  /\ \/ post = toBoard[p]
                     \/ \E x \in U!UserMessage : x.type # "CARD_DONE" /\ post = Append(toBoard[p], x)
  BY Still
<1>3. Becomes(p, utente[p], U!At(at), post)
  BY <1>2, Still DEF Becomes, U!Goto
<1>4. QED
  BY <1>1, <1>2, <1>3, UserAside

\* The state of a user that has no work changes to another such.
LEMMA UserIdles ==
  ASSUME SystemInv, NEW p \in Ports, NEW v, U!SetUser(p, v), UNCHANGED <<db, toBoard>>,
         \/ UNCHANGED main
         \/ \E n : U!Goto(p, n) /\ "join" \notin {n.at, main[p].at},
         \/ v.state = utente[p].state /\ v.card_id = utente[p].card_id
         \/ {v.state, utente[p].state} \cap {"WORKING", "DONE_PENDING"} = {}
  PROVE  Quiet
<1>1. PICK n : main' = [main EXCEPT ![p] = n] /\ (n = main[p] \/ "join" \notin {n.at, main[p].at})
  BY Still DEF U!Goto
<1>2. Becomes(p, v, n, toBoard[p])
  BY <1>1, Still DEF Becomes, U!SetUser
<1>3. QED
  BY <1>1, <1>2, UserAside

\* What no property of the work speaks of.
LEMMA NothingChanges ==
  ASSUME UNCHANGED <<db, utente, main, toBoard>>
  PROVE  Quiet
<1>1. Doers' = Doers
  BY DEF Doers
<1>2. \A p, c : Ended(p, c)' <=> Ended(p, c)
  BY DEF Ended, OnItsWay
<1>3. InColumn(db, "DONE")' = InColumn(db, "DONE")
  OBVIOUS
<1>4. Finished' = Finished
  BY <1>2, <1>3 DEF Finished
<1>5. QED
  BY <1>1, <1>4 DEF Quiet

\* What a user knows of itself.
LEMMA UserSpot ==
  ASSUME SystemInv, NEW p \in Ports
  PROVE  Spot(utente[p], main[p], p2p[p], toBoard[p], p \in Connected, p \in eof)
  BY DEF SystemInv, Voting, Fit

\* A vote counted changes who works on nothing.
LEMMA VoteIdle ==
  ASSUME NEW u \in U!Utenti, NEW p, NEW v, v = U!evaluate_election(u, p)
  PROVE  \/ v.state = u.state /\ v.card_id = u.card_id
         \/ u.state = "CHOOSING" /\ v.state \in {"IDLE", "ACK_PENDING"}
<1>1. v = u \/ (u.state = "CHOOSING" /\ v \in {U!update_state(u, "ACK_PENDING"), U!Released(u)})
  BY DEF U!evaluate_election, U!AllArrived
<1>2. U!update_state(u, "ACK_PENDING").state = "ACK_PENDING"
  BY DEF U!update_state, U!Utenti
<1>3. U!Released(u).state = "IDLE"
  BY FreeUser
<1>4. QED
  BY <1>1, <1>2, <1>3


\* Who starts has no work yet.
LEMMA StartingShares ==
  ASSUME SystemInv, NEW p \in Ports, UserStarts(p)
  PROVE  Quiet
<1> DEFINE u == utente[p]
           m == main[p]
<1>1. /\ Spot(u, m, p2p[p], toBoard[p], p \in Connected, p \in eof) /\ UNCHANGED db
      /\ u \in U!Utenti
  BY UserSpot, Still DEF UserStarts, Alone
<1>2. \A state \in U!UtenteState : U!update_state(u, state).state = state
  BY <1>1 DEF U!update_state, U!Utenti
<1>3. \A at \in {"starting", "connecting", "ended", "idle", "listen", "closing"} :
        at \in U!Places \ {"join"} /\ U!At(at).at = at
  BY AtPlace DEF U!Places
<1>4. CASE U!StartUser(p)
  <2>1. U!utente_init.state = "STARTING_P2P"
    BY DEF U!utente_init
  <2>2. m.at = "off" /\ u.state \notin {"WORKING", "DONE_PENDING"} /\ UNCHANGED toBoard
        /\ U!SetUser(p, U!utente_init) /\ U!Goto(p, U!At("starting"))
    BY <1>1, <1>4 DEF U!StartUser, U!links, Spot
  <2>3. QED
    BY <1>1, <1>3, <2>1, <2>2, UserIdles
<1>5. CASE U!P2PStarted(p)
  <2>1. PICK at \in {"connecting", "ended"} : U!Goto(p, U!At(at))
    BY <1>5 DEF U!P2PStarted
  <2>2. UNCHANGED <<utente, toBoard>> /\ m.at = "starting"
    BY <1>5 DEF U!P2PStarted, U!links
  <2>3. QED
    BY <1>1, <1>3, <2>1, <2>2, UserGoesOn
<1>6. CASE U!SendHello(p)
  <2>1. m.at = "hello"
    BY <1>6 DEF U!SendHello
  <2>2. CASE U!Send(p, U!FromUser("HELLO", U!NoCard), U!At("idle"), U!At("idle")) /\ UNCHANGED utente
    <3>1. U!FromUser("HELLO", U!NoCard) \in U!UserMessage
          /\ U!FromUser("HELLO", U!NoCard).type # "CARD_DONE"
      BY DEF U!FromUser, U!UserMessage
    <3>2. U!Goto(p, U!At("idle"))
          /\ \/ UNCHANGED toBoard
             \/ toBoard' = [toBoard EXCEPT ![p] = Append(@, U!FromUser("HELLO", U!NoCard))]
      BY <2>2 DEF U!Send
    <3>3. QED
      BY <1>1, <1>3, <2>1, <2>2, <3>1, <3>2, UserGoesOn
  <2>3. CASE U!GiveUp(p) /\ UNCHANGED toBoard
    <3>1. U!SetUser(p, U!update_state(u, "DISCONNECTING")) /\ U!Goto(p, U!At("closing"))
          /\ u.state \notin {"WORKING", "DONE_PENDING"}
      BY <1>1, <2>1, <2>3 DEF U!GiveUp, Spot
    <3>2. U!update_state(u, "DISCONNECTING").state = "DISCONNECTING"
      BY <1>2 DEF U!UtenteState
    <3>3. QED
      BY <1>1, <1>3, <2>1, <2>3, <3>1, <3>2, UserIdles
  <2>4. QED
    BY <1>6, <2>2, <2>3 DEF U!SendHello
<1>7. CASE U!SetIdle(p)
  <2>1. U!SetUser(p, U!update_state(u, "IDLE")) /\ U!Goto(p, U!At("listen")) /\ m.at = "idle"
        /\ UNCHANGED toBoard /\ u.state \notin {"WORKING", "DONE_PENDING"}
    BY <1>1, <1>7 DEF U!SetIdle, U!links, Spot
  <2>2. U!update_state(u, "IDLE").state = "IDLE"
    BY <1>2 DEF U!UtenteState
  <2>3. QED
    BY <1>1, <1>3, <2>1, <2>2, UserIdles
<1>8. QED
  BY <1>4, <1>5, <1>6, <1>7 DEF UserStarts

\* A connection opened changes no work.
LEMMA ConnectingShares ==
  ASSUME SystemInv, NEW p \in Ports, UserConnects(p)
  PROVE  Quiet
<1>1. U!Goto(p, U!At("hello")) /\ main[p].at = "connecting" /\ UNCHANGED <<db, utente, toBoard>>
  BY DEF UserConnects, U!Connect, U!links, Accept
<1>2. "hello" \in U!Places \ {"join"}
  BY DEF U!Places
<1>3. QED
  BY <1>1, <1>2, UserGoesOn

\* CREATE_CARD typed is passed on.
LEMMA TypingShares ==
  ASSUME Undisturbed, SystemInv, NEW p \in Ports, UserTypes(p)
  PROVE  Quiet
<1> DEFINE x == U!FromUser("CREATE_CARD", U!NoCard)
<1>1. U!TypeRelayed(p, "CREATE_CARD") /\ Alone
  BY DEF UserTypes, U!Terminal, U!TypeRelayed, U!TypeChooseUser, U!TypeAckCard, U!TypeCardDone,
         U!TypeQuit, U!Types, Undisturbed
<1>2. main[p].at = "listen" /\ UNCHANGED <<db, utente>> /\ U!Send(p, x, U!At("server"), U!At("quit"))
  BY <1>1 DEF U!TypeRelayed, U!Types, U!InPass, Alone
<1>3. PICK at \in {"server", "quit"} :
        U!Goto(p, U!At(at)) /\ (UNCHANGED toBoard \/ toBoard' = [toBoard EXCEPT ![p] = Append(@, x)])
  BY <1>2 DEF U!Send
<1>4. at \in U!Places \ {"join"} /\ x \in U!UserMessage /\ x.type # "CARD_DONE"
  BY DEF U!Places, U!FromUser, U!UserMessage
<1>5. QED
  BY <1>2, <1>3, <1>4, UserGoesOn

\* The P2P thread counts votes, and comes and goes while its user has no card.
LEMMA ListeningShares ==
  ASSUME Undisturbed, SystemInv, NEW p \in Ports, UserListens(p)
  PROVE  Quiet
<1> DEFINE u == utente[p]
           m == main[p]
<1>1. /\ Spot(u, m, p2p[p], toBoard[p], p \in Connected, p \in eof) /\ UNCHANGED db
      /\ u \in U!Utenti
  BY UserSpot, Still DEF UserListens, Alone
<1>2. ASSUME NEW state \in {"CONNECTING", "SHUTTING_DOWN"}, U!SetUser(p, U!update_state(u, state)),
             UNCHANGED <<main, toBoard>>, u.state \in {"STARTING_P2P", "DISCONNECTING", "SHUTTING_DOWN"}
      PROVE  Quiet
  <2>1. U!update_state(u, state).state = state
    BY <1>1 DEF U!update_state, U!Utenti
  <2>2. QED
    BY <1>1, <1>2, <2>1, UserIdles
<1>3. CASE U!P2PReady(p)
  BY <1>1, <1>2, <1>3 DEF U!P2PReady, U!links, Spot
<1>4. CASE U!P2PFails(p)
  BY <1>1, <1>2, <1>4 DEF U!P2PFails, U!LeaveP2P, U!links, Spot, Undisturbed
<1>5. CASE U!P2PEnds(p)
  BY <1>1, <1>2, <1>5 DEF U!P2PEnds, U!LeaveP2P, U!links, Spot
<1>6. ASSUME NEW x \in wire, U!Deliver(p, x)
      PROVE  Quiet
  <2> DEFINE c == x.card
             w == [u EXCEPT !.card_id = c, !.choices = U!add_choice(u.choices, x.from, x.cost)]
             v == U!record_choice(u, p, c, x.from, x.cost)
  <2>1. U!SetUser(p, v) /\ UNCHANGED <<main, toBoard>>
    BY <1>6 DEF U!Deliver
  <2>2. v = u \/ (u.card_id \in {NoCard, c} /\ v = U!evaluate_election(w, p))
    BY SameNames DEF U!record_choice
  <2>3. PICK V \in [CardIds -> SUBSET Ports], B \in [CardIds -> SUBSET (Ports \X Costs)] : Voting(V, B)
    BY DEF SystemInv
  <2>4. c \in CardIds /\ <<x.from, x.cost>> \in Ports \X Costs
    BY <2>3 DEF Voting, Cast
  <2>5. U!add_choice(u.choices, x.from, x.cost) \subseteq u.choices \cup {<<x.from, x.cost>>}
    BY DEF U!add_choice
  <2>6. w \in U!Utenti /\ w.state = u.state /\ w.card_id = c
    BY <1>1, <2>4, <2>5 DEF U!Utenti
  <2>7. u.state \in {"WORKING", "DONE_PENDING"} => u.card_id \in CardIds
    BY <2>3 DEF Voting, Fit, Table, Winning
  <2> HIDE DEF v, w
  <2>8. \/ v.state = u.state /\ v.card_id = u.card_id
        \/ {v.state, u.state} \cap {"WORKING", "DONE_PENDING"} = {}
    <3>1. CASE v = u
      BY <3>1
    <3>2. CASE u.card_id \in {NoCard, c} /\ v = U!evaluate_election(w, p)
      <4>1. \/ v.state = u.state /\ v.card_id = c
            \/ u.state = "CHOOSING" /\ v.state \in {"IDLE", "ACK_PENDING"}
        BY <2>6, <3>2, VoteIdle
      <4>2. QED
        BY <2>7, <3>2, <4>1, SameNames
    <3>3. QED
      BY <2>2, <3>1, <3>2
  <2>9. QED
    BY <1>1, <2>1, <2>8, UserIdles
<1>7. QED
  BY <1>3, <1>4, <1>5, <1>6 DEF UserListens, U!P2PThread, U!Hear

\* A user closes when it has no work: it would be connected still.
LEMMA LeavingShares ==
  ASSUME Undisturbed, SystemInv, NEW p \in Ports, Leaves(p)
  PROVE  Quiet
<1> DEFINE u == utente[p]
           v == U!update_state(U!worker_joined(u), "DISCONNECTING")
<1>1. PICK V \in [CardIds -> SUBSET Ports], B \in [CardIds -> SUBSET (Ports \X Costs)] : Voting(V, B)
  BY DEF SystemInv
<1>2. Table(V, B, p, u) /\ u \in U!Utenti
      /\ Spot(u, main[p], p2p[p], toBoard[p], p \in Connected, p \in eof)
  BY <1>1, Still DEF Voting, Fit
<1>3. /\ main[p].at = "leaving" /\ UNCHANGED toBoard
      /\ U!SetUser(p, v) /\ U!Goto(p, U!At("closing"))
  BY DEF Leaves, U!Kill, Undisturbed, U!CloseUser, U!links
<1>4. p \in eof /\ p \notin Connected
  BY <1>2, <1>3 DEF Spot
<1>5. \A fd \in Fds : peer[fd] # p
  BY <1>4, SameNames DEF Connected
<1>6. UNCHANGED db
  BY <1>5 DEF Leaves, vars
<1>7. u.state \notin {"WORKING", "DONE_PENDING"}
  <2>1. u.state \in Winning => u.card_id \in CardIds /\ Elected(V, B, p, u.card_id)
    BY <1>2 DEF Table
  <2>2. QED
    BY <1>1, <1>4, <2>1, ElectedLinked DEF Winning
<1>8. v.state = "DISCONNECTING"
  BY <1>2 DEF U!update_state, U!worker_joined, U!Utenti
<1>9. U!At("closing").at = "closing"
  BY AtPlace DEF U!Places
<1>10. QED
  BY <1>3, <1>6, <1>7, <1>8, <1>9, UserIdles

\* Of a user that has begun, nobody else is at work.
LEMMA DoerAlone ==
  ASSUME SystemInv, NEW p \in Ports, NEW c \in CardIds, Holds(p, c)
  PROVE  Doers = IF utente[p].state = "WORKING" THEN {<<p, c>>} ELSE {}
<1>1. ASSUME NEW d \in Doers PROVE d = <<p, c>> /\ utente[p].state = "WORKING"
  <2>1. d = <<d[1], d[2]>> /\ d[1] \in Ports /\ Holds(d[1], d[2]) /\ utente[d[1]].state = "WORKING"
    BY DEF Doers, Holds
  <2>2. d[1] = p /\ d[2] = c
    BY <2>1, HolderAlone
  <2>3. QED
    BY <2>1, <2>2
<1>2. utente[p].state = "WORKING" => <<p, c>> \in Doers
  BY DEF Holds, Doers
<1>3. QED
  BY <1>1, <1>2

\* The worker ends its card, or finds that it is none of its user.
LEMMA WorkingShares ==
  ASSUME SystemInv, NEW p \in Ports, UserWorks(p)
  PROVE  Shares
<1> DEFINE u == utente[p]
           m == main[p]
           post == toBoard[p]
           v == U!update_state(u, "DONE_PENDING")
           c == u.card_id
<1>1. PICK V \in [CardIds -> SUBSET Ports], B \in [CardIds -> SUBSET (Ports \X Costs)] : Voting(V, B)
  BY DEF SystemInv
<1>2. Table(V, B, p, u) /\ u \in U!Utenti /\ UNCHANGED <<db, main, toBoard>>
  BY <1>1, Still DEF Voting, Fit, UserWorks, Alone, U!WorkerBegins, U!WorkerWakes, U!LooseWorkerRuns,
                     U!links
<1>3. utente' = utente \/ (u.state = "WORKING" /\ U!SetUser(p, v))
  <2>1. \A card : \/ U!mark_done_pending(u, card) = u
                  \/ u.state = "WORKING" /\ U!mark_done_pending(u, card) = v
    BY DEF U!mark_done_pending
  <2>2. utente' = utente \/ \E card : U!SetUser(p, U!mark_done_pending(u, card))
    BY DEF UserWorks, U!WorkerBegins, U!WorkerWakes, U!LooseWorkerRuns
  <2> HIDE DEF v
  <2>3. U!SetUser(p, u) => utente' = utente
    BY Still DEF U!SetUser
  <2>4. QED
    BY <2>1, <2>2, <2>3
<1>4. CASE utente' = utente
  BY <1>2, <1>4, NothingChanges DEF Shares
<1>5. CASE u.state = "WORKING" /\ U!SetUser(p, v)
  <2>1. c \in CardIds /\ Holds(p, c)
    BY <1>2, <1>5 DEF Table, Winning, Holds
  <2>2. v.state = "DONE_PENDING" /\ v.card_id = c
    BY <1>2 DEF U!update_state, U!Utenti
  <2>3. Becomes(p, v, m, post)
    BY <1>2, <1>5, Still DEF Becomes, U!SetUser
  <2> HIDE DEF v
  <2>4. Doers = {<<p, c>>}
    BY <1>5, <2>1, DoerAlone
  <2>5. /\ \A q \in Ports, y \in CardIds :
             /\ <<q, y>> \in Doers <=> Doing(utente[q], y)
             /\ <<q, y>> \in Doers' <=> IF q = p THEN Doing(v, y) ELSE Doing(utente[q], y)
        /\ Doers' \subseteq Ports \X CardIds
        /\ \A q \in Ports, y \in CardIds :
             /\ Ended(q, y) <=> Ending(utente[q], main[q], toBoard[q], y)
             /\ Ended(q, y)' <=> IF q = p THEN Ending(v, m, post, y)
                                 ELSE Ending(utente[q], main[q], toBoard[q], y)
    BY <2>3, UserPart
  <2>6. Doers' = {}
    <3>1. ASSUME NEW d \in Doers' PROVE FALSE
      <4>1. d = <<d[1], d[2]>> /\ d[1] \in Ports /\ d[2] \in CardIds
        BY <2>5
      <4>2. <<d[1], d[2]>> \in Doers'
        BY <4>1, Zenon
      <4>3. d[1] # p /\ <<d[1], d[2]>> \in Doers
        BY <2>2, <2>5, <4>1, <4>2 DEF Doing
      <4>4. QED
        BY <2>4, <4>3
    <3>2. QED
      BY <3>1
  <2>7. \A y \in CardIds : Ending(v, m, post, y) <=> y = c \/ Ending(u, m, post, y)
    BY <1>5, <2>2 DEF Ending
  <2>8. InColumn(db, "DONE")' = InColumn(db, "DONE")
    BY <1>2
  <2>9. \A y \in CardIds : (\E q \in Ports : Ended(q, y)') <=> y = c \/ \E q \in Ports : Ended(q, y)
    BY <2>5, <2>7
  <2>10. Finished' = Finished \cup {c}
    BY <2>1, <2>8, <2>9 DEF Finished
  <2>11. QED
    BY <2>1, <2>4, <2>6, <2>10 DEF Stops, Shares
<1>6. QED
  BY <1>3, <1>4, <1>5

\* A user begins a card that nobody has finished, when nobody else works.
LEMMA BeginningShares ==
  ASSUME SystemInv, NEW p \in Ports, Alone, U!MarkWorking(p)
  PROVE  Shares
<1> DEFINE u == utente[p]
           m == main[p]
           post == toBoard[p]
           v == U!start_worker(U!mark_working(u))
           n == U!At("pending")
           c == u.card_id
<1>1. PICK V \in [CardIds -> SUBSET Ports], B \in [CardIds -> SUBSET (Ports \X Costs)] : Voting(V, B)
  BY DEF SystemInv
<1>2. /\ Table(V, B, p, u) /\ Duty(V, B, db, p, u, m, post) /\ u \in U!Utenti
      /\ Spot(u, m, p2p[p], post, p \in Connected, p \in eof)
  BY <1>1, Still DEF Voting, Fit
<1>3. m.at = "mark" /\ UNCHANGED <<db, toBoard>> /\ U!StartWorker(p, U!mark_working(u), "pending")
  BY DEF U!MarkWorking, U!links, Alone
<1>4. u.state = "ACK_PENDING" /\ ~u.worker_started
  BY <1>2, <1>3 DEF Spot
<1>5. U!CanStart(U!mark_working(u))
  BY <1>2, <1>4 DEF U!CanStart, U!mark_working, U!update_state, U!Utenti
<1>6. v.state = "WORKING" /\ v.card_id = c
  BY <1>2 DEF U!start_worker, U!mark_working, U!update_state, U!Utenti
<1>7. n.at = "pending"
  BY AtPlace DEF U!Places
<1>8. Becomes(p, v, n, post)
  BY <1>3, <1>5, Still DEF Becomes, U!StartWorker, U!SetUser, U!Goto
<1> HIDE DEF v, n
<1>9. c \in CardIds /\ Holds(p, c) /\ InHand(u, c)
  BY <1>2, <1>4 DEF Table, Winning, Holds, InHand
<1>10. Doers = {}
  BY <1>4, <1>9, DoerAlone
<1>11. /\ \A q \in Ports, y \in CardIds :
            /\ <<q, y>> \in Doers <=> Doing(utente[q], y)
            /\ <<q, y>> \in Doers' <=> IF q = p THEN Doing(v, y) ELSE Doing(utente[q], y)
       /\ Doers' \subseteq Ports \X CardIds
       /\ \A q \in Ports, y \in CardIds :
            /\ Ended(q, y) <=> Ending(utente[q], main[q], toBoard[q], y)
            /\ Ended(q, y)' <=> IF q = p THEN Ending(v, n, post, y)
                                ELSE Ending(utente[q], main[q], toBoard[q], y)
  BY <1>8, UserPart
<1>12. Doers' = {<<p, c>>}
  <2>1. ASSUME NEW d \in Doers' PROVE d = <<p, c>>
    <3>1. d = <<d[1], d[2]>> /\ d[1] \in Ports /\ d[2] \in CardIds
      BY <1>11
    <3>2. <<d[1], d[2]>> \in Doers'
      BY <3>1, Zenon
    <3>3. d[1] = p /\ Doing(v, d[2])
      BY <1>10, <1>11, <3>1, <3>2
    <3>4. QED
      BY <1>6, <3>1, <3>3 DEF Doing
  <2>2. <<p, c>> \in Doers'
    BY <1>6, <1>9, <1>11 DEF Doing
  <2>3. QED
    BY <2>1, <2>2
<1>13. Finished' = Finished
  <2>1. \A y \in CardIds : Ending(v, n, post, y) <=> Ending(u, m, post, y)
    BY <1>3, <1>4, <1>6, <1>7 DEF Ending, Reporting
  <2>2. InColumn(db, "DONE")' = InColumn(db, "DONE")
    BY <1>3
  <2>3. \A q \in Ports, y \in CardIds : Ended(q, y)' <=> Ended(q, y)
    BY <1>11, <2>1
  <2>4. QED
    BY <2>2, <2>3 DEF Finished
<1>14. c \notin InColumn(db, "DONE")
  <2>1. db.offered_card_id = c \/ WorksOn(p, c)
    BY <1>1, <1>9, HolderElected
  <2>2. Sound(db)
    BY DEF SystemInv, BoardInv, IInv, Good
  <2>3. QED
    BY <1>9, <2>1, <2>2, SameNames DEF Sound, WorksOn, InColumn
<1>15. ASSUME NEW q \in Ports, Ended(q, c) PROVE FALSE
  <2>1. CASE utente[q].state = "DONE_PENDING" /\ utente[q].card_id = c
    <3>1. Holds(q, c)
      BY <2>1 DEF Holds
    <3>2. QED
      BY <1>4, <1>9, <2>1, <3>1, HolderAlone
  <2>2. CASE Reporting(main[q], toBoard[q], c)
    <3>1. Duty(V, B, db, q, utente[q], main[q], toBoard[q])
      BY <1>1 DEF Voting, Fit
    <3>2. Elected(V, B, q, c)
      BY <1>9, <2>2, <3>1 DEF Duty, Taken
    <3>3. Elected(V, B, p, c)
      BY <1>1, <1>9, HolderElected
    <3>4. q = p
      BY <3>2, <3>3, OneElected
    <3>5. QED
      BY <1>2, <1>9, <2>2, <3>4 DEF Duty
  <2>3. QED
    BY <1>11, <1>9, <1>15, <2>1, <2>2 DEF Ending
<1>16. c \notin Finished
  BY <1>14, <1>15 DEF Finished
<1>17. QED
  BY <1>9, <1>10, <1>12, <1>13, <1>16 DEF Starts, Shares

\* What has ended stays so while its user passes from the worker to its CARD_DONE.
LEMMA ReleasingShares ==
  ASSUME SystemInv, NEW p \in Ports, Alone, U!TakeDone(p)
  PROVE  Quiet
<1> DEFINE u == utente[p]
           m == main[p]
           post == toBoard[p]
           c == u.card_id
           v == U!Released(u)
           n == [U!At("join") EXCEPT !.card = c]
<1>1. u \in U!Utenti
  BY Still
<1>2. /\ m.at \in {"listen", "server", "pending"} /\ u.state = "DONE_PENDING"
      /\ Becomes(p, v, n, post)
  BY Still DEF U!TakeDone, U!InPass, U!Pass, U!CanFinish, U!SetUser, U!Goto, U!take_done, U!links,
               Becomes, Alone
<1>3. v.state = "IDLE" /\ v.card_id = NoCard
  BY <1>1, FreeUser
<1>4. n.at = "join" /\ n.card = c
  BY DEF U!At
<1> HIDE DEF v, n
<1>5. \A y \in CardIds : /\ Doing(v, y) <=> Doing(u, y)
                         /\ Ending(v, n, post, y) <=> Ending(u, m, post, y)
  BY <1>2, <1>3, <1>4 DEF Doing, Ending, Reporting
<1>6. QED
  BY <1>2, <1>5, UserKeeps

\* CARD_DONE sent tells of the work that the join has told of.
LEMMA ReportingShares ==
  ASSUME SystemInv, NEW p \in Ports, Alone, U!JoinWorker(p)
  PROVE  Quiet
<1>1. PICK V \in [CardIds -> SUBSET Ports], B \in [CardIds -> SUBSET (Ports \X Costs)] : Voting(V, B)
  BY DEF SystemInv
<1> DEFINE u == utente[p]
           m == main[p]
           post == toBoard[p]
           c == m.card
           v == U!worker_joined(u)
           x == U!FromUser("CARD_DONE", c)
           after == Append(post, x)
           n == U!At("listen")
<1>2. /\ Duty(V, B, db, p, u, m, post) /\ u \in U!Utenti /\ post \in Seq(U!UserMessage)
      /\ Spot(u, m, p2p[p], post, p \in Connected, p \in eof)
  BY <1>1, Still DEF Voting, Fit
<1>3. m.at = "join" /\ U!SetUser(p, v) /\ U!Send(p, x, n, U!At("quit")) /\ UNCHANGED db
  BY DEF U!JoinWorker, Alone
<1>4. c \in CardIds /\ u.state \notin Winning
  BY <1>2, <1>3 DEF Spot
<1>5. p \notin eof
  <2>1. Elected(V, B, p, c)
    BY <1>2, <1>3, <1>4 DEF Duty, Taken, Reporting
  <2>2. QED
    BY <1>1, <1>4, <2>1, ElectedLinked
<1>6. Becomes(p, v, n, after)
  BY <1>3, <1>5 DEF Becomes, U!Send, U!Goto, U!SetUser
<1>7. x \in U!UserMessage /\ \A y : x = U!FromUser("CARD_DONE", y) <=> y = c
  BY <1>4 DEF U!FromUser, U!UserMessage
<1>8. v.state = u.state /\ v.card_id = u.card_id
  BY <1>2 DEF U!worker_joined, U!Utenti
<1>9. n.at = "listen"
  BY AtPlace DEF U!Places
<1> HIDE DEF v, x, n
<1>10. \A y : Posted(after, "CARD_DONE", y) <=> y = c \/ Posted(post, "CARD_DONE", y)
  BY <1>2, <1>7, PostedAppend
<1> HIDE DEF after
<1>11. \A y \in CardIds : /\ Doing(v, y) <=> Doing(u, y)
                          /\ Ending(v, n, after, y) <=> Ending(u, m, post, y)
  BY <1>3, <1>4, <1>8, <1>9, <1>10 DEF Doing, Ending, Reporting, Winning
<1>12. QED
  BY <1>6, <1>11, UserKeeps

\* All that the main thread does between two messages, and to end.
LEMMA RunningShares ==
  ASSUME SystemInv, NEW p \in Ports, UserRuns(p)
  PROVE  Shares
<1>1. PICK V \in [CardIds -> SUBSET Ports], B \in [CardIds -> SUBSET (Ports \X Costs)] : Voting(V, B)
  BY DEF SystemInv
<1> DEFINE u == utente[p]
           m == main[p]
<1>2. /\ Mail(V, B, db, p, toUser[p]) /\ Table(V, B, p, u) /\ u \in U!Utenti /\ Alone
      /\ Spot(u, m, p2p[p], toBoard[p], p \in Connected, p \in eof)
      /\ UNCHANGED db
  BY <1>1, Still DEF Voting, Fit, UserRuns, Alone
<1>3. ASSUME NEW at \in {"listen", "pending", "mark", "quit", "leaving", "ended"},
             U!Goto(p, U!At(at)), utente' = utente, m.at # "join",
             \/ UNCHANGED toBoard
             \/ \E type \in {"ACK_CARD", "QUIT"}, c \in CardIds \cup {U!NoCard} :
                  toBoard' = [toBoard EXCEPT ![p] = Append(@, U!FromUser(type, c))]
      PROVE  Shares
  <2>1. at \in U!Places \ {"join"}
    BY DEF U!Places
  <2>2. \A type \in {"ACK_CARD", "QUIT"}, c \in CardIds \cup {U!NoCard} :
          U!FromUser(type, c) \in U!UserMessage /\ U!FromUser(type, c).type # "CARD_DONE"
    BY DEF U!FromUser, U!UserMessage
  <2>3. QED
    BY <1>2, <1>3, <2>1, <2>2, UserGoesOn DEF Shares
<1>4. CASE U!Receive(p)
  <2>1. toUser[p] # <<>> => U!Message(p) = Call(V, db.offered_card_id, p) /\ db.offered_card_id \in CardIds
    <3>1. \A y : Head(<<y>>) = y
      OBVIOUS
    <3>2. QED
      BY <1>2, <3>1 DEF Mail, U!Message
  <2>2. CASE U!ReceiveEnd(p)
    BY <1>3, <2>2 DEF U!ReceiveEnd, U!InPass, U!links
  <2>3. CASE U!ReceiveAvailableCard(p)
    <3>1. m.at \in {"listen", "server"} /\ toUser[p] # <<>> /\ UNCHANGED toBoard
      BY <2>3 DEF U!ReceiveAvailableCard, U!Read, U!InPass
    <3>2. CASE U!Goto(p, U!At("quit")) /\ utente' = utente
      BY <1>3, <3>1, <3>2
    <3>3. ASSUME NEW k, k = U!Message(p), NEW n \in Costs,
                 U!SetUser(p, U!start_election(u, p, k.card, k.total, k.peers, n)),
                 NEW place, place = [U!At("broadcast") EXCEPT !.send = U!CostsTo(p, k.peers, k.card, n)],
                 U!Goto(p, place)
          PROVE  Shares
      <4> DEFINE v == U!start_election(u, p, k.card, k.total, k.peers, n)
      <4>1. place.at = "broadcast"
        BY <3>3 DEF U!At
      <4>2. v.state \in {"CHOOSING", "IDLE", "ACK_PENDING"}
        <5> DEFINE w(S) == [u EXCEPT !.card_id = k.card, !.total_users = k.total, !.peer_ports = k.peers,
                                     !.own_cost = n, !.state = "CHOOSING", !.choices = S]
        <5>1. PICK S : v = U!evaluate_election(w(S), p)
          BY DEF U!start_election
        <5>2. w(S).state = "CHOOSING"
          BY <1>2 DEF U!Utenti
        <5>3. U!update_state(w(S), "ACK_PENDING").state = "ACK_PENDING" /\ U!Released(w(S)).state = "IDLE"
          BY <1>2 DEF U!update_state, U!Released, U!Utenti
        <5> HIDE DEF w
        <5>4. v \in {w(S), U!update_state(w(S), "ACK_PENDING"), U!Released(w(S))}
          BY <5>1 DEF U!evaluate_election
        <5>5. QED
          BY <5>2, <5>3, <5>4
      <4> HIDE DEF v
      <4>3. u.state \notin {"WORKING", "DONE_PENDING"}
        <5>1. u.state \in {"WORKING", "DONE_PENDING"} => u.card_id \in CardIds
          BY <1>2 DEF Table, Winning
        <5>2. QED
          BY <1>1, <3>1, <5>1, CalledFree DEF Taken
      <4>4. QED
        BY <1>2, <3>1, <3>3, <4>1, <4>2, <4>3, UserIdles DEF v, Shares
    <3>4. QED
      BY <2>3, <3>2, <3>3 DEF U!ReceiveAvailableCard
  <2>4. U!ReceiveAvailableCard(p) \/ U!ReceiveEnd(p)
    BY <1>4, <2>1 DEF U!Receive, U!ReceivePing, U!ReceiveUserList, U!ReceiveQuit, U!Read, Call
  <2>5. QED
    BY <2>2, <2>3, <2>4
<1>5. CASE U!Pending(p)
  <2>1. ~U!StartAfterAck(p)
    BY <1>2 DEF U!StartAfterAck, Spot
  <2>2. CASE U!Broadcast(p)
    BY <1>3, <2>2 DEF U!Broadcast
  <2>3. CASE U!EndPass(p)
    BY <1>3, <2>3 DEF U!EndPass, U!links
  <2>4. CASE U!TakeAck(p)
    <3>1. u.card_id \in CardIds \cup {U!NoCard} /\ utente' = utente /\ m.at # "join"
          /\ U!Send(p, U!FromUser("ACK_CARD", u.card_id), U!At("mark"), U!At("quit"))
      BY <1>2, <2>4, SameNames DEF U!TakeAck, U!InPass, U!Pass, U!Utenti
    <3>2. QED
      BY <1>3, <3>1 DEF U!Send
  <2>5. QED
    BY <1>2, <1>5, <2>1, <2>2, <2>3, <2>4, BeginningShares, ReleasingShares, ReportingShares
       DEF U!Pending, Shares
<1>6. ~U!SeeStop(p)
  BY <1>2, Still DEF U!SeeStop, Spot
<1>7. CASE U!SendQuit(p)
  <2>1. m.at = "quit" /\ utente' = utente
        /\ U!Send(p, U!FromUser("QUIT", U!NoCard), U!At("leaving"), U!At("leaving"))
    BY <1>7 DEF U!SendQuit
  <2>2. QED
    BY <1>3, <2>1 DEF U!Send
<1>8. CASE U!Exit(p)
  BY <1>3, <1>8 DEF U!Exit
<1>9. QED
  BY <1>4, <1>5, <1>6, <1>7, <1>8 DEF UserRuns

\* A step of a user begins a work, ends one, or does neither.
LEMMA UserShares ==
  ASSUME Undisturbed, SystemInv, NEW p \in Ports, UserStep(p)
  PROVE  Shares
<1>1. ~U!Signal(p)
  BY DEF U!Signal, Undisturbed
<1>2. QED
  BY <1>1, StartingShares, ConnectingShares, TypingShares, ListeningShares, LeavingShares,
     WorkingShares, RunningShares DEF UserStep, Shares

\* What the board reads of CARD_DONE it writes in DONE.
LEMMA BoardKeeps ==
  ASSUME SystemInv, SystemInv', NEW read, Carry(read),
         \A p \in read : p \in Ports /\ toBoard[p] # <<>>,
         RegisteredPorts(db) \subseteq RegisteredPorts(db'),
         \A c \in CardIds : ColumnOf(db')[c] = "DONE" <=>
              ColumnOf(db)[c] = "DONE" \/ \E r \in read : Head(toBoard[r]) = U!FromUser("CARD_DONE", c)
  PROVE  Quiet
<1>1. PICK V \in [CardIds -> SUBSET Ports], B \in [CardIds -> SUBSET (Ports \X Costs)] : Voting(V, B)
  BY DEF SystemInv
<1>2. UNCHANGED <<utente, main>>
  BY DEF Carry, userVars
<1>3. Doers' = Doers
  BY <1>2 DEF Doers
<1>4. ASSUME NEW p \in Ports, NEW c \in CardIds, Posted(toBoard[p], "CARD_DONE", c)
      PROVE  toBoard'[p] = IF p \in read THEN Tail(toBoard[p]) ELSE toBoard[p]
  <2>1. Duty(V, B, db, p, utente[p], main[p], toBoard[p]) /\ Ballots(V, B, db) /\ Wired(db, peer)
    BY <1>1 DEF Voting, Fit, SystemInv, BoardInv
  <2>2. Elected(V, B, p, c)
    BY <1>4, <2>1 DEF Duty, Taken, Reporting
  <2>3. p \in RegisteredPorts(db')
    BY <2>1, <2>2, ElectedStays
  <2>4. Wired(db', peer')
    BY DEF SystemInv, BoardInv
  <2>5. \E fd \in Fds : peer'[fd] = p
    BY <2>3, <2>4 DEF RegisteredPorts, Wired
  <2>6. p \in Connected'
    BY <2>5, SameNames DEF Connected
  <2>7. QED
    BY <2>6 DEF Carry
<1>5. ASSUME NEW p \in Ports, NEW c \in CardIds
      PROVE  Posted(toBoard[p], "CARD_DONE", c) <=>
               \/ Posted(toBoard'[p], "CARD_DONE", c)
               \/ p \in read /\ Head(toBoard[p]) = U!FromUser("CARD_DONE", c)
  <2>1. toBoard[p] \in Seq(U!UserMessage) /\ Ordered(toBoard[p])
    BY <1>1, Still DEF Voting, Fit
  <2>2. p \in read => (Posted(toBoard[p], "CARD_DONE", c) <=>
                         \/ Head(toBoard[p]) = U!FromUser("CARD_DONE", c)
                         \/ Posted(Tail(toBoard[p]), "CARD_DONE", c))
    BY <2>1, TailPosted
  <2>3. CASE Posted(toBoard[p], "CARD_DONE", c)
    BY <1>4, <2>2, <2>3
  <2>4. CASE ~Posted(toBoard[p], "CARD_DONE", c)
    <3>1. toBoard'[p] \in {<<>>, Tail(toBoard[p]), toBoard[p]}
          /\ (toBoard'[p] = Tail(toBoard[p]) => p \in read \/ toBoard'[p] \in {<<>>, toBoard[p]})
      BY DEF Carry
    <3>2. ~Posted(<<>>, "CARD_DONE", c)
      BY DEF Posted
    <3>3. QED
      BY <2>2, <2>4, <3>1, <3>2
  <2>5. QED
    BY <2>3, <2>4
<1>6. \A d, c : c \in InColumn(d, "DONE") <=> c \in CardIds /\ ColumnOf(d)[c] = "DONE"
  BY DEF InColumn, UsedCards, ColumnOf
<1>7. \A p \in Ports, c \in CardIds :
        /\ Ended(p, c) <=> Ending(utente[p], main[p], toBoard[p], c)
        /\ Ended(p, c)' <=> Ending(utente[p], main[p], toBoard'[p], c)
  BY <1>2 DEF Ended, Ending, OnItsWay, Reporting, Posted
<1>8. \A c \in CardIds : \/ c \in InColumn(db', "DONE")
                         \/ \E p \in Ports : Ending(utente[p], main[p], toBoard'[p], c)
                    <=> \/ c \in InColumn(db, "DONE")
                        \/ \E p \in Ports : Ending(utente[p], main[p], toBoard[p], c)
  BY <1>5, <1>6 DEF Ending, Reporting
<1>9. \A c \in CardIds : c \in Finished' <=> c \in Finished
  BY <1>7, <1>8 DEF Finished
<1>10. Finished' = Finished
  BY <1>9 DEF Finished
<1>11. QED
  BY <1>3, <1>10 DEF Quiet

\* No step of the board begins or ends a work.
LEMMA BoardShares ==
  ASSUME Undisturbed, SystemInv, SystemInv', BoardStep
  PROVE  Quiet
<1>1. Good(db) /\ Consistent(db) /\ Employed(db) /\ OneCard(db) /\ Sound(db)
  BY DEF SystemInv, BoardInv, IInv, Good, Staffed
<1>2. ASSUME NEW d, Consistent(d), Employed(d), SendAvailableCard(d, <<>>)
      PROVE  RegisteredPorts(db') = RegisteredPorts(d) /\ ColumnOf(db') = ColumnOf(d)
  <2>1. db' = Offered(d)
    BY <1>2 DEF SendAvailableCard, Offered
  <2>2. QED
    BY <1>2, <2>1, OfferedEmployed
<1>3. CASE OfferStep /\ Carry({})
  BY <1>3, CallOne, BoardKeeps
<1>4. ASSUME NEW fd, NEW r, Reads(fd, r)
      PROVE  Quiet
  <2> DEFINE m == Head(toBoard[r])
             Done(c) == m = U!FromUser("CARD_DONE", c)
  <2>1. /\ fd \in Fds /\ r \in Ports /\ toBoard[r] # <<>> /\ Carry({r})
        /\ From(fd) => UserPort(fd) = r /\ IsRegistered(db, r)
    BY <1>4, ServedUser DEF Reads
  <2>2. m.type # "CARD_DONE" => \A c : ~Done(c)
    BY DEF U!FromUser
  <2>3. ASSUME RegisteredPorts(db) \subseteq RegisteredPorts(db'),
               \A c \in CardIds : ColumnOf(db')[c] = "DONE" <=> ColumnOf(db)[c] = "DONE" \/ Done(c)
        PROVE  Quiet
    BY <2>1, <2>3, BoardKeeps
  <2>4. CASE db' = db /\ m.type # "CARD_DONE"
    BY <2>2, <2>3, <2>4
  <2>5. CASE m.type = "HELLO" /\ HandleHello(fd, r)
    <3>1. CASE CanAddUser(db, r) /\ SendAvailableCard(add_user(db, fd, r), <<>>)
      <4> DEFINE d == add_user(db, fd, r)
      <4>1. /\ Consistent(d) /\ Employed(d)
            /\ RegisteredPorts(db) \subseteq RegisteredPorts(d) /\ ColumnOf(d) = ColumnOf(db)
        BY <1>1, <2>1, <3>1, JoinEmployed, AddUserConsistent
      <4> HIDE DEF d
      <4>2. SendAvailableCard(d, <<>>)
        BY <3>1 DEF d
      <4>3. RegisteredPorts(db') = RegisteredPorts(d) /\ ColumnOf(db') = ColumnOf(d)
        BY <1>2, <4>1, <4>2
      <4>4. QED
        BY <2>2, <2>3, <2>5, <4>1, <4>3
    <3>2. CASE Refuse(fd)
      BY <2>4, <2>5, <3>2 DEF Refuse
    <3>3. QED
      BY <2>5, <3>1, <3>2 DEF HandleHello
  <2>6. CASE m.type = "CREATE_CARD" /\ HandleCreateCard(fd, 0, "TODO")
    <3> DEFINE d == create_card(db, 0, "TODO")
               new == NewCardId(db, 0)
    <3>1. CanCreate(db, 0) /\ SendAvailableCard(d, <<>>) /\ "TODO" \in Columns
      BY <2>6 DEF HandleCreateCard, Columns
    <3>2. /\ Consistent(d) /\ Employed(d) /\ new \in CardIds /\ ColumnOf(db)[new] = "NONE"
          /\ RegisteredPorts(d) = RegisteredPorts(db)
          /\ ColumnOf(d) = [ColumnOf(db) EXCEPT ![new] = "TODO"]
      BY <1>1, <3>1, CreateEmployed, CreateConsistent
    <3> HIDE DEF d, new
    <3>3. RegisteredPorts(db') = RegisteredPorts(d) /\ ColumnOf(db') = ColumnOf(d)
      BY <1>2, <3>1, <3>2
    <3>4. \A c \in CardIds : ColumnOf(db')[c] = "DONE" <=> ColumnOf(db)[c] = "DONE"
      <4>1. DOMAIN ColumnOf(db) = CardIds
        BY DEF ColumnOf
      <4>2. QED
        BY <3>2, <3>3, <4>1
    <3>5. QED
      BY <2>2, <2>3, <2>6, <3>2, <3>3, <3>4
  <2>7. ASSUME NEW c, m = U!FromUser("ACK_CARD", c), HandleAckCard(fd, c)
        PROVE  Quiet
    <3> DEFINE d == card_doing(db, r, c)
    <3>1. From(fd) /\ db.offered_card_id = c /\ CanTake(db, r, c) /\ db' = clear_offered_card(d)
      BY <2>1, <2>7 DEF HandleAckCard
    <3>2. c \in CardIds
      <4>1. toBoard[r] \in Seq(U!UserMessage) /\ Ordered(toBoard[r])
        BY <2>1, Still DEF SystemInv, Voting, Fit
      <4>2. 1 \in DOMAIN toBoard[r] /\ m = toBoard[r][1]
        BY <2>1, <4>1
      <4>3. m.type = "ACK_CARD" /\ m.card = c
        BY <2>7 DEF U!FromUser
      <4>4. QED
        BY <4>1, <4>2, <4>3 DEF Ordered
    <3>3. /\ ColumnOf(db)[c] = "TODO"
          /\ RegisteredPorts(d) = RegisteredPorts(db)
          /\ ColumnOf(d) = [ColumnOf(db) EXCEPT ![c] = "DOING"]
      BY <1>1, <2>1, <3>1, <3>2, TakeEmployed
    <3> HIDE DEF d
    <3>4. RegisteredPorts(db') = RegisteredPorts(d) /\ ColumnOf(db') = ColumnOf(d)
      BY <3>1 DEF clear_offered_card, RegisteredPorts, ColumnOf, UsedSlots
    <3>5. \A x \in CardIds : ColumnOf(db')[x] = "DONE" <=> ColumnOf(db)[x] = "DONE"
      <4>1. DOMAIN ColumnOf(db) = CardIds
        BY DEF ColumnOf
      <4>2. QED
        BY <3>3, <3>4, <4>1
    <3>6. m.type = "ACK_CARD"
      BY <2>7 DEF U!FromUser
    <3>7. QED
      BY <2>2, <2>3, <3>3, <3>4, <3>5, <3>6
  <2>8. ASSUME NEW c, Done(c), HandleCardDone(fd, c) \/ Ignored(fd, CanFinish(db, r, c))
        PROVE  Quiet
    <3> DEFINE d == card_done(db, r, c)
    <3>1. c \in CardIds /\ CanFinish(db, r, c)
      BY <2>1, <2>8, DoneFits
    <3>2. From(fd) /\ IsRegistered(db, r) /\ SendAvailableCard(d, <<>>)
      BY <2>1, <2>8, <3>1 DEF HandleCardDone, Ignored
    <3>3. /\ Consistent(d) /\ Employed(d) /\ RegisteredPorts(d) = RegisteredPorts(db)
          /\ ColumnOf(d) = [ColumnOf(db) EXCEPT ![c] = "DONE"]
      BY <1>1, <3>1, <3>2, FinishEmployed
    <3> HIDE DEF d
    <3>4. RegisteredPorts(db') = RegisteredPorts(d) /\ ColumnOf(db') = ColumnOf(d)
      BY <1>2, <3>2, <3>3
    <3>5. \A x \in CardIds : Done(x) <=> x = c
      BY <2>8 DEF U!FromUser
    <3>6. \A x \in CardIds : ColumnOf(db')[x] = "DONE" <=> ColumnOf(db)[x] = "DONE" \/ x = c
      <4>1. DOMAIN ColumnOf(db) = CardIds
        BY DEF ColumnOf
      <4>2. QED
        BY <3>1, <3>3, <3>4, <4>1
    <3>7. QED
      BY <2>3, <3>3, <3>4, <3>5, <3>6
  <2>9. CASE m.type # "CARD_DONE" /\ \E ok : Ignored(fd, ok)
    BY <2>4, <2>9 DEF Ignored
  <2>10. \A c : U!FromUser("ACK_CARD", c).type = "ACK_CARD"
    BY DEF U!FromUser
  <2>11. QED
    BY <1>4, <2>5, <2>6, <2>7, <2>8, <2>9, <2>10 DEF Reads
<1>5. QED
  BY <1>3, <1>4, BoardKinds


\* At the start no card is worked on and none has ended.
LEMMA WorkStarts == ASSUME SystemInit PROVE Work!Init
<1>1. SystemInv
  BY SystemStarts
<1>2. db = DatabaseInit /\ U!Init
  BY DEF SystemInit, Init
<1>3. \A p \in Ports : utente[p] = U!utente_init /\ main[p] = U!At("off") /\ toBoard[p] = <<>>
  BY <1>2 DEF U!Init
<1>4. U!utente_init.state = "STARTING_P2P" /\ U!At("off").at = "off"
  BY AtPlace DEF U!utente_init, U!Places
<1>5. Doers = {}
  BY <1>3, <1>4 DEF Doers
<1>6. AtWorkOn = [c \in CardIds |-> NoPort]
  <2>1. AtWorkOn = Hands(Doers)
    BY <1>1, DoersKnown DEF OneDoer
  <2>2. QED
    BY <1>5, <2>1 DEF Hands
<1>7. InColumn(db, "DONE") = {}
  BY <1>2 DEF DatabaseInit, InColumn, UsedCards, FreeCard
<1>8. \A p \in Ports, c \in CardIds : ~Ended(p, c)
  BY <1>3, <1>4 DEF Ended, OnItsWay
<1>9. Finished = {}
  BY <1>7, <1>8 DEF Finished
<1>10. QED
  BY <1>6, <1>9 DEF Work!Init

\* Every step of the system is one of SharedWork or a stutter.
LEMMA WorkSteps ==
  ASSUME Undisturbed, SystemInv, SystemInv', [SystemNext]_allVars
  PROVE  [Work!Next]_(Work!vars)
<1>1. CASE BoardStep
  BY <1>1, BoardShares, SharesWell DEF Shares
<1>2. ASSUME NEW p \in Ports, UserStep(p) PROVE [Work!Next]_(Work!vars)
  BY <1>2, UserShares, SharesWell
<1>3. CASE UNCHANGED allVars
  <2>1. UNCHANGED <<db, utente, main, toBoard>>
    BY <1>3 DEF allVars, vars, userVars, channels
  <2>2. QED
    BY <2>1, NothingChanges, SharesWell DEF Shares
<1>4. QED
  BY <1>1, <1>2, <1>3 DEF SystemNext

\* The users share the cards out as SharedWork says (doc.md:26): a card is begun by
\* one of them, when nobody works, and once it has ended it is never begun again.
THEOREM WorkShared == Undisturbed => (SystemSpec => WorkedOnce)
<1> SUFFICES ASSUME Undisturbed PROVE SystemSpec => WorkedOnce
  OBVIOUS
<1>1. SystemInit => Work!Init
  BY WorkStarts
<1>2. SystemInv /\ SystemInv' /\ [SystemNext]_allVars => [Work!Next]_(Work!vars)
  BY WorkSteps
<1>3. SystemSpec => []SystemInv
  BY SystemSafe
<1>4. QED
  BY <1>1, <1>2, <1>3, PTL DEF WorkedOnce, SystemSpec

=============================================================================
