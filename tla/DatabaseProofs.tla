--------------------------- MODULE DatabaseProofs ---------------------------
(***************************************************************************)
(* What the operators of module Database return and preserve, for every    *)
(* value of the constants: the lemmas the proofs about the board rest on.  *)
(***************************************************************************)
EXTENDS Database, FiniteSetTheorems, FunctionTheorems, WellFoundedInduction, TLAPS

\* A nonempty set of naturals has a least element.
LEMMA LeastExists ==
  ASSUME NEW S, S \subseteq Nat, S # {}
  PROVE  \E i \in S : \A j \in S : i <= j
<1> DEFINE R == OpToRel(<, Nat)
<1>1. IsWellFoundedOn(R, Nat)
  BY NatLessThanWellFounded
<1>2. \A x, y \in Nat : <<y, x>> \in R <=> y < x
  BY DEF OpToRel
<1> HIDE DEF R
<1>3. PICK x \in S : \A y \in S : ~(<<y, x>> \in R)
  BY <1>1, WFMin
<1>4. \A y \in S : x <= y
  <2>1. TAKE y \in S
  <2>2. ~(y < x)
    BY <1>2, <1>3
  <2>3. QED
    BY <2>2
<1>5. QED
  BY <1>4

\* First finds an element whenever there is one.
LEMMA FirstFinds ==
  ASSUME NEW S, S \subseteq Nat
  PROVE  /\ S = {} => First(S) = Missing
         /\ S # {} => First(S) \in S /\ First(S) # Missing
<1>1. CASE S = {}
  BY <1>1 DEF First
<1>2. CASE S # {}
  <2>1. \E i \in S : \A j \in S : i <= j
    BY <1>2, LeastExists
  <2>2. First(S) \in S
    BY <1>2, <2>1 DEF First
  <2>3. First(S) \in Nat
    BY <2>2
  <2>4. First(S) # Missing
    BY <2>3 DEF Missing
  <2>5. QED
    BY <1>2, <2>2, <2>4
<1>3. QED
  BY <1>1, <1>2

-----------------------------------------------------------------------------
(* Lookups.                                                                *)

\* The slots in use are slots, the cards in use are card ids.
LEMMA UsedTypes ==
  ASSUME NEW d
  PROVE  /\ UsedSlots(d) \subseteq Slots
         /\ Slots \subseteq Nat
         /\ UsedCards(d) \subseteq CardIds
         /\ CardIds \subseteq Nat \ {0}
         /\ \A column : InColumn(d, column) \subseteq UsedCards(d)
BY LimitsAssumption, IdsAssumption DEF UsedSlots, Slots, UsedCards, InColumn

\* A port found is that of the slot found, and one that is in use is found.
LEMMA FindUser ==
  ASSUME NEW d, NEW port
  PROVE  /\ IsRegistered(d, port) => /\ find_user_index(d, port) \in UsedSlots(d)
                                     /\ d.users[find_user_index(d, port)].port = port
         /\ \A i \in UsedSlots(d) : d.users[i].port = port => IsRegistered(d, port)
<1> DEFINE S == {i \in UsedSlots(d) : d.users[i].port = port}
<1>1. S \subseteq Nat
  BY UsedTypes
<1>2. /\ S = {} => First(S) = Missing
      /\ S # {} => First(S) \in S /\ First(S) # Missing
  BY <1>1, FirstFinds
<1>3. find_user_index(d, port) = First(S)
  BY DEF find_user_index
<1>4. QED
  BY <1>2, <1>3 DEF IsRegistered

\* The same for a lookup by socket.
LEMMA FindSocket ==
  ASSUME NEW d, NEW fd
  PROVE  \/ find_user_index_by_socket(d, fd) = Missing
         \/ find_user_index_by_socket(d, fd) \in UsedSlots(d)
<1> DEFINE S == {i \in UsedSlots(d) : d.users[i].socket_fd = fd}
<1>1. S \subseteq Nat
  BY UsedTypes
<1>2. S = {} => First(S) = Missing
  BY <1>1, FirstFinds
<1>3. S # {} => First(S) \in S
  BY <1>1, FirstFinds
<1>4. QED
  BY <1>2, <1>3 DEF find_user_index_by_socket

\* A free slot found is a slot, and is free.
LEMMA FindFree ==
  ASSUME NEW d, find_free_user_index(d) # Missing
  PROVE  find_free_user_index(d) \in Slots \ UsedSlots(d)
<1>1. Slots \ UsedSlots(d) \subseteq Nat
  BY UsedTypes
<1>2. QED
  BY <1>1, FirstFinds DEF find_free_user_index

\* The next card is one in TODO, unless there is none.
LEMMA NextTodo ==
  ASSUME NEW d
  PROVE  /\ next_todo_card(d) = NoCard <=> InColumn(d, "TODO") = {}
         /\ next_todo_card(d) # NoCard => next_todo_card(d) \in InColumn(d, "TODO")
<1>1. InColumn(d, "TODO") \subseteq Nat
  BY UsedTypes
<1>2. QED
  BY <1>1, FirstFinds DEF next_todo_card, NoCard, Missing

-----------------------------------------------------------------------------
(* Updates of one cell.                                                    *)

\* Writing a user slot keeps the database typed and the rest of it.
LEMMA PutUserType ==
  ASSUME NEW d \in Databases, NEW i \in Slots, NEW user \in User
  PROVE  /\ PutUser(d, i, user) \in Databases
         /\ PutUser(d, i, user).users = [d.users EXCEPT ![i] = user]
         /\ PutUser(d, i, user).cards = d.cards
         /\ PutUser(d, i, user).num_users = d.num_users
         /\ PutUser(d, i, user).offered_card_id = d.offered_card_id
BY DEF PutUser, Databases

\* Writing a card keeps the database typed and the rest of it.
LEMMA PutCardType ==
  ASSUME NEW d \in Databases, NEW c \in CardIds, NEW card \in Card
  PROVE  /\ PutCard(d, c, card) \in Databases
         /\ PutCard(d, c, card).cards = [d.cards EXCEPT ![c] = card]
         /\ PutCard(d, c, card).users = d.users
         /\ PutCard(d, c, card).num_users = d.num_users
         /\ PutCard(d, c, card).offered_card_id = d.offered_card_id
BY DEF PutCard, Databases

-----------------------------------------------------------------------------
(* A consistent database: typed, one slot per port, the counter exact.     *)

PortsUnique(d) == \A i, j \in UsedSlots(d) : d.users[i].port = d.users[j].port => i = j

Counted(d) == d.num_users = Cardinality(UsedSlots(d))

Consistent(d) == d \in Databases /\ PortsUnique(d) /\ Counted(d)

\* The cards and the offer of e are those of d, up to the ages.
SameCards(d, e) == /\ e.offered_card_id = d.offered_card_id
                   /\ \A c \in CardIds : /\ e.cards[c].used = d.cards[c].used
                                          /\ e.cards[c].status = d.cards[c].status

\* The slots in use can be counted.
LEMMA SlotsFinite ==
  ASSUME NEW d
  PROVE  IsFiniteSet(UsedSlots(d)) /\ Cardinality(UsedSlots(d)) \in Nat
<1>1. IsFiniteSet(Slots)
  BY FS_Interval, LimitsAssumption DEF Slots
<1>2. IsFiniteSet(UsedSlots(d))
  BY <1>1, FS_Subset, UsedTypes
<1>3. QED
  BY <1>2, FS_CardinalityType

\* An update that keeps a slot's use and port keeps the database consistent.
LEMMA UpdateUser ==
  ASSUME NEW d, Consistent(d), NEW i \in UsedSlots(d), NEW user \in User,
         user.used = TRUE, user.port = d.users[i].port
  PROVE  /\ Consistent(PutUser(d, i, user))
         /\ UsedSlots(PutUser(d, i, user)) = UsedSlots(d)
         /\ RegisteredPorts(PutUser(d, i, user)) = RegisteredPorts(d)
<1> DEFINE e == PutUser(d, i, user)
<1>1. i \in Slots /\ d \in Databases
  BY UsedTypes DEF Consistent
<1>2. /\ e \in Databases
      /\ e.users = [d.users EXCEPT ![i] = user]
      /\ e.num_users = d.num_users
  BY <1>1, PutUserType
<1>3. d.users \in [Slots -> User] /\ d.users[i].used
  BY <1>1 DEF Databases, UsedSlots
<1>4. /\ \A j \in Slots : e.users[j].used = d.users[j].used
      /\ \A j \in Slots : e.users[j].port = d.users[j].port
  BY <1>1, <1>2, <1>3 DEF User
<1> HIDE DEF e
<1>5. UsedSlots(e) = UsedSlots(d)
  BY <1>4 DEF UsedSlots
<1>6. RegisteredPorts(e) = RegisteredPorts(d)
  BY <1>4, <1>5, UsedTypes DEF RegisteredPorts
<1>7. PortsUnique(e)
  BY <1>4, <1>5, UsedTypes DEF PortsUnique, Consistent
<1>8. Consistent(e)
  BY <1>2, <1>5, <1>7 DEF Consistent, Counted
<1>9. QED
  BY <1>5, <1>6, <1>8 DEF e

\* The setters keep the database consistent and touch no card.
LEMMA SetUserConsistent ==
  ASSUME NEW d, Consistent(d), NEW port, NEW status \in UserStatus,
         NEW card \in CardIds \cup {NoCard}
  PROVE  /\ Consistent(SetUser(d, port, status, card))
         /\ UsedSlots(SetUser(d, port, status, card)) = UsedSlots(d)
         /\ SetUser(d, port, status, card).cards = d.cards
         /\ SetUser(d, port, status, card).num_users = d.num_users
         /\ SetUser(d, port, status, card).offered_card_id = d.offered_card_id
<1>1. CASE ~IsRegistered(d, port)
  BY <1>1 DEF SetUser
<1>2. CASE IsRegistered(d, port)
  <2> DEFINE i == find_user_index(d, port)
             user == [d.users[i] EXCEPT !.status = status, !.assigned_card_id = card,
                                        !.ping_age = 0]
  <2>1. i \in UsedSlots(d) /\ i \in Slots
    BY <1>2, FindUser, UsedTypes
  <2>2. d.users[i] \in User /\ d.users[i].used
    BY <2>1 DEF Consistent, Databases, UsedSlots
  <2>3. 0 \in 0 .. PING_TIMEOUT
    BY TimeoutsAssumption
  <2>4. user \in User /\ user.used = TRUE /\ user.port = d.users[i].port
    <3>1. d.users[i].used = TRUE
      BY <2>2 DEF User
    <3>2. user.used = TRUE /\ user.port = d.users[i].port
      BY <2>2, <3>1 DEF User
    <3>3. user \in User
      BY <2>2, <2>3 DEF User
    <3>4. QED
      BY <3>2, <3>3
  <2>5. SetUser(d, port, status, card) = PutUser(d, i, user)
    BY <1>2 DEF SetUser, UserAt
  <2> HIDE DEF user, i
  <2>6. /\ Consistent(PutUser(d, i, user))
        /\ UsedSlots(PutUser(d, i, user)) = UsedSlots(d)
    BY <2>1, <2>4, UpdateUser
  <2>7. /\ PutUser(d, i, user).cards = d.cards
        /\ PutUser(d, i, user).num_users = d.num_users
        /\ PutUser(d, i, user).offered_card_id = d.offered_card_id
    BY <2>1, <2>4, PutUserType DEF Consistent
  <2>8. QED
    BY <2>5, <2>6, <2>7
<1>3. QED
  BY <1>1, <1>2

\* An update of a card keeps the database consistent and touches no user.
LEMMA PutCardConsistent ==
  ASSUME NEW d, Consistent(d), NEW c \in CardIds, NEW card \in Card
  PROVE  /\ Consistent(PutCard(d, c, card))
         /\ UsedSlots(PutCard(d, c, card)) = UsedSlots(d)
<1> DEFINE e == PutCard(d, c, card)
<1>1. e \in Databases /\ e.users = d.users /\ e.num_users = d.num_users
  BY PutCardType DEF Consistent
<1> HIDE DEF e
<1>2. UsedSlots(e) = UsedSlots(d)
  BY <1>1 DEF UsedSlots
<1>3. Consistent(e)
  BY <1>1, <1>2 DEF Consistent, PortsUnique, Counted
<1>4. QED
  BY <1>2, <1>3 DEF e

-----------------------------------------------------------------------------
(* The operations on users.                                                *)

\* A cleared slot and a cleared card are typed, and free.
LEMMA FreeCells ==
  /\ FreeSlot \in User /\ FreeSlot.used = FALSE
  /\ FreeCard \in Card /\ FreeCard.used = FALSE
<1>1. 0 \in 0 .. PING_TIMEOUT /\ 0 \in 0 .. WORKING_TIMEOUT
  BY TimeoutsAssumption
<1>2. FreeSlot \in User /\ FreeSlot.used = FALSE
  BY <1>1 DEF User, FreeSlot, UserStatus
<1>3. FreeCard \in Card /\ FreeCard.used = FALSE
  BY <1>1 DEF Card, FreeCard, Columns, NoPort
<1>4. QED
  BY <1>2, <1>3

\* database_add_user keeps the ports apart and the counter exact.
LEMMA AddUserConsistent ==
  ASSUME NEW d, Consistent(d), NEW fd \in Fds, NEW port \in Ports, CanAddUser(d, port)
  PROVE  /\ Consistent(add_user(d, fd, port))
         /\ add_user(d, fd, port).cards = d.cards
         /\ add_user(d, fd, port).offered_card_id = d.offered_card_id
         /\ add_user(d, fd, port).num_users = d.num_users + 1
<1> DEFINE i == find_free_user_index(d)
           user == [FreeSlot EXCEPT !.used = TRUE, !.socket_fd = fd, !.port = port,
                                    !.status = "IDLE"]
           e == PutUser(d, i, user)
           f == [e EXCEPT !.num_users = @ + 1]
<1>1. i \in Slots \ UsedSlots(d)
  BY FindFree DEF CanAddUser
<1>2. user \in User /\ user.used = TRUE /\ user.port = port
  <2>1. "IDLE" \in UserStatus
    BY DEF UserStatus
  <2>2. QED
    BY <2>1, FreeCells DEF User
<1> HIDE DEF i, user
<1>3. /\ e \in Databases
      /\ e.users = [d.users EXCEPT ![i] = user]
      /\ e.cards = d.cards
      /\ e.num_users = d.num_users
      /\ e.offered_card_id = d.offered_card_id
  BY <1>1, <1>2, PutUserType DEF Consistent
<1> HIDE DEF e
<1>4. /\ f \in Databases
      /\ f.users = [d.users EXCEPT ![i] = user]
      /\ f.cards = d.cards
      /\ f.num_users = d.num_users + 1
      /\ f.offered_card_id = d.offered_card_id
  BY <1>3 DEF Databases
<1>5. add_user(d, fd, port) = f
  BY DEF add_user, f, e, i, user
<1> HIDE DEF f
<1>6. d.users \in [Slots -> User]
  BY DEF Consistent, Databases
<1>7. /\ f.users[i].used = TRUE /\ f.users[i].port = port
      /\ \A j \in Slots \ {i} : f.users[j] = d.users[j]
  BY <1>1, <1>2, <1>4, <1>6
<1>8. UsedSlots(f) = UsedSlots(d) \cup {i}
  BY <1>1, <1>7 DEF UsedSlots
<1>9. \A j \in UsedSlots(d) : d.users[j].port # port
  BY FindUser DEF CanAddUser
<1>10. PortsUnique(f)
  BY <1>1, <1>7, <1>8, <1>9, UsedTypes DEF PortsUnique, Consistent
<1>11. Cardinality(UsedSlots(f)) = Cardinality(UsedSlots(d)) + 1
  BY <1>1, <1>8, SlotsFinite, FS_AddElement
<1>12. Consistent(f)
  BY <1>4, <1>10, <1>11 DEF Consistent, Counted
<1>13. QED
  BY <1>4, <1>5, <1>12

\* database_remove_user keeps the counter exact, and does nothing twice.
LEMMA RemoveUserConsistent ==
  ASSUME NEW d, Consistent(d), NEW port
  PROVE  /\ Consistent(remove_user(d, port))
         /\ remove_user(d, port).cards = d.cards
<1>1. CASE ~IsRegistered(d, port)
  BY <1>1 DEF remove_user
<1>2. CASE IsRegistered(d, port)
  <2> DEFINE i == find_user_index(d, port)
             e == PutUser(d, i, FreeSlot)
             f == [e EXCEPT !.num_users = @ - 1]
  <2>1. i \in UsedSlots(d) /\ i \in Slots
    BY <1>2, FindUser, UsedTypes
  <2>2. FreeSlot \in User /\ FreeSlot.used = FALSE
    BY FreeCells
  <2> HIDE DEF i
  <2>3. /\ e \in Databases
        /\ e.users = [d.users EXCEPT ![i] = FreeSlot]
        /\ e.cards = d.cards
        /\ e.num_users = d.num_users
    BY <2>1, <2>2, PutUserType DEF Consistent
  <2> HIDE DEF e
  <2>4. /\ f \in Databases
        /\ f.users = [d.users EXCEPT ![i] = FreeSlot]
        /\ f.cards = d.cards
        /\ f.num_users = d.num_users - 1
    BY <2>3 DEF Databases
  <2>5. remove_user(d, port) = f
    BY <1>2 DEF remove_user, f, e, i
  <2> HIDE DEF f
  <2>6. d.users \in [Slots -> User]
    BY DEF Consistent, Databases
  <2>7. /\ f.users[i].used = FALSE
        /\ \A j \in Slots \ {i} : f.users[j] = d.users[j]
    BY <2>1, <2>2, <2>4, <2>6
  <2>8. UsedSlots(f) = UsedSlots(d) \ {i}
    BY <2>1, <2>7 DEF UsedSlots
  <2>9. PortsUnique(f)
    BY <2>7, <2>8, UsedTypes DEF PortsUnique, Consistent
  <2>10. Cardinality(UsedSlots(f)) = Cardinality(UsedSlots(d)) - 1
    BY <2>1, <2>8, SlotsFinite, FS_RemoveElement
  <2>11. Consistent(f)
    BY <2>4, <2>9, <2>10 DEF Consistent, Counted
  <2>12. QED
    BY <2>4, <2>5, <2>11
<1>3. QED
  BY <1>1, <1>2

\* A registered user's card is a card id or none.
LEMMA AssignedCard ==
  ASSUME NEW d, Consistent(d), NEW port, IsRegistered(d, port)
  PROVE  UserAt(d, port).assigned_card_id \in CardIds \cup {NoCard}
<1>1. find_user_index(d, port) \in Slots
  BY FindUser, UsedTypes
<1>2. UserAt(d, port) \in User
  BY <1>1 DEF UserAt, Consistent, Databases
<1>3. QED
  BY <1>2 DEF User

\* Setting and clearing a ping touch no card and no counter.
LEMMA PingConsistent ==
  ASSUME NEW d, Consistent(d), NEW port
  PROVE  /\ Consistent(user_set_ping(d, port)) /\ Consistent(user_clear_ping(d, port))
         /\ SameCards(d, user_set_ping(d, port)) /\ SameCards(d, user_clear_ping(d, port))
         /\ user_set_ping(d, port).num_users = d.num_users
         /\ user_clear_ping(d, port).num_users = d.num_users
<1> DEFINE c == UserAt(d, port).assigned_card_id
<1>1. CASE ~IsRegistered(d, port)
  BY <1>1 DEF SetUser, user_set_ping, user_clear_ping, SameCards
<1>2. CASE IsRegistered(d, port)
  <2>1. c \in CardIds \cup {NoCard}
    BY <1>2, AssignedCard
  <2>2. "PINGED" \in UserStatus /\ "ACTIVE" \in UserStatus
    BY DEF UserStatus
  <2> HIDE DEF c
  <2>3. /\ Consistent(SetUser(d, port, "PINGED", c))
        /\ SetUser(d, port, "PINGED", c).cards = d.cards
        /\ SetUser(d, port, "PINGED", c).num_users = d.num_users
        /\ SetUser(d, port, "PINGED", c).offered_card_id = d.offered_card_id
    BY <2>1, <2>2, SetUserConsistent
  <2>4. /\ Consistent(SetUser(d, port, "ACTIVE", c))
        /\ SetUser(d, port, "ACTIVE", c).cards = d.cards
        /\ SetUser(d, port, "ACTIVE", c).num_users = d.num_users
        /\ SetUser(d, port, "ACTIVE", c).offered_card_id = d.offered_card_id
    BY <2>1, <2>2, SetUserConsistent
  <2>5. /\ user_set_ping(d, port) = SetUser(d, port, "PINGED", c)
        /\ user_clear_ping(d, port) = SetUser(d, port, "ACTIVE", c)
    BY DEF user_set_ping, user_clear_ping, c
  <2>6. QED
    BY <2>3, <2>4, <2>5 DEF SameCards
<1>3. QED
  BY <1>1, <1>2

\* Giving a user a card, or freeing it, touches no card.
LEMMA AssignClearConsistent ==
  ASSUME NEW d, Consistent(d), NEW port, NEW c \in CardIds
  PROVE  /\ Consistent(user_assign_card(d, port, c)) /\ Consistent(user_clear_card(d, port))
         /\ user_assign_card(d, port, c).cards = d.cards
         /\ user_clear_card(d, port).cards = d.cards
         /\ user_clear_card(d, port).num_users = d.num_users
         /\ user_clear_card(d, port).offered_card_id = d.offered_card_id
<1>1. "IDLE" \in UserStatus /\ "ACTIVE" \in UserStatus
  BY DEF UserStatus
<1>2. c \in CardIds \cup {NoCard} /\ NoCard \in CardIds \cup {NoCard}
  OBVIOUS
<1>3. /\ Consistent(SetUser(d, port, "ACTIVE", c))
      /\ SetUser(d, port, "ACTIVE", c).cards = d.cards
  BY <1>1, <1>2, SetUserConsistent
<1>4. /\ Consistent(SetUser(d, port, "IDLE", NoCard))
      /\ SetUser(d, port, "IDLE", NoCard).cards = d.cards
      /\ SetUser(d, port, "IDLE", NoCard).num_users = d.num_users
      /\ SetUser(d, port, "IDLE", NoCard).offered_card_id = d.offered_card_id
  BY <1>1, <1>2, SetUserConsistent
<1>5. QED
  BY <1>3, <1>4 DEF user_assign_card, user_clear_card

-----------------------------------------------------------------------------
(* The operations on cards.                                                *)

\* Offering a card changes the offer and nothing else.
LEMMA OfferConsistent ==
  ASSUME NEW d, Consistent(d), NEW c \in CardIds \cup {NoCard}
  PROVE  /\ Consistent(set_offered_card(d, c))
         /\ set_offered_card(d, c).offered_card_id = c
         /\ set_offered_card(d, c).cards = d.cards
         /\ set_offered_card(d, c).num_users = d.num_users
<1> DEFINE e == set_offered_card(d, c)
<1>1. /\ e \in Databases
      /\ e.users = d.users
      /\ e.cards = d.cards
      /\ e.num_users = d.num_users
      /\ e.offered_card_id = c
  BY DEF set_offered_card, Consistent, Databases
<1> HIDE DEF e
<1>2. UsedSlots(e) = UsedSlots(d)
  BY <1>1 DEF UsedSlots
<1>3. Consistent(e)
  BY <1>1, <1>2 DEF Consistent, PortsUnique, Counted
<1>4. QED
  BY <1>1, <1>3 DEF e

\* Withdrawing the offer changes nothing else.
LEMMA ClearOfferConsistent ==
  ASSUME NEW d, Consistent(d)
  PROVE  /\ Consistent(clear_offered_card(d))
         /\ clear_offered_card(d).offered_card_id = NoCard
         /\ clear_offered_card(d).cards = d.cards
<1>1. clear_offered_card(d) = set_offered_card(d, NoCard)
  BY DEF clear_offered_card, set_offered_card
<1>2. NoCard \in CardIds \cup {NoCard}
  OBVIOUS
<1>3. QED
  BY <1>1, <1>2, OfferConsistent

\* Creation adds a card and leaves the others and the offer alone.
LEMMA CreateConsistent ==
  ASSUME NEW d, Consistent(d), NEW id, NEW column \in Columns, CanCreate(d, id)
  PROVE  /\ Consistent(create_card(d, id, column))
         /\ create_card(d, id, column).num_users = d.num_users
         /\ create_card(d, id, column).offered_card_id = d.offered_card_id
         /\ \A c \in UsedCards(d) : create_card(d, id, column).cards[c] = d.cards[c]
<1> DEFINE new == NewCardId(d, id)
           card == [FreeCard EXCEPT !.used = TRUE, !.status = column]
<1>1. new \in CardIds \ UsedCards(d)
  BY DEF CanCreate
<1>2. card \in Card
  BY FreeCells DEF Card
<1>3. create_card(d, id, column) = PutCard(d, new, card)
  BY DEF create_card
<1> HIDE DEF new, card
<1>4. Consistent(PutCard(d, new, card))
  BY <1>1, <1>2, PutCardConsistent
<1>5. /\ PutCard(d, new, card).cards = [d.cards EXCEPT ![new] = card]
      /\ PutCard(d, new, card).num_users = d.num_users
      /\ PutCard(d, new, card).offered_card_id = d.offered_card_id
  BY <1>1, <1>2, PutCardType DEF Consistent
<1>6. \A c \in UsedCards(d) : [d.cards EXCEPT ![new] = card][c] = d.cards[c]
  BY <1>1, UsedTypes DEF Consistent, Databases
<1>7. QED
  BY <1>3, <1>4, <1>5, <1>6

\* A card rewritten with another column, age and worker.
LEMMA RewriteCard ==
  ASSUME NEW d, Consistent(d), NEW c \in CardIds, NEW status \in Columns,
         NEW port \in Ports \cup {NoPort}
  PROVE  [d.cards[c] EXCEPT !.status = status, !.assigned_user_port = port, !.age = 0] \in Card
<1>1. d.cards[c] \in Card
  BY DEF Consistent, Databases
<1>2. 0 \in 0 .. WORKING_TIMEOUT
  BY TimeoutsAssumption
<1>3. QED
  BY <1>1, <1>2 DEF Card

\* A card taken is in DOING.
LEMMA TakeConsistent ==
  ASSUME NEW d, Consistent(d), NEW port \in Ports \cup {NoPort}, NEW c, CanTake(d, port, c)
  PROVE  /\ Consistent(card_doing(d, port, c))
         /\ c \in InColumn(card_doing(d, port, c), "DOING")
<1> DEFINE a == user_assign_card(d, port, c)
           card == [d.cards[c] EXCEPT !.status = "DOING", !.assigned_user_port = port, !.age = 0]
           e == PutCard(a, c, card)
<1>1. c \in CardIds /\ c \in UsedCards(d)
  BY UsedTypes DEF CanTake
<1>2. "DOING" \in Columns
  BY DEF Columns
<1>3. card \in Card
  BY <1>1, <1>2, RewriteCard
<1>4. Consistent(a)
  BY <1>1, AssignClearConsistent
<1>5. card.used /\ card.status = "DOING"
  <2>1. d.cards[c] \in Card /\ d.cards[c].used
    BY <1>1 DEF Consistent, Databases, UsedCards
  <2>2. QED
    BY <2>1 DEF Card
<1>6. card_doing(d, port, c) = e
  BY DEF card_doing
<1> HIDE DEF a, card
<1>7. Consistent(e)
  BY <1>1, <1>3, <1>4, PutCardConsistent
<1>8. e.cards = [a.cards EXCEPT ![c] = card] /\ a.cards \in [CardIds -> Card]
  BY <1>1, <1>3, <1>4, PutCardType DEF Consistent, Databases
<1>9. e.cards[c] = card
  BY <1>1, <1>8
<1>10. c \in InColumn(e, "DOING")
  BY <1>1, <1>5, <1>9 DEF InColumn, UsedCards
<1>11. QED
  BY <1>6, <1>7, <1>10

\* A card finished leaves the others and the offer alone.
LEMMA FinishConsistent ==
  ASSUME NEW d, Consistent(d), NEW port, NEW c, CanFinish(d, port, c)
  PROVE  /\ Consistent(card_done(d, port, c))
         /\ card_done(d, port, c).num_users = d.num_users
         /\ card_done(d, port, c).offered_card_id = d.offered_card_id
         /\ \A e \in CardIds \ {c} : card_done(d, port, c).cards[e] = d.cards[e]
<1> DEFINE card == [d.cards[c] EXCEPT !.status = "DONE", !.age = 0]
           a == PutCard(d, c, card)
<1>1. c \in CardIds
  BY UsedTypes DEF CanFinish
<1>2. card \in Card
  <2>1. d.cards[c] \in Card
    BY <1>1 DEF Consistent, Databases
  <2>2. 0 \in 0 .. WORKING_TIMEOUT /\ "DONE" \in Columns
    BY TimeoutsAssumption DEF Columns
  <2>3. QED
    BY <2>1, <2>2 DEF Card
<1>3. card_done(d, port, c) = user_clear_card(a, port)
  BY DEF card_done
<1> HIDE DEF card
<1>4. Consistent(a)
  BY <1>1, <1>2, PutCardConsistent
<1>5. /\ a.cards = [d.cards EXCEPT ![c] = card]
      /\ a.num_users = d.num_users
      /\ a.offered_card_id = d.offered_card_id
  BY <1>1, <1>2, PutCardType DEF Consistent
<1> HIDE DEF a
<1>6. /\ Consistent(user_clear_card(a, port))
      /\ user_clear_card(a, port).cards = a.cards
      /\ user_clear_card(a, port).num_users = a.num_users
      /\ user_clear_card(a, port).offered_card_id = a.offered_card_id
  BY <1>1, <1>4, AssignClearConsistent
<1>7. \A e \in CardIds \ {c} : a.cards[e] = d.cards[e]
  BY <1>5 DEF Consistent, Databases
<1>8. QED
  BY <1>3, <1>5, <1>6, <1>7

\* A card put back in TODO keeps the database consistent.
LEMMA BackToTodoConsistent ==
  ASSUME NEW d, Consistent(d), NEW c \in CardIds
  PROVE  Consistent(BackToTodo(d, c))
<1>1. "TODO" \in Columns /\ NoPort \in Ports \cup {NoPort}
  BY DEF Columns
<1>2. QED
  BY <1>1, RewriteCard, PutCardConsistent DEF BackToTodo

\* database_card_todo, whose user may have no card, keeps the database consistent.
LEMMA TodoConsistent ==
  ASSUME NEW d, Consistent(d), NEW port
  PROVE  Consistent(card_todo(d, port))
<1> DEFINE c == UserAt(d, port).assigned_card_id
           e == IF c \in InColumn(d, "DOING") THEN BackToTodo(d, c) ELSE d
<1>1. CASE ~IsRegistered(d, port) \/ c = NoCard
  BY <1>1 DEF card_todo
<1>2. CASE ~(~IsRegistered(d, port) \/ c = NoCard)
  <2>1. c \in CardIds
    BY <1>2, AssignedCard
  <2>2. Consistent(e)
    BY <2>1, BackToTodoConsistent
  <2>3. card_todo(d, port) = user_clear_card(e, port)
    BY <1>2 DEF card_todo
  <2> HIDE DEF e
  <2>4. QED
    BY <2>1, <2>2, <2>3, AssignClearConsistent
<1>3. QED
  BY <1>1, <1>2

\* database_move_card keeps the database consistent, wherever the card goes.
LEMMA MoveConsistent ==
  ASSUME NEW d, Consistent(d), NEW c, NEW column \in Columns,
         NEW port \in Ports \cup {NoPort}, CanMove(d, c, column, port)
  PROVE  Consistent(move_card(d, c, column, port))
<1>1. c \in CardIds
  BY UsedTypes DEF CanMove
<1>2. CASE column = "TODO"
  BY <1>1, <1>2, AssignClearConsistent, BackToTodoConsistent DEF move_card
<1>3. CASE column # "TODO"
  <2> DEFINE card == [d.cards[c] EXCEPT !.status = column, !.assigned_user_port = port,
                                        !.age = 0]
  <2>1. card \in Card
    BY <1>1, RewriteCard
  <2>2. Consistent(user_assign_card(d, port, c))
    BY <1>1, AssignClearConsistent
  <2>3. move_card(d, c, column, port) = PutCard(user_assign_card(d, port, c), c, card)
    BY <1>3 DEF move_card
  <2> HIDE DEF card
  <2>4. QED
    BY <1>1, <2>1, <2>2, <2>3, PutCardConsistent
<1>4. QED
  BY <1>2, <1>3

\* database_card_reset_timestamp changes an age and nothing else.
LEMMA ResetTimestampConsistent ==
  ASSUME NEW d, Consistent(d), NEW port
  PROVE  /\ Consistent(card_reset_timestamp(d, port))
         /\ SameCards(d, card_reset_timestamp(d, port))
         /\ card_reset_timestamp(d, port).num_users = d.num_users
<1> DEFINE c == UserAt(d, port).assigned_card_id
           card == [d.cards[c] EXCEPT !.age = 0]
<1>1. CASE ~(IsRegistered(d, port) /\ c \in InColumn(d, "DOING"))
  BY <1>1 DEF card_reset_timestamp, SameCards
<1>2. CASE IsRegistered(d, port) /\ c \in InColumn(d, "DOING")
  <2>1. c \in CardIds
    BY <1>2, UsedTypes
  <2>2. d.cards \in [CardIds -> Card] /\ d.cards[c] \in Card
    BY <2>1 DEF Consistent, Databases
  <2>3. 0 \in 0 .. WORKING_TIMEOUT
    BY TimeoutsAssumption
  <2>4. /\ card \in Card
        /\ card.used = d.cards[c].used
        /\ card.status = d.cards[c].status
    BY <2>2, <2>3 DEF Card
  <2>5. card_reset_timestamp(d, port) = PutCard(d, c, card)
    BY <1>2 DEF card_reset_timestamp
  <2> HIDE DEF c, card
  <2>6. Consistent(PutCard(d, c, card))
    BY <2>1, <2>4, PutCardConsistent
  <2>7. /\ PutCard(d, c, card).cards = [d.cards EXCEPT ![c] = card]
        /\ PutCard(d, c, card).num_users = d.num_users
        /\ PutCard(d, c, card).offered_card_id = d.offered_card_id
    BY <2>1, <2>4, PutCardType DEF Consistent
  <2>8. SameCards(d, PutCard(d, c, card))
    BY <2>1, <2>2, <2>4, <2>7 DEF SameCards
  <2>9. QED
    BY <2>5, <2>6, <2>7, <2>8
<1>3. QED
  BY <1>1, <1>2

\* Time changes the ages and nothing else.
LEMMA TimeConsistent ==
  ASSUME NEW d, Consistent(d)
  PROVE  /\ Consistent(OneSecondLater(d))
         /\ SameCards(d, OneSecondLater(d))
         /\ OneSecondLater(d).num_users = d.num_users
<1> DEFINE e == OneSecondLater(d)
           user(i) == IF d.users[i].status = "PINGED"
                      THEN [d.users[i] EXCEPT !.ping_age = Older(@, PING_TIMEOUT)]
                      ELSE d.users[i]
           card(c) == IF d.cards[c].used /\ d.cards[c].status = "DOING"
                      THEN [d.cards[c] EXCEPT !.age = Older(@, WORKING_TIMEOUT)]
                      ELSE d.cards[c]
<1>1. d.users \in [Slots -> User] /\ d.cards \in [CardIds -> Card] /\ d \in Databases
  BY DEF Consistent, Databases
<1>2. /\ \A n \in 0 .. PING_TIMEOUT : Older(n, PING_TIMEOUT) \in 0 .. PING_TIMEOUT
      /\ \A n \in 0 .. WORKING_TIMEOUT : Older(n, WORKING_TIMEOUT) \in 0 .. WORKING_TIMEOUT
  BY TimeoutsAssumption DEF Older
<1>3. ASSUME NEW i \in Slots
      PROVE  user(i) \in User /\ user(i).used = d.users[i].used /\ user(i).port = d.users[i].port
  <2>1. d.users[i] \in User
    BY <1>1
  <2>2. Older(d.users[i].ping_age, PING_TIMEOUT) \in 0 .. PING_TIMEOUT
    BY <1>2, <2>1 DEF User
  <2>3. QED
    BY <2>1, <2>2 DEF User
<1>4. ASSUME NEW c \in CardIds
      PROVE  card(c) \in Card /\ card(c).used = d.cards[c].used
                              /\ card(c).status = d.cards[c].status
  <2>1. d.cards[c] \in Card
    BY <1>1
  <2>2. Older(d.cards[c].age, WORKING_TIMEOUT) \in 0 .. WORKING_TIMEOUT
    BY <1>2, <2>1 DEF Card
  <2>3. QED
    BY <2>1, <2>2 DEF Card
<1>5. e = [d EXCEPT !.users = [i \in Slots |-> user(i)], !.cards = [c \in CardIds |-> card(c)]]
  BY DEF OneSecondLater
<1> HIDE DEF e, user, card
<1>6. /\ e.users = [i \in Slots |-> user(i)]
      /\ e.cards = [c \in CardIds |-> card(c)]
      /\ e.num_users = d.num_users
      /\ e.offered_card_id = d.offered_card_id
      /\ e \in Databases
  BY <1>1, <1>3, <1>4, <1>5 DEF Databases
<1>7. \A i \in Slots : e.users[i].used = d.users[i].used /\ e.users[i].port = d.users[i].port
  BY <1>3, <1>6
<1>8. UsedSlots(e) = UsedSlots(d)
  BY <1>7 DEF UsedSlots
<1>9. PortsUnique(e)
  BY <1>7, <1>8, UsedTypes DEF PortsUnique, Consistent
<1>10. Consistent(e)
  BY <1>6, <1>8, <1>9 DEF Consistent, Counted
<1>11. SameCards(d, e)
  BY <1>4, <1>6 DEF SameCards
<1>12. QED
  BY <1>6, <1>10, <1>11 DEF e

\* The database database_init leaves has no users and no offer.
LEMMA InitConsistent ==
  Consistent(DatabaseInit) /\ DatabaseInit.offered_card_id = NoCard /\ DatabaseInit.num_users = 0
<1> DEFINE d == DatabaseInit
<1>1. [FreeCard EXCEPT !.used = TRUE] \in Card
  BY FreeCells DEF Card
<1>2. d \in Databases /\ d.num_users = 0 /\ d.offered_card_id = NoCard
  BY <1>1, FreeCells DEF DatabaseInit, Databases
<1>3. UsedSlots(d) = {}
  BY DEF DatabaseInit, UsedSlots, FreeSlot
<1>4. PortsUnique(d) /\ Counted(d)
  BY <1>2, <1>3, FS_EmptySet DEF PortsUnique, Counted
<1>5. QED
  BY <1>2, <1>4 DEF Consistent

-----------------------------------------------------------------------------
(* What each operation writes: the slots in use, their owners and what     *)
(* they own.  A slot is free or belongs to a port; with one slot per port, *)
(* the slot a lookup finds is the only one.                                *)

Busy == {"ACTIVE", "PINGED"}

\* The slots and the cards of e are those of d, up to the ages, the offer and
\* the state of the pings.
SameBoard(d, e) ==
  /\ UsedSlots(e) = UsedSlots(d)
  /\ e.num_users = d.num_users
  /\ \A i \in UsedSlots(d) :
       /\ e.users[i].port = d.users[i].port
       /\ e.users[i].socket_fd = d.users[i].socket_fd
       /\ e.users[i].assigned_card_id = d.users[i].assigned_card_id
       /\ d.users[i].status \in Busy => e.users[i].status \in Busy
  /\ \A c \in CardIds :
       /\ e.cards[c].used = d.cards[c].used
       /\ e.cards[c].status = d.cards[c].status
       /\ e.cards[c].assigned_user_port = d.cards[c].assigned_user_port

\* The slot of a registered port.
LEMMA FindIndex ==
  ASSUME NEW d, PortsUnique(d), NEW i \in UsedSlots(d)
  PROVE  /\ IsRegistered(d, d.users[i].port)
         /\ find_user_index(d, d.users[i].port) = i
<1>1. IsRegistered(d, d.users[i].port)
  BY FindUser
<1>2. QED
  BY <1>1, FindUser DEF PortsUnique

\* The ports registered are those a lookup finds.
LEMMA RegisteredIff ==
  ASSUME NEW d, NEW port
  PROVE  port \in RegisteredPorts(d) <=> IsRegistered(d, port)
BY FindUser DEF RegisteredPorts

\* There are as many ports registered as slots in use.
LEMMA PortsCounted ==
  ASSUME NEW d, Consistent(d)
  PROVE  Cardinality(RegisteredPorts(d)) = d.num_users /\ IsFiniteSet(RegisteredPorts(d))
<1> DEFINE S == UsedSlots(d)
           T == RegisteredPorts(d)
           f == [i \in S |-> d.users[i].port]
<1>1. f \in [S -> T] /\ \A a, b \in S : f[a] = f[b] => a = b
  BY DEF Consistent, PortsUnique, RegisteredPorts
<1>2. \A t \in T : \E s \in S : f[s] = t
  BY DEF RegisteredPorts
<1> HIDE DEF f, S, T
<1>3. f \in Bijection(S, T)
  BY <1>1, <1>2, Fun_IsBij
<1>4. ExistsBijection(S, T)
  BY <1>3, Fun_ExistsBij
<1>5. IsFiniteSet(S)
  BY SlotsFinite DEF S
<1>6. IsFiniteSet(T) /\ Cardinality(T) = Cardinality(S)
  BY <1>4, <1>5, FS_Bijection
<1>7. QED
  BY <1>6 DEF S, T, Consistent, Counted

\* database_add_user fills a free slot.
LEMMA AddUserWrites ==
  ASSUME NEW d, Consistent(d), NEW fd \in Fds, NEW port \in Ports, CanAddUser(d, port)
  PROVE  \E i \in Slots \ UsedSlots(d) :
           /\ UsedSlots(add_user(d, fd, port)) = UsedSlots(d) \cup {i}
           /\ add_user(d, fd, port).users[i].port = port
           /\ add_user(d, fd, port).users[i].socket_fd = fd
           /\ add_user(d, fd, port).users[i].assigned_card_id = NoCard
           /\ add_user(d, fd, port).users[i].status = "IDLE"
           /\ \A j \in UsedSlots(d) : add_user(d, fd, port).users[j] = d.users[j]
<1> DEFINE i == find_free_user_index(d)
           user == [FreeSlot EXCEPT !.used = TRUE, !.socket_fd = fd, !.port = port,
                                    !.status = "IDLE"]
           e == add_user(d, fd, port)
<1>1. i \in Slots \ UsedSlots(d)
  BY FindFree DEF CanAddUser
<1>2. /\ user.used = TRUE /\ user.port = port /\ user.socket_fd = fd
      /\ user.assigned_card_id = NoCard /\ user.status = "IDLE"
  BY DEF FreeSlot
<1>3. d \in Databases /\ d.users \in [Slots -> User]
  BY DEF Consistent, Databases
<1>4. e.users = [d.users EXCEPT ![i] = user]
  BY <1>3 DEF add_user, PutUser, Databases
<1> HIDE DEF i, user, e
<1>5. e.users[i] = user /\ \A j \in Slots \ {i} : e.users[j] = d.users[j]
  BY <1>1, <1>3, <1>4
<1>6. UsedSlots(e) = UsedSlots(d) \cup {i}
  BY <1>1, <1>2, <1>5 DEF UsedSlots
<1>7. \A j \in UsedSlots(d) : e.users[j] = d.users[j]
  BY <1>1, <1>5, UsedTypes
<1>8. QED
  BY <1>1, <1>2, <1>5, <1>6, <1>7 DEF e

\* database_remove_user clears the slot of the port.
LEMMA RemoveUserWrites ==
  ASSUME NEW d, Consistent(d), NEW port, IsRegistered(d, port)
  PROVE  /\ UsedSlots(remove_user(d, port)) = UsedSlots(d) \ {find_user_index(d, port)}
         /\ \A j \in UsedSlots(d) \ {find_user_index(d, port)} :
              remove_user(d, port).users[j] = d.users[j]
         /\ remove_user(d, port).cards = d.cards
<1> DEFINE i == find_user_index(d, port)
           e == remove_user(d, port)
<1>1. i \in UsedSlots(d) /\ i \in Slots
  BY FindUser, UsedTypes
<1>2. d \in Databases /\ d.users \in [Slots -> User]
  BY DEF Consistent, Databases
<1>3. e.users = [d.users EXCEPT ![i] = FreeSlot] /\ e.cards = d.cards
  BY <1>2 DEF remove_user, PutUser, Databases
<1> HIDE DEF i, e
<1>4. e.users[i] = FreeSlot /\ \A j \in Slots \ {i} : e.users[j] = d.users[j]
  BY <1>1, <1>2, <1>3
<1>5. UsedSlots(e) = UsedSlots(d) \ {i}
  BY <1>1, <1>4, FreeCells DEF UsedSlots
<1>6. \A j \in UsedSlots(d) \ {i} : e.users[j] = d.users[j]
  BY <1>4, UsedTypes
<1>7. QED
  BY <1>3, <1>5, <1>6 DEF e, i

\* A setter writes the status and the card of the port's slot.
LEMMA SetUserWrites ==
  ASSUME NEW d, Consistent(d), NEW port, IsRegistered(d, port),
         NEW status \in UserStatus, NEW card \in CardIds \cup {NoCard}
  PROVE  LET i == find_user_index(d, port)
             e == SetUser(d, port, status, card)
         IN  /\ UsedSlots(e) = UsedSlots(d)
             /\ \A j \in UsedSlots(d) \ {i} : e.users[j] = d.users[j]
             /\ e.users[i].port = d.users[i].port
             /\ e.users[i].socket_fd = d.users[i].socket_fd
             /\ e.users[i].assigned_card_id = card
             /\ e.users[i].status = status
<1> DEFINE i == find_user_index(d, port)
           e == SetUser(d, port, status, card)
           user == [d.users[i] EXCEPT !.status = status, !.assigned_card_id = card,
                                      !.ping_age = 0]
<1>1. i \in UsedSlots(d) /\ i \in Slots
  BY FindUser, UsedTypes
<1>2. d \in Databases /\ d.users \in [Slots -> User]
  BY DEF Consistent, Databases
<1>3. e.users = [d.users EXCEPT ![i] = user]
  BY <1>2 DEF SetUser, PutUser, UserAt, Databases
<1>4. d.users[i] \in User
  BY <1>1, <1>2
<1>5. /\ user.port = d.users[i].port /\ user.socket_fd = d.users[i].socket_fd
      /\ user.assigned_card_id = card /\ user.status = status
  BY <1>4 DEF User
<1>6. UsedSlots(e) = UsedSlots(d)
  BY SetUserConsistent
<1> HIDE DEF i, e, user
<1>7. e.users[i] = user /\ \A j \in Slots \ {i} : e.users[j] = d.users[j]
  BY <1>1, <1>2, <1>3
<1>8. \A j \in UsedSlots(d) \ {i} : e.users[j] = d.users[j]
  BY <1>7, UsedTypes
<1>9. QED
  BY <1>5, <1>6, <1>7, <1>8 DEF i, e

\* A ping, asked or answered, leaves the board as it is.
LEMMA PingSameBoard ==
  ASSUME NEW d, Consistent(d), NEW port
  PROVE  SameBoard(d, user_set_ping(d, port)) /\ SameBoard(d, user_clear_ping(d, port))
<1> DEFINE c == UserAt(d, port).assigned_card_id
           i == find_user_index(d, port)
<1>1. CASE ~IsRegistered(d, port)
  BY <1>1 DEF SetUser, user_set_ping, user_clear_ping, SameBoard
<1>2. CASE IsRegistered(d, port)
  <2>1. c \in CardIds \cup {NoCard} /\ c = d.users[i].assigned_card_id
    <3>1. c \in CardIds \cup {NoCard}
      BY <1>2, AssignedCard
    <3>2. c = d.users[i].assigned_card_id
      BY DEF UserAt
    <3>3. QED BY <3>1, <3>2
  <2>2. Busy \subseteq UserStatus
    BY DEF UserStatus, Busy
  <2> HIDE DEF c
  <2>3. ASSUME NEW status \in Busy
        PROVE  SameBoard(d, SetUser(d, port, status, c))
    <3> DEFINE e == SetUser(d, port, status, c)
    <3>1. /\ UsedSlots(e) = UsedSlots(d)
          /\ \A j \in UsedSlots(d) \ {i} : e.users[j] = d.users[j]
          /\ e.users[i].port = d.users[i].port
          /\ e.users[i].socket_fd = d.users[i].socket_fd
          /\ e.users[i].assigned_card_id = c
          /\ e.users[i].status = status
      BY <1>2, <2>1, <2>2, SetUserWrites
    <3>2. e.cards = d.cards /\ e.num_users = d.num_users
      BY <2>1, <2>2, SetUserConsistent
    <3> HIDE DEF e, i
    <3>3. QED
      BY <2>1, <3>1, <3>2 DEF SameBoard, e, i
  <2>4. /\ user_set_ping(d, port) = SetUser(d, port, "PINGED", c)
        /\ user_clear_ping(d, port) = SetUser(d, port, "ACTIVE", c)
    BY DEF user_set_ping, user_clear_ping, c
  <2>5. QED
    BY <2>3, <2>4 DEF Busy
<1>3. QED
  BY <1>1, <1>2

\* Offering and withdrawing an offer leave the board as it is.
LEMMA OfferSameBoard ==
  ASSUME NEW d, Consistent(d), NEW c \in CardIds \cup {NoCard}
  PROVE  SameBoard(d, set_offered_card(d, c)) /\ SameBoard(d, clear_offered_card(d))
<1>1. \A e : e.users = d.users /\ e.cards = d.cards /\ e.num_users = d.num_users
               => SameBoard(d, e)
  BY DEF SameBoard, UsedSlots
<1>2. d \in Databases
  BY DEF Consistent
<1>3. /\ set_offered_card(d, c).users = d.users
      /\ set_offered_card(d, c).cards = d.cards
      /\ set_offered_card(d, c).num_users = d.num_users
      /\ clear_offered_card(d).users = d.users
      /\ clear_offered_card(d).cards = d.cards
      /\ clear_offered_card(d).num_users = d.num_users
  BY <1>2 DEF set_offered_card, clear_offered_card, Databases
<1>4. QED
  BY <1>1, <1>3

\* So does the timestamp of a card.
LEMMA ResetSameBoard ==
  ASSUME NEW d, Consistent(d), NEW port
  PROVE  SameBoard(d, card_reset_timestamp(d, port))
<1> DEFINE c == UserAt(d, port).assigned_card_id
           card == [d.cards[c] EXCEPT !.age = 0]
           e == PutCard(d, c, card)
<1>1. CASE ~(IsRegistered(d, port) /\ c \in InColumn(d, "DOING"))
  BY <1>1 DEF card_reset_timestamp, SameBoard
<1>2. CASE IsRegistered(d, port) /\ c \in InColumn(d, "DOING")
  <2>1. c \in CardIds /\ d \in Databases
    BY <1>2, UsedTypes DEF Consistent
  <2>2. d.cards \in [CardIds -> Card] /\ d.cards[c] \in Card
    BY <2>1 DEF Databases
  <2>3. /\ card.used = d.cards[c].used /\ card.status = d.cards[c].status
        /\ card.assigned_user_port = d.cards[c].assigned_user_port
    BY <2>2 DEF Card
  <2>4. card_reset_timestamp(d, port) = e
    BY <1>2 DEF card_reset_timestamp
  <2>5. /\ e.users = d.users /\ e.num_users = d.num_users
        /\ e.cards = [d.cards EXCEPT ![c] = card]
    BY <2>1 DEF PutCard, Databases
  <2> HIDE DEF c, card, e
  <2>6. UsedSlots(e) = UsedSlots(d)
    BY <2>5 DEF UsedSlots
  <2>7. SameBoard(d, e)
    BY <2>1, <2>2, <2>3, <2>5, <2>6 DEF SameBoard
  <2>8. QED
    BY <2>4, <2>7
<1>3. QED
  BY <1>1, <1>2

\* And so does time.
LEMMA TimeSameBoard ==
  ASSUME NEW d, Consistent(d)
  PROVE  SameBoard(d, OneSecondLater(d))
<1> DEFINE e == OneSecondLater(d)
           user(i) == IF d.users[i].status = "PINGED"
                      THEN [d.users[i] EXCEPT !.ping_age = Older(@, PING_TIMEOUT)]
                      ELSE d.users[i]
           card(c) == IF d.cards[c].used /\ d.cards[c].status = "DOING"
                      THEN [d.cards[c] EXCEPT !.age = Older(@, WORKING_TIMEOUT)]
                      ELSE d.cards[c]
<1>1. d.users \in [Slots -> User] /\ d.cards \in [CardIds -> Card] /\ d \in Databases
  BY DEF Consistent, Databases
<1>2. \A i \in Slots : /\ user(i).used = d.users[i].used
                       /\ user(i).port = d.users[i].port
                       /\ user(i).socket_fd = d.users[i].socket_fd
                       /\ user(i).assigned_card_id = d.users[i].assigned_card_id
                       /\ user(i).status = d.users[i].status
  BY <1>1 DEF User
<1>3. \A c \in CardIds : /\ card(c).used = d.cards[c].used
                         /\ card(c).status = d.cards[c].status
                         /\ card(c).assigned_user_port = d.cards[c].assigned_user_port
  BY <1>1 DEF Card
<1>4. e = [d EXCEPT !.users = [i \in Slots |-> user(i)], !.cards = [c \in CardIds |-> card(c)]]
  BY DEF OneSecondLater
<1> HIDE DEF e, user, card
<1>5. /\ e.users = [i \in Slots |-> user(i)]
      /\ e.cards = [c \in CardIds |-> card(c)]
      /\ e.num_users = d.num_users
  BY <1>1, <1>4 DEF Databases
<1>6. /\ \A i \in Slots : e.users[i] = user(i)
      /\ \A c \in CardIds : e.cards[c] = card(c)
  BY <1>5
<1>7. UsedSlots(e) = UsedSlots(d)
  BY <1>2, <1>6 DEF UsedSlots
<1>8. QED
  BY <1>2, <1>3, <1>5, <1>6, <1>7, UsedTypes DEF SameBoard, e

\* database_create_card fills an unused cell.
LEMMA CreateWrites ==
  ASSUME NEW d, Consistent(d), NEW id, NEW column \in Columns, CanCreate(d, id)
  PROVE  LET e == create_card(d, id, column)
             new == NewCardId(d, id)
         IN  /\ new \in CardIds \ UsedCards(d)
             /\ e.users = d.users
             /\ \A c \in CardIds \ {new} : e.cards[c] = d.cards[c]
             /\ e.cards[new].used
             /\ e.cards[new].status = column
<1> DEFINE new == NewCardId(d, id)
           card == [FreeCard EXCEPT !.used = TRUE, !.status = column]
           e == create_card(d, id, column)
<1>1. new \in CardIds \ UsedCards(d)
  BY DEF CanCreate
<1>2. card.used /\ card.status = column
  BY DEF FreeCard
<1>3. d \in Databases /\ d.cards \in [CardIds -> Card]
  BY DEF Consistent, Databases
<1>4. e.users = d.users /\ e.cards = [d.cards EXCEPT ![new] = card]
  BY <1>3 DEF create_card, PutCard, Databases
<1> HIDE DEF new, card, e
<1>5. e.cards[new] = card /\ \A c \in CardIds \ {new} : e.cards[c] = d.cards[c]
  BY <1>1, <1>3, <1>4
<1>6. QED
  BY <1>1, <1>2, <1>4, <1>5 DEF new, e

\* database_card_doing gives the card to the user and the user to the card.
LEMMA TakeWrites ==
  ASSUME NEW d, Consistent(d), NEW port \in Ports \cup {NoPort}, NEW c, CanTake(d, port, c)
  PROVE  LET e == card_doing(d, port, c)
             i == find_user_index(d, port)
         IN  /\ c \in CardIds
             /\ UsedSlots(e) = UsedSlots(d)
             /\ \A j \in UsedSlots(d) \ {i} : e.users[j] = d.users[j]
             /\ e.users[i].port = d.users[i].port
             /\ e.users[i].socket_fd = d.users[i].socket_fd
             /\ e.users[i].assigned_card_id = c
             /\ e.users[i].status = "ACTIVE"
             /\ \A x \in CardIds \ {c} : e.cards[x] = d.cards[x]
             /\ e.cards[c].used
             /\ e.cards[c].status = "DOING"
             /\ e.cards[c].assigned_user_port = port
<1> DEFINE i == find_user_index(d, port)
           a == user_assign_card(d, port, c)
           card == [d.cards[c] EXCEPT !.status = "DOING", !.assigned_user_port = port, !.age = 0]
           e == PutCard(a, c, card)
<1>1. c \in CardIds /\ d.cards[c].used /\ IsRegistered(d, port)
  BY UsedTypes DEF CanTake, InColumn, UsedCards
<1>2. "ACTIVE" \in UserStatus /\ c \in CardIds \cup {NoCard} /\ "DOING" \in Columns
  BY <1>1 DEF UserStatus, Columns
<1>3. /\ UsedSlots(a) = UsedSlots(d)
      /\ \A j \in UsedSlots(d) \ {i} : a.users[j] = d.users[j]
      /\ a.users[i].port = d.users[i].port
      /\ a.users[i].socket_fd = d.users[i].socket_fd
      /\ a.users[i].assigned_card_id = c
      /\ a.users[i].status = "ACTIVE"
  BY <1>1, <1>2, SetUserWrites DEF user_assign_card
<1>4. Consistent(a) /\ a.cards = d.cards
  BY <1>1, AssignClearConsistent
<1>5. /\ card \in Card /\ card.used /\ card.status = "DOING"
      /\ card.assigned_user_port = port
  <2>1. d.cards[c] \in Card
    BY <1>1 DEF Consistent, Databases
  <2>2. QED
    BY <1>1, <1>2, <2>1, RewriteCard DEF Card
<1>6. card_doing(d, port, c) = e
  BY DEF card_doing
<1> HIDE DEF i, a, card
<1>7. e.users = a.users /\ e.cards = [a.cards EXCEPT ![c] = card]
  BY <1>1, <1>4, <1>5, PutCardType DEF Consistent
<1> HIDE DEF e
<1>8. a.cards \in [CardIds -> Card]
  BY <1>4 DEF Consistent, Databases
<1>9. e.cards[c] = card /\ \A x \in CardIds \ {c} : e.cards[x] = d.cards[x]
  BY <1>1, <1>4, <1>7, <1>8
<1>10. UsedSlots(e) = UsedSlots(d)
  BY <1>3, <1>7 DEF UsedSlots
<1>11. QED
  BY <1>1, <1>3, <1>5, <1>6, <1>7, <1>9, <1>10 DEF i

\* database_card_done ends the card and frees its user.
LEMMA FinishWrites ==
  ASSUME NEW d, Consistent(d), NEW port, IsRegistered(d, port), NEW c, CanFinish(d, port, c)
  PROVE  LET e == card_done(d, port, c)
             i == find_user_index(d, port)
         IN  /\ c \in CardIds
             /\ UsedSlots(e) = UsedSlots(d)
             /\ \A j \in UsedSlots(d) \ {i} : e.users[j] = d.users[j]
             /\ e.users[i].port = d.users[i].port
             /\ e.users[i].socket_fd = d.users[i].socket_fd
             /\ e.users[i].assigned_card_id = NoCard
             /\ e.users[i].status = "IDLE"
             /\ \A x \in CardIds \ {c} : e.cards[x] = d.cards[x]
             /\ e.cards[c].used
             /\ e.cards[c].status = "DONE"
<1> DEFINE i == find_user_index(d, port)
           card == [d.cards[c] EXCEPT !.status = "DONE", !.age = 0]
           a == PutCard(d, c, card)
           e == user_clear_card(a, port)
<1>1. c \in CardIds /\ d.cards[c].used
  BY UsedTypes DEF CanFinish, InColumn, UsedCards
<1>2. card \in Card /\ card.used /\ card.status = "DONE"
  <2>1. d.cards[c] \in Card
    BY <1>1 DEF Consistent, Databases
  <2>2. 0 \in 0 .. WORKING_TIMEOUT /\ "DONE" \in Columns
    BY TimeoutsAssumption DEF Columns
  <2>3. QED
    BY <1>1, <2>1, <2>2 DEF Card
<1>3. card_done(d, port, c) = e
  BY DEF card_done
<1> HIDE DEF card
<1>4. Consistent(a) /\ UsedSlots(a) = UsedSlots(d)
  BY <1>1, <1>2, PutCardConsistent
<1>5. a.users = d.users /\ a.cards = [d.cards EXCEPT ![c] = card]
  BY <1>1, <1>2, PutCardType DEF Consistent
<1> HIDE DEF a
<1>6. find_user_index(a, port) = i /\ IsRegistered(a, port)
  BY <1>4, <1>5 DEF find_user_index, IsRegistered
<1> HIDE DEF i
<1>7. "IDLE" \in UserStatus /\ NoCard \in CardIds \cup {NoCard}
  BY DEF UserStatus
<1>8. /\ UsedSlots(e) = UsedSlots(a)
      /\ \A j \in UsedSlots(a) \ {i} : e.users[j] = a.users[j]
      /\ e.users[i].port = a.users[i].port
      /\ e.users[i].socket_fd = a.users[i].socket_fd
      /\ e.users[i].assigned_card_id = NoCard /\ e.users[i].status = "IDLE"
  BY <1>4, <1>6, <1>7, SetUserWrites DEF user_clear_card
<1>9. e.cards = a.cards
  BY <1>1, <1>4, AssignClearConsistent
<1>10. a.cards[c] = card /\ \A x \in CardIds \ {c} : a.cards[x] = d.cards[x]
  BY <1>1, <1>5 DEF Consistent, Databases
<1> HIDE DEF e
<1>11. QED
  BY <1>1, <1>2, <1>3, <1>4, <1>5, <1>8, <1>9, <1>10 DEF i

\* database_card_todo frees the user and, if its card is in DOING, puts it back.
LEMMA TodoWrites ==
  ASSUME NEW d, Consistent(d), NEW port, IsRegistered(d, port)
  PROVE  LET e == card_todo(d, port)
             i == find_user_index(d, port)
             c == d.users[i].assigned_card_id
         IN  /\ UsedSlots(e) = UsedSlots(d)
             /\ find_user_index(e, port) = i
             /\ \A j \in UsedSlots(d) \ {i} : e.users[j] = d.users[j]
             /\ \A x \in CardIds :
                  IF x = c /\ x \in InColumn(d, "DOING")
                  THEN e.cards[x].used /\ e.cards[x].status = "TODO"
                  ELSE e.cards[x] = d.cards[x]
<1> DEFINE i == find_user_index(d, port)
           c == UserAt(d, port).assigned_card_id
           e == card_todo(d, port)
<1>1. c = d.users[i].assigned_card_id
  BY DEF UserAt
<1>2. CASE c = NoCard
  <2>1. e = d
    BY <1>2 DEF card_todo
  <2>2. \A x \in CardIds : x # c
    BY <1>2, IdsAssumption DEF NoCard
  <2>3. QED
    BY <1>1, <2>1, <2>2
<1>3. CASE c # NoCard
  <2> DEFINE a == IF c \in InColumn(d, "DOING") THEN BackToTodo(d, c) ELSE d
  <2>1. c \in CardIds
    BY <1>3, AssignedCard
  <2>2. /\ Consistent(a)
        /\ a.users = d.users
        /\ \A x \in CardIds : IF x = c /\ x \in InColumn(d, "DOING")
                              THEN a.cards[x].used /\ a.cards[x].status = "TODO"
                              ELSE a.cards[x] = d.cards[x]
    <3>1. CASE c \notin InColumn(d, "DOING")
      BY <3>1
    <3>2. CASE c \in InColumn(d, "DOING")
      <4> DEFINE card == [d.cards[c] EXCEPT !.status = "TODO", !.assigned_user_port = NoPort,
                                            !.age = 0]
      <4>1. d.cards[c] \in Card /\ d.cards[c].used
        BY <2>1, <3>2 DEF Consistent, Databases, InColumn, UsedCards
      <4>2. card \in Card
        BY <2>1, RewriteCard DEF Columns
      <4>3. card.used /\ card.status = "TODO"
        BY <4>1 DEF Card
      <4>4. a = PutCard(d, c, card)
        BY <3>2 DEF BackToTodo
      <4> HIDE DEF card, c, a
      <4>5. Consistent(a) /\ a.users = d.users /\ a.cards = [d.cards EXCEPT ![c] = card]
        BY <2>1, <4>2, <4>4, PutCardConsistent, PutCardType DEF Consistent
      <4>6. a.cards[c] = card /\ \A x \in CardIds \ {c} : a.cards[x] = d.cards[x]
        BY <2>1, <4>5 DEF Consistent, Databases
      <4>7. QED
        BY <3>2, <4>3, <4>5, <4>6
    <3>3. QED
      BY <3>1, <3>2
  <2>3. e = user_clear_card(a, port)
    BY <1>3 DEF card_todo
  <2> HIDE DEF a
  <2>4. UsedSlots(a) = UsedSlots(d)
    BY <2>2 DEF UsedSlots
  <2>5. find_user_index(a, port) = i /\ IsRegistered(a, port)
    BY <2>2, <2>4 DEF find_user_index, IsRegistered
  <2> HIDE DEF c, e, i
  <2>6. "IDLE" \in UserStatus /\ NoCard \in CardIds \cup {NoCard}
    BY DEF UserStatus
  <2>7. /\ UsedSlots(e) = UsedSlots(a)
        /\ \A j \in UsedSlots(a) \ {i} : e.users[j] = a.users[j]
        /\ e.users[i].port = a.users[i].port
    BY <2>2, <2>3, <2>5, <2>6, SetUserWrites DEF user_clear_card
  <2>8. e.cards = a.cards
    BY <2>1, <2>2, <2>3, AssignClearConsistent
  <2>9. find_user_index(e, port) = i
    <3>1. \A j \in UsedSlots(d) : e.users[j].port = d.users[j].port
      BY <2>2, <2>4, <2>7
    <3>2. {j \in UsedSlots(e) : e.users[j].port = port} = {j \in UsedSlots(d) : d.users[j].port = port}
      BY <2>4, <2>7, <3>1
    <3>3. QED
      BY <3>2 DEF find_user_index, i
  <2>10. QED
    BY <1>1, <2>2, <2>4, <2>7, <2>8, <2>9 DEF e, i
<1>4. QED
  BY <1>2, <1>3

\* database_move_card puts the card in the column asked for.
LEMMA MoveWrites ==
  ASSUME NEW d, Consistent(d), NEW c, NEW column \in Columns,
         NEW port \in Ports \cup {NoPort}, CanMove(d, c, column, port)
  PROVE  LET e == move_card(d, c, column, port)
         IN  /\ c \in CardIds
             /\ e.cards[c].status = column
             /\ \A x \in CardIds \ {c} : e.cards[x] = d.cards[x]
<1> DEFINE owner == IF column = "TODO" THEN NoPort ELSE port
           a == IF column = "TODO" THEN user_clear_card(d, d.cards[c].assigned_user_port)
                ELSE user_assign_card(d, port, c)
           card(x) == [x.cards[c] EXCEPT !.status = column, !.assigned_user_port = owner, !.age = 0]
<1>1. c \in CardIds
  BY UsedTypes DEF CanMove
<1>2. Consistent(a) /\ a.cards = d.cards
  BY <1>1, AssignClearConsistent
<1>3. card(a) \in Card /\ card(a).status = column
  <2>1. a.cards[c] \in Card /\ owner \in Ports \cup {NoPort}
    BY <1>1, <1>2 DEF Consistent, Databases
  <2>2. QED
    BY <1>1, <1>2, <2>1, RewriteCard DEF Card
<1>4. move_card(d, c, column, port) = PutCard(a, c, card(a))
  BY <1>2 DEF move_card, BackToTodo
<1> HIDE DEF a, card
<1>5. PutCard(a, c, card(a)).cards = [d.cards EXCEPT ![c] = card(a)]
  BY <1>1, <1>2, <1>3, PutCardType DEF Consistent
<1>6. d.cards \in [CardIds -> Card]
  BY DEF Consistent, Databases
<1>7. QED
  BY <1>1, <1>3, <1>4, <1>5, <1>6

-----------------------------------------------------------------------------
(* Users and descriptors.                                                  *)

\* The users of e are those of d, on the same descriptors.
SameWires(d, e) == /\ UsedSlots(e) = UsedSlots(d)
                   /\ \A i \in UsedSlots(d) : /\ e.users[i].port = d.users[i].port
                                              /\ e.users[i].socket_fd = d.users[i].socket_fd

\* A socket in use is found, and so is a user with that socket.
LEMMA FindSocketHit ==
  ASSUME NEW d, NEW fd
  PROVE  LET i == find_user_index_by_socket(d, fd)
         IN  IF \E j \in UsedSlots(d) : d.users[j].socket_fd = fd
             THEN i # Missing /\ i \in UsedSlots(d) /\ d.users[i].socket_fd = fd
             ELSE i = Missing
<1> DEFINE S == {i \in UsedSlots(d) : d.users[i].socket_fd = fd}
<1>1. S \subseteq Nat
  BY UsedTypes
<1>2. /\ S = {} => First(S) = Missing
      /\ S # {} => First(S) \in S /\ First(S) # Missing
  BY <1>1, FirstFinds
<1>3. find_user_index_by_socket(d, fd) = First(S)
  BY DEF find_user_index_by_socket
<1>4. QED
  BY <1>2, <1>3

\* The setters move no user.
LEMMA SetUserWires ==
  ASSUME NEW d, Consistent(d), NEW port, NEW status \in UserStatus,
         NEW card \in CardIds \cup {NoCard}
  PROVE  SameWires(d, SetUser(d, port, status, card))
<1>1. CASE ~IsRegistered(d, port)
  BY <1>1 DEF SetUser, SameWires
<1>2. CASE IsRegistered(d, port)
  <2> DEFINE i == find_user_index(d, port)
             e == SetUser(d, port, status, card)
  <2>1. /\ UsedSlots(e) = UsedSlots(d)
        /\ \A j \in UsedSlots(d) \ {i} : e.users[j] = d.users[j]
        /\ e.users[i].port = d.users[i].port
        /\ e.users[i].socket_fd = d.users[i].socket_fd
    BY <1>2, SetUserWrites
  <2> HIDE DEF i, e
  <2>2. SameWires(d, e)
    BY <2>1 DEF SameWires
  <2>3. QED
    BY <2>2 DEF e
<1>3. QED
  BY <1>1, <1>2

\* Nor do the operations on cards.
LEMMA CardWires ==
  ASSUME NEW d, Consistent(d)
  PROVE  /\ \A id, column : SameWires(d, create_card(d, id, column))
         /\ \A port, c : c \in CardIds => SameWires(d, card_doing(d, port, c))
         /\ \A port, c : c \in CardIds => SameWires(d, card_done(d, port, c))
         /\ \A c, column, port : c \in CardIds => SameWires(d, move_card(d, c, column, port))
<1>1. \A e, c, card : e \in Databases => SameWires(e, PutCard(e, c, card))
  BY DEF SameWires, PutCard, Databases, UsedSlots
<1>2. \A e, f, g : SameWires(e, f) /\ SameWires(f, g) => SameWires(e, g)
  BY DEF SameWires
<1>3. d \in Databases
  BY DEF Consistent
<1>4. ASSUME NEW port, NEW c \in CardIds
      PROVE  /\ user_assign_card(d, port, c) \in Databases
             /\ user_clear_card(d, port) \in Databases
             /\ SameWires(d, user_assign_card(d, port, c))
             /\ SameWires(d, user_clear_card(d, port))
  <2>1. /\ "ACTIVE" \in UserStatus /\ "IDLE" \in UserStatus
        /\ c \in CardIds \cup {NoCard} /\ NoCard \in CardIds \cup {NoCard}
    BY DEF UserStatus
  <2>2. QED
    BY <2>1, SetUserWires, AssignClearConsistent DEF user_assign_card, user_clear_card, Consistent
<1>5. \A id, column : SameWires(d, create_card(d, id, column))
  BY <1>1, <1>3 DEF create_card
<1>6. ASSUME NEW port, NEW c \in CardIds
      PROVE  SameWires(d, card_doing(d, port, c))
  BY <1>1, <1>2, <1>4 DEF card_doing
<1>7. ASSUME NEW port, NEW c \in CardIds
      PROVE  SameWires(d, card_done(d, port, c))
  <2> DEFINE a == PutCard(d, c, [d.cards[c] EXCEPT !.status = "DONE", !.age = 0])
  <2>1. Consistent(a)
    <3>1. d.cards[c] \in Card /\ 0 \in 0 .. WORKING_TIMEOUT /\ "DONE" \in Columns
      BY <1>3, TimeoutsAssumption DEF Databases, Columns
    <3>2. [d.cards[c] EXCEPT !.status = "DONE", !.age = 0] \in Card
      BY <3>1 DEF Card
    <3>3. QED
      BY <3>2, PutCardConsistent
  <2>2. SameWires(d, a)
    BY <1>1, <1>3
  <2>3. card_done(d, port, c) = user_clear_card(a, port)
    BY DEF card_done
  <2> HIDE DEF a
  <2>4. "IDLE" \in UserStatus /\ NoCard \in CardIds \cup {NoCard}
    BY DEF UserStatus
  <2>5. SameWires(a, user_clear_card(a, port))
    BY <2>1, <2>4, SetUserWires DEF user_clear_card
  <2>6. QED
    BY <1>2, <2>2, <2>3, <2>5
<1>8. ASSUME NEW c \in CardIds, NEW column, NEW port
      PROVE  SameWires(d, move_card(d, c, column, port))
  BY <1>1, <1>2, <1>4 DEF move_card, BackToTodo
<1>9. QED
  BY <1>5, <1>6, <1>7, <1>8
=============================================================================
