---------------------------- MODULE LavagnaOffers ----------------------------
(***************************************************************************)
(* The board with a history variable: the last AVAILABLE_CARD sent to each *)
(* registered user.  The users elect a worker from what they were told, so *)
(* what the board says to them must fit together, although it is said one  *)
(* user at a time, by loops that restart one another when a send fails.    *)
(***************************************************************************)
EXTENDS Lavagna

VARIABLE told  \* told[p]: the last offer sent to p, Bare("QUIT") if none yet

Offers(p) == {e[2] : e \in {x \in out' : /\ x[1] = socket_from_port(db', p)
                                         /\ x[2].type = "AVAILABLE_CARD"}}

Hear == told' = [p \in Ports |-> IF ~IsRegistered(db', p) THEN Bare("QUIT")
                                 ELSE IF Offers(p) = {} THEN told[p]
                                 ELSE CHOOSE m \in Offers(p) : TRUE]

OffersInit == Init /\ told = [p \in Ports |-> Bare("QUIT")]

OffersNext == Next /\ Hear

OffersSpec == OffersInit /\ [][OffersNext]_<<vars, told>>

Electors == {p \in RegisteredPorts(db) : /\ told[p].type = "AVAILABLE_CARD"
                                         /\ told[p].card = db.offered_card_id}

\* When the board rests with a card on offer, the users it told of that card
\* are two or more, each knows how many they are and who the others are:
\* otherwise a user waits for a cost nobody sends, or two of them win.
OfferCoherent ==
  Idle /\ db.offered_card_id # NoCard =>
    /\ Cardinality(Electors) > 1
    /\ \A p \in Electors : /\ told[p].total = Cardinality(Electors)
                           /\ told[p].peers = Electors \ {p}
=============================================================================
