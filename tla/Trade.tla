------------------------------- MODULE Trade -------------------------------
(***************************************************************************)
(* Trade between players (src/engine/src/game.cpp:2466-2854) and all that  *)
(* ends one: the close command, walking away, logout, and anything that    *)
(* touches an offered item (the on...Item functions of player.cpp, called  *)
(* by containers and tiles).  One handler at a time runs, on the dispatcher*)
(* thread, so an action is a whole handler.                                *)
(*                                                                         *)
(* An item is in an inventory, inside a container, on a square, or gone.   *)
(* Abstracted: items do not stack; slots of an inventory are alike (their  *)
(* types, weights, and the special cases of worn backpacks only decide     *)
(* whether something fits); spots are a line, all within everyone's view,  *)
(* so tiles notify every player.  Walking up to an item and asking again   *)
(* is a later request.  House transfers (luascript.cpp:11024) are left out.*)
(***************************************************************************)
EXTENDS Integers, FiniteSets

CONSTANTS Trader,
          Item,
          Container,   \* the items that can hold items
          Square,      \* positions, as numbers
          ItemRange,   \* how far an offered or moved item may be
          TalkRange,   \* how far two trading players may be apart
          Slots,       \* items an inventory takes
          Capacity,    \* items a container takes
          NoTrader, Gone \* no player or item; the place of an item that is no more

ASSUME TradeAssumption == /\ Container \subseteq Item /\ IsFiniteSet(Item)
                          /\ Square \subseteq Int
                          /\ {ItemRange, TalkRange, Slots, Capacity} \subseteq Nat
                          /\ NoTrader \notin Trader \cup Item
                          /\ Item \cap (Trader \cup Square \cup {Gone}) = {}
                          /\ Trader \cap Square = {} /\ Gone \notin Trader \cup Square

VARIABLES traders,
          square,       \* where each player stands
          place,        \* what holds each item: Thing::parent
          state,        \* Player::tradeState
          partner,      \* Player::tradePartner
          offer,        \* Player::tradeItem
          tradeItems    \* Game::tradeItems, with NoTrader for an item not in the map

tradeVars == <<state, partner, offer, tradeItems>>
allTradeVars == <<traders, square, place, tradeVars>>

-----------------------------------------------------------------------------
(* Where things are *)

\* The things around item i, one inside the other, innermost first.
Chain(pl, i) ==
  LET up[n \in 0 .. Cardinality(Container) + 1] ==
        IF n = 0 THEN i
        ELSE IF up[n - 1] \in Item THEN pl[up[n - 1]] ELSE up[n - 1]
  IN  up

TopParent(pl, i) == Chain(pl, i)[Cardinality(Container) + 1]

\* isHoldingItem
Holds(pl, c, i) == \E n \in DOMAIN Chain(pl, i) : n > 0 /\ Chain(pl, i)[n] = c

Overlap(i, j) == i = j \/ Holds(place, i, j) \/ Holds(place, j, i)

Position(pl, i) ==
  LET top == TopParent(pl, i) IN IF top \in Trader THEN square[top] ELSE top

InRange(a, b, range) == a - b \in -range .. range

Contents(pl, holder) == {i \in Item : pl[i] = holder}

Room(pl, holder) ==
  CASE holder \in Trader    -> Cardinality(Contents(pl, holder)) < Slots
    [] holder \in Container -> Cardinality(Contents(pl, holder)) < Capacity
    [] OTHER                -> TRUE

-----------------------------------------------------------------------------
(* internalCloseTrade, for each of players: both sides forget the trade *)

Close(players) ==
  LET ends == players \cup ({partner[p] : p \in players} \ {NoTrader})
      offers == {offer[p] : p \in ends}
  IN  /\ state' = [p \in Trader |-> IF p \in ends THEN "none" ELSE state[p]]
      /\ partner' = [p \in Trader |-> IF p \in ends THEN NoTrader ELSE partner[p]]
      /\ offer' = [p \in Trader |-> IF p \in ends THEN NoTrader ELSE offer[p]]
      /\ tradeItems' = [i \in Item |-> IF i \in offers THEN NoTrader ELSE tradeItems[i]]

\* Those the holder of item i tells that it is taken away: the owner of the
\* inventory, the players next to the container, or those who see the tile.
Told(holder) ==
  CASE holder \in Trader    -> {holder}
    [] holder \in Container -> {p \in traders : InRange(square[p], Position(place, holder), ItemRange)}
    [] OTHER                -> traders

\* Mutant: checkTradeState alone, which does not look into what is taken.
ClosedByTakingIt(i) ==
  {p \in Told(place[i]) :
     offer[p] # NoTrader /\ (i = offer[p] \/ Holds(place, offer[p], i))}

\* checkTradeState(i), and the tests for an offer inside what is taken: these
\* players' trades are closed when i leaves its holder.
ClosedByTaking(i) ==
  {p \in Told(place[i]) :
     /\ offer[p] # NoTrader
     /\ \/ Overlap(i, offer[p])
        \/ /\ place[i] \in Container
           /\ place[offer[p]] # place[i]
           /\ Holds(place, place[i], offer[p])}

\* onAddContainerItem: closed when anything is put into an offered container.
ClosedByPutting(i, holder) ==
  {p \in Told(holder) : /\ holder \in Container
                        /\ offer[p] # NoTrader
                        /\ offer[p] = holder \/ Holds(place, offer[p], holder)}

-----------------------------------------------------------------------------
(* Trading *)

TradeInit == /\ traders = Trader
             /\ square \in [Trader -> Square]
             /\ place \in [Item -> Trader]
             /\ \A p \in Trader : Cardinality(Contents(place, p)) <= Slots
             /\ state = [p \in Trader |-> "none"]
             /\ partner = [p \in Trader |-> NoTrader]
             /\ offer = [p \in Trader |-> NoTrader]
             /\ tradeItems = [i \in Item |-> NoTrader]

\* internalStartTrade
StartTrade(p, q, i) ==
  /\ \/ state[p] = "none"
     \/ state[p] = "acknowledge" /\ partner[p] = q
  /\ state[q] = "none" \/ partner[q] = p
  /\ state' = [state EXCEPT ![p] = "initiated",
                            ![q] = IF @ = "none" THEN "acknowledge" ELSE @]
  /\ partner' = [partner EXCEPT ![p] = q, ![q] = p]
  /\ offer' = [offer EXCEPT ![p] = i]
  /\ tradeItems' = [tradeItems EXCEPT ![i] = p]

\* Not an item that is offered, nor one in or around an offered item.
NotTraded(i) == \A j \in Item : tradeItems[j] # NoTrader => ~Overlap(i, j)

\* playerRequestTrade
RequestTrade(p, q, i) ==
  /\ {p, q} \subseteq traders /\ p # q
  /\ InRange(square[p], square[q], TalkRange)
  /\ TopParent(place, i) \in Square \cup {p}
  /\ InRange(square[p], Position(place, i), ItemRange)
  /\ NotTraded(i)
  /\ StartTrade(p, q, i)
  /\ UNCHANGED <<traders, square, place>>

\* queryDestination of player q: where item i may go.  The offered item is
\* passed over if it is in a slot of the inventory, not if it is deeper.
Destinations(pl, q, i) ==
  LET reached == {c \in Container : /\ TopParent(pl, c) = q
                                    /\ c # i /\ ~Holds(pl, i, c)
                                    /\ \A b \in Container :
                                         pl[b] = q /\ b = offer[q] =>
                                           c # b /\ ~Holds(pl, b, c)}
  IN  {h \in reached \cup {q} : Room(pl, h)}

\* Mutant: the first item may go into what its new owner gives away.
ExchangeInto(p, q, i, j) ==
  /\ Destinations(place, q, i) # {} /\ Destinations(place, p, j) # {}
  /\ \E to \in Destinations(place, q, i) :
       LET moved == [place EXCEPT ![i] = to]
           back == Destinations(moved, p, j)
       IN IF back = {} THEN place' = moved
          ELSE \E to2 \in back : place' = [moved EXCEPT ![j] = to2]

\* The exchange: each item must fit while the other one is still there; then
\* the first goes to q, but not into what q gives away, and the second to p.
\* What becomes of the second move is not looked at.
Exchange(p, q, i, j) ==
  /\ Destinations(place, q, i) # {} /\ Destinations(place, p, j) # {}
  /\ \E to \in Destinations(place, q, i) :
       /\ to # j /\ ~Holds(place, j, to)
       /\ LET moved == [place EXCEPT ![i] = to]
              back == Destinations(moved, p, j)
          IN IF back = {} THEN place' = moved
             ELSE \E to2 \in back : place' = [moved EXCEPT ![j] = to2]

\* playerAcceptTrade by the first of the two
AcceptFirst(p) ==
  /\ p \in traders
  /\ state[p] \in {"acknowledge", "initiated"}
  /\ state[partner[p]] # "accept"
  /\ state' = [state EXCEPT ![p] = "accept"]
  /\ UNCHANGED <<traders, square, place, partner, offer, tradeItems>>

\* ... and by the second: the items are exchanged, or (out of sight, nothing
\* offered by one of them, no room) nothing is.  The moves close the trades
\* of others whom they touch, not those in TRADE_TRANSFER.
AcceptSecond(p) ==
  /\ p \in traders
  /\ state[p] \in {"acknowledge", "initiated"}
  /\ LET q == partner[p]
         i == offer[p]
         j == offer[q]
     IN /\ state[q] = "accept"
        /\ \/ /\ i # NoTrader /\ j # NoTrader
              /\ Exchange(p, q, i, j)
              /\ Close({p, q} \cup ClosedByTaking(i) \cup ClosedByTaking(j))
           \/ Close({p}) /\ UNCHANGED place
  /\ UNCHANGED <<traders, square>>

\* playerCloseTrade
CloseTrade(p) == /\ p \in traders
                 /\ Close({p})
                 /\ UNCHANGED <<traders, square, place>>

-----------------------------------------------------------------------------
(* What goes on around a trade *)

\* onCreatureMove: away from one's item, or from one's partner.
Walk(p, to) ==
  /\ p \in traders
  /\ to # square[p]
  /\ square' = [square EXCEPT ![p] = to]
  /\ LET item == offer[p] # NoTrader /\
                   ~InRange(to, IF TopParent(place, offer[p]) = p THEN to
                                ELSE Position(place, offer[p]), ItemRange)
         person == partner[p] # NoTrader /\ ~InRange(to, square[partner[p]], TalkRange)
     IN IF item \/ person THEN Close({p}) ELSE UNCHANGED tradeVars
  /\ UNCHANGED <<traders, place>>

\* playerMoveItem: one's own things and those on the ground nearby, to one's
\* inventory, into a container nearby, or thrown on a tile.
MoveItem(p, i, to) ==
  /\ p \in traders
  /\ TopParent(place, i) \in Square \cup {p}
  /\ InRange(square[p], Position(place, i), ItemRange)
  /\ to # place[i] /\ to # i
  /\ Room(place, to)
  /\ \/ to = p \/ to \in Square
     \/ /\ to \in Container /\ ~Holds(place, i, to)
        /\ TopParent(place, to) \in Square \cup {p}
        /\ InRange(square[p], Position(place, to), ItemRange)
  /\ place' = [place EXCEPT ![i] = to]
  /\ Close(ClosedByTaking(i) \cup ClosedByPutting(i, to))
  /\ UNCHANGED <<traders, square>>

\* An item is used up, decays, or is otherwise removed, with what is in it.
RemoveItem(i) ==
  /\ TopParent(place, i) # Gone
  /\ place' = [place EXCEPT ![i] = Gone]
  /\ Close(ClosedByTaking(i))
  /\ UNCHANGED <<traders, square>>

\* onRemoveCreature; what the player carries goes with it.
TraderLogout(p) == /\ p \in traders
                   /\ traders' = traders \ {p}
                   /\ IF partner[p] # NoTrader THEN Close({p}) ELSE UNCHANGED tradeVars
                   /\ UNCHANGED <<square, place>>

TraderLogin(p) == /\ p \notin traders
                  /\ traders' = traders \cup {p}
                  /\ UNCHANGED <<square, place, tradeVars>>

Accept(p) == AcceptFirst(p) \/ AcceptSecond(p)

TradeNext == \E p \in Trader :
               \/ Accept(p) \/ CloseTrade(p) \/ TraderLogout(p) \/ TraderLogin(p)
               \/ \E to \in Square : Walk(p, to)
               \/ \E i \in Item : \/ \E q \in Trader : RequestTrade(p, q, i)
                                  \/ \E to \in Container \cup Square \cup {p} : MoveItem(p, i, to)
                                  \/ RemoveItem(i)

TradeSpec == TradeInit /\ [][TradeNext]_allTradeVars

-----------------------------------------------------------------------------
(* Properties *)

\* The values every variable takes; an item is never inside itself.
TradeTypeOK ==
  /\ traders \subseteq Trader
  /\ square \in [Trader -> Square]
  /\ place \in [Item -> Trader \cup Container \cup Square \cup {Gone}]
  /\ state \in [Trader -> {"none", "initiated", "acknowledge", "accept"}]
  /\ partner \in [Trader -> Trader \cup {NoTrader}]
  /\ offer \in [Trader -> Item \cup {NoTrader}]
  /\ tradeItems \in [Item -> Trader \cup {NoTrader}]
  /\ \A i \in Item : ~Holds(place, i, i)

\* tradePartner is mutual: a player never trades with one who trades with
\* somebody else, has left, or has stopped trading.
PartnersAgree ==
  \A p \in Trader :
    /\ (partner[p] = NoTrader) <=> (state[p] = "none")
    /\ partner[p] # NoTrader => /\ partner[p] # p
                                /\ {p, partner[p]} \subseteq traders
                                /\ partner[partner[p]] = p

\* tradeItems holds exactly the offered items, under the player who offers
\* each: none stays marked (and referenced) after its trade.
OffersRegistered ==
  /\ \A i \in Item, p \in Trader : tradeItems[i] = p <=> offer[p] = i
  /\ \A p \in Trader : /\ state[p] = "initiated" => offer[p] # NoTrader
                       /\ offer[p] # NoTrader => state[p] \in {"initiated", "accept"}

\* Nothing is offered twice, not even as part of another offer, however
\* items are moved about once the offers stand.
OffersDisjoint ==
  \A p, q \in Trader :
    p # q /\ offer[p] # NoTrader /\ offer[q] # NoTrader => ~Overlap(offer[p], offer[q])

\* What a player offers exists, and is the player's own or lies on the
\* ground in reach.
OfferAtHand ==
  \A p \in Trader : offer[p] # NoTrader =>
    /\ TopParent(place, offer[p]) \in Square \cup {p}
    /\ InRange(square[p], Position(place, offer[p]), ItemRange)

\* When an offered item goes from its owner's inventory to the partner, the
\* partner's offer comes to the owner: no trade ends half done, although the
\* result of the second move is ignored.
WholeExchange ==
  \A p \in Trader :
    /\ partner[p] # NoTrader /\ offer[p] # NoTrader
    /\ TopParent(place, offer[p]) = p
    /\ TopParent(place', offer[p]) = partner[p]
    => /\ offer[partner[p]] # NoTrader
       /\ TopParent(place', offer[partner[p]]) = p

\* The two sides of every trade, the map of offered items and the items
\* themselves agree, whichever side ends a trade or touches an item
\* (game.cpp:2466-2854, player.cpp:1289-1385).
TradesAgree ==
  TradeTypeOK /\ PartnersAgree /\ OffersRegistered /\ OffersDisjoint /\ OfferAtHand
=============================================================================
