------------------------------- MODULE Houses -------------------------------
(***************************************************************************)
(* Houses (src/engine/src/house.cpp, housetile.cpp) and the beds in them   *)
(* (bed.cpp), with the scripts that buy, leave and sell a house, the Lua   *)
(* methods these call, and what the login and the kick of a sleeper do.    *)
(* All of it runs on the dispatcher thread: an action is a whole handler.  *)
(*                                                                         *)
(* Abstracted: a house has one bed of two halves (both always hold the     *)
(* same sleeper), a door is not told from the guest list, access lists are *)
(* sets of players (no guilds, no wildcards; the level is the higher one,  *)
(* so nobody is on both), positions are inside or outside, everybody is    *)
(* premium and nobody may edit all houses.  The trade around a transfer    *)
(* document is Trade; here it is made, carried out or given up.  Rent is   *)
(* collected at start-up only, before anybody plays.                       *)
(***************************************************************************)
EXTENDS Integers, FiniteSets

CONSTANTS Resident, House, Nowhere

ASSUME HouAssumption == Nowhere \notin Resident \cup House

VARIABLE hou

\* owner, subs and guests: the owner and the access lists of each house;
\* sleeper: BedItem::sleeperGUID; beds: Game::bedSleepersMap; tired: players
\* whose kick is scheduled; document: who sells to whom, transferItem.
HouInit ==
  hou = [online   |-> {},
         at       |-> [p \in Resident |-> Nowhere],
         owner    |-> [h \in House |-> Nowhere],
         subs     |-> [h \in House |-> {}],
         guests   |-> [h \in House |-> {}],
         sleeper  |-> [h \in House |-> Nowhere],
         beds     |-> [p \in Resident |-> Nowhere],
         tired    |-> {},
         document |-> [h \in House |-> Nowhere]]

\* getHouseAccessLevel
AccessLevel(s, h, p) ==
  IF p = s.owner[h] THEN 3
  ELSE IF p \in s.subs[h] THEN 2
  ELSE IF p \in s.guests[h] THEN 1
  ELSE 0

MayEnter(s, h, p) == AccessLevel(s, h, p) > 0

Inside(s, h) == {p \in s.online : s.at[p] = h}

\* kickPlayer(nullptr, target), for each of the players
PutOut(s, players) ==
  [s EXCEPT !.at = [p \in Resident |-> IF p \in players THEN Nowhere ELSE @[p]]]

-----------------------------------------------------------------------------
(* Beds *)

\* Mutant: the map keeps the one who woke up.
WakeUpListed(s, h) == [s EXCEPT !.sleeper[h] = Nowhere]

\* BedItem::wakeUp; what the sleeper regains is stored or given.
WakeUp(s, h) ==
  IF s.sleeper[h] = Nowhere THEN s
  ELSE [s EXCEPT !.beds[s.sleeper[h]] = Nowhere, !.sleeper[h] = Nowhere]

\* Actions::internalUseItem on a bed: canUse, trySleep and sleep.
UseBed(p, h) ==
  LET s == hou
      level == AccessLevel(s, h, p)
  IN /\ p \in Inside(s, h) /\ p \notin s.tired
     /\ \/ /\ s.sleeper[h] = Nowhere
           /\ hou' = [s EXCEPT !.sleeper[h] = p, !.beds[p] = h,
                               !.tired = @ \cup {p}]
        \/ /\ s.sleeper[h] # Nowhere
           /\ level = 3 \/ AccessLevel(s, h, s.sleeper[h]) <= level
           /\ hou' = IF s.owner[h] = p THEN WakeUp(s, h) ELSE s

\* Removed from the game: an open trade is closed, its document destroyed.
QuitGame(s, p) ==
  [s EXCEPT !.online = @ \ {p}, !.tired = @ \ {p},
            !.document = [h \in House |->
              IF @[h] # Nowhere /\ p \in {@[h].seller, @[h].buyer}
              THEN Nowhere ELSE @[h]]]

\* Game::kickPlayer, scheduled by sleep
KickSleeper(p) == p \in hou.tired /\ hou' = QuitGame(hou, p)

LogOut(p) == p \in hou.online /\ hou' = QuitGame(hou, p)

\* placeCreature: HouseTile::queryDestination sends those who are not invited
\* to the entry, and Player::onCreatureAppear wakes the one who slept.
LogIn(p) ==
  /\ p \notin hou.online
  /\ hou' = LET h == hou.at[p]
                placed == IF h # Nowhere /\ ~MayEnter(hou, h, p)
                          THEN PutOut(hou, {p}) ELSE hou
                woken == IF hou.beds[p] = Nowhere THEN placed
                         ELSE WakeUp(placed, hou.beds[p])
            IN  [woken EXCEPT !.online = @ \cup {p}]

-----------------------------------------------------------------------------
(* Owners and lists *)

\* setAccessList: whoever is not invited any more is put out.
SetLists(s, h, subs, guests) ==
  LET t == [s EXCEPT !.subs[h] = subs, !.guests[h] = guests]
  IN  PutOut(t, {p \in Inside(t, h) : ~MayEnter(t, h, p)})

\* setOwner; the document of a trade under way stays as it is.
SetOwner(s, h, p) ==
  IF s.owner[h] = p THEN s
  ELSE LET emptied == WakeUp(PutOut(s, Inside(s, h)), h)
           freed == IF s.owner[h] = Nowhere THEN s
                    ELSE SetLists([emptied EXCEPT !.owner[h] = Nowhere], h, {}, {})
       IN  [freed EXCEPT !.owner[h] = p]

OwnsNone(p) == \A h \in House : hou.owner[h] # p

\* buyhouse.lua
Buy(p, h) == /\ p \in hou.online /\ hou.at[p] = Nowhere
             /\ hou.owner[h] = Nowhere /\ OwnsNone(p)
             /\ hou' = SetOwner(hou, h, p)

\* leavehouse.lua
Abandon(p, h) == /\ p \in Inside(hou, h) /\ hou.owner[h] = p
                 /\ hou' = SetOwner(hou, h, Nowhere)

\* playerUpdateHouseWindow, by one who may edit the list (canEditAccessList).
EditLists(p, h, subs, guests) ==
  /\ p \in hou.online
  /\ \/ AccessLevel(hou, h, p) = 3
     \/ AccessLevel(hou, h, p) = 2 /\ subs = hou.subs[h]
  /\ hou' = SetLists(hou, h, subs, guests)

\* HouseTile::queryAdd
Enter(p, h) == /\ p \in hou.online /\ hou.at[p] = Nowhere /\ MayEnter(hou, h, p)
               /\ hou' = [hou EXCEPT !.at[p] = h]

\* On foot, or by kick_guest.lua and kickPlayer.
GoOut(p, h, by) == /\ p \in Inside(hou, h) /\ by \in hou.online
                   /\ by = p \/ AccessLevel(hou, h, by) >= AccessLevel(hou, h, p)
                   /\ hou' = PutOut(hou, {p})

-----------------------------------------------------------------------------
(* Selling: sellhouse.lua, luaHouseStartTrade, onTradeEvent *)

Trading(p) == \E h \in House : /\ hou.document[h] # Nowhere
                               /\ p \in {hou.document[h].seller, hou.document[h].buyer}

StartSale(p, q, h) ==
  /\ p # q /\ p \in Inside(hou, h) /\ q \in hou.online
  /\ hou.owner[h] = p /\ OwnsNone(q)
  /\ hou.document[h] = Nowhere /\ ~Trading(p) /\ ~Trading(q)
  /\ hou' = [hou EXCEPT !.document[h] = [seller |-> p, buyer |-> q]]

\* ON_TRADE_TRANSFER: executeTransfer
Sell(h) == /\ hou.document[h] # Nowhere
           /\ hou' = [SetOwner(hou, h, hou.document[h].buyer)
                        EXCEPT !.document[h] = Nowhere]

\* ON_TRADE_CANCEL: resetTransferItem
GiveUp(h) == /\ hou.document[h] # Nowhere
             /\ hou' = [hou EXCEPT !.document[h] = Nowhere]

HouNext ==
  \E p \in Resident :
    \/ LogIn(p) \/ LogOut(p) \/ KickSleeper(p)
    \/ \E h \in House :
         \/ UseBed(p, h) \/ Buy(p, h) \/ Abandon(p, h) \/ Enter(p, h)
         \/ Sell(h) \/ GiveUp(h)
         \/ \E q \in Resident : GoOut(p, h, q) \/ StartSale(p, q, h)
         \/ \E subs \in SUBSET Resident, guests \in SUBSET Resident :
              subs \cap guests = {} /\ EditLists(p, h, subs, guests)

HouSpec == HouInit /\ [][HouNext]_hou

-----------------------------------------------------------------------------
(* Properties *)

\* A bed, the map the login looks into and the lists agree: nobody sleeps in
\* two beds, a login wakes the one who slept and nobody else, whoever plays is
\* in no bed but for the moment until the kick; and whoever is inside a house
\* is still invited, whatever became of its owner and its lists meanwhile.
HousesAgree ==
  /\ \A p \in Resident, h \in House : hou.beds[p] = h <=> hou.sleeper[h] = p
  /\ \A p \in hou.online : hou.beds[p] = Nowhere \/ p \in hou.tired
  /\ \A h \in House : /\ \A p \in Inside(hou, h) : MayEnter(hou, h, p)
                      /\ hou.owner[h] = Nowhere => hou.sleeper[h] = Nowhere

\* A house changes hands by the will of its owner (luascript.cpp:11041 and
\* tools.cpp:1220: "You don't own this house."): who sells it owns it when it
\* is handed over.  The code looks only when the sale is started.
OnlyOwnersSell ==
  [][\A h \in House : Sell(h) => hou.owner[h] = hou.document[h].seller]_hou
=============================================================================
