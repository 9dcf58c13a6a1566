------------------------------- MODULE Items -------------------------------
(***************************************************************************)
(* Items and the cylinders that hold them: the inventory of a player, the  *)
(* containers, the ground (src/engine/src/game.cpp:1042-1542,              *)
(* container.cpp, player.cpp:2221-2800, tile.cpp).                         *)
(*                                                                         *)
(* Moving, adding and removing are a conversation between Game and the     *)
(* cylinders: queryDestination finds where a thing ends up, queryAdd       *)
(* whether it may, queryMaxCount how much of it, then removeThing,         *)
(* updateThing and addThing do it and the notifications refresh what is    *)
(* cached: the weight of a container's contents, the weight a player       *)
(* carries.  The functions are operators from a state to a state, and a    *)
(* request runs as one step on the dispatcher thread.                      *)
(*                                                                         *)
(* There are coins, which stack up to MaxStack (100 in the code) and are   *)
(* of kinds whose worth differs, and bags.  A coin weighs one, so does an  *)
(* empty bag.  Which slot takes which item is the constant Wear, in place  *)
(* of slotPosition, weapon types and equipment scripts.  Nothing blocks a  *)
(* tile, and reach, sight and events are left out.                         *)
(***************************************************************************)
EXTENDS Integers, Sequences, FiniteSets, FiniteSetsExt, SequencesExt

CONSTANTS Stack,     \* objects a stack of coins may live in
          Bag,       \* containers
          Worn,      \* the bag that is worn at first, and holds the others
          Slot,      \* places of the inventory, from 1 on
          Wear,      \* which item fits which slot
          Kind,      \* kinds of coins: their worth
          MaxStack,  \* most coins in a stack
          Capacity,  \* most items in a bag
          Strength,  \* Player::capacity
          Body, Ground, Nil,
          Offers,    \* items a player may offer in trade
          ScriptSlot \* slots that scripts add items to

Thing == Stack \cup Bag
Cylinder == Bag \cup {Body, Ground}

ASSUME ItemsAssumption == /\ Wear \subseteq Thing \X Slot
                          /\ Worn \in Bag /\ <<Worn, 1>> \in Wear
                          /\ Slot = 1..Cardinality(Slot)
                          /\ Kind \subseteq Nat \ {0} /\ 1 \in Kind
                          /\ {MaxStack, Capacity, Strength} \subseteq Nat \ {0}
                          /\ {Body, Ground, Nil} \cap Thing = {}

Wherever == -1
MoveUp == 254

VARIABLE inv

\* count: 0 for an object not in use; total: Container::totalWeight;
\* carried: Player::inventoryWeight; offered: Player::tradeItem; due: what the
\* coins in the world ought to be worth.
InvInit ==
  inv = [count   |-> [x \in Stack |-> 0],
         kind    |-> [x \in Stack |-> 1],
         parent  |-> [x \in Thing |-> IF x \in Stack THEN Nil ELSE IF x = Worn THEN Body ELSE Worn],
         slots   |-> [i \in Slot |-> IF i = 1 THEN Worn ELSE Nil],
         list    |-> [c \in Bag \cup {Ground} |-> IF c = Worn THEN SetToSeq(Bag \ {Worn}) ELSE <<>>],
         total   |-> [b \in Bag |-> IF b = Worn THEN Cardinality(Bag) - 1 ELSE 0],
         carried |-> Cardinality(Bag),
         offered |-> Nil,
         due     |-> 0]

-----------------------------------------------------------------------------
(* Who holds what *)

\* The cylinders above x.
Above(s, x) ==
  LET up[n \in 0..Cardinality(Bag)] ==
        IF n = 0 THEN {s.parent[x]}
        ELSE LET u == up[n - 1] IN u \cup {s.parent[b] : b \in u \cap Bag}
  IN  up[Cardinality(Bag)]

Carried(s, x) == Body \in Above(s, x)

Holds(s, c) == c = Body \/ (c \in Bag /\ Carried(s, c))

\* Item::equals of two stackable items.
Alike(s, x, y) == {x, y} \subseteq Stack /\ s.kind[x] = s.kind[y]

Size(s, x) == IF x \in Stack THEN s.count[x] ELSE 1

Weight(s, x) == IF x \in Stack THEN s.count[x] ELSE 1 + s.total[x]

At(s, c, i) ==
  IF c = Body THEN (IF i \in Slot THEN s.slots[i] ELSE Nil)
  ELSE IF i \in 0..Len(s.list[c]) - 1 THEN s.list[c][i + 1] ELSE Nil

Lesser(m, n) == IF m < n THEN m ELSE n

-----------------------------------------------------------------------------
(* Changing a cylinder *)

\* Player::checkTradeState
CheckTradeState(s, x) ==
  IF s.offered # Nil /\ s.offered \in Above(s, x) \cup {x} THEN [s EXCEPT !.offered = Nil] ELSE s

\* Container::updateItemWeight
UpdateItemWeight(s, c, diff) ==
  IF c \notin Bag THEN s
  ELSE [s EXCEPT !.total = [b \in Bag |-> IF b \in Above(s, c) \cup {c} THEN @[b] + diff ELSE @[b]]]

\* Mutant: what is left is no lighter.
UpdateThingUnweighed(s, x, n) == CheckTradeState([s EXCEPT !.count[x] = n], x)

\* updateThing, and the part of removeThing that leaves something
UpdateThing(s, x, n) ==
  CheckTradeState(UpdateItemWeight([s EXCEPT !.count[x] = n], s.parent[x], n - s.count[x]), x)

RemoveThing(s, x, n) ==
  IF x \in Stack /\ n # s.count[x] THEN UpdateThing(s, x, s.count[x] - n)
  ELSE LET c == s.parent[x]
           t == UpdateItemWeight(CheckTradeState(s, x), c, - Weight(s, x))
           elsewhere == /\ c \in Bag /\ t.offered \in Thing
                        /\ c \in Above(s, t.offered) /\ s.parent[t.offered] # c
       IN  [t EXCEPT !.parent[x] = Nil,
                     !.slots = [i \in Slot |-> IF @[i] = x THEN Nil ELSE @[i]],
                     !.list = [b \in Bag \cup {Ground} |-> SelectSeq(@[b], LAMBDA y : y # x)],
                     !.offered = IF elsewhere THEN Nil ELSE @]

\* addThing: a slot takes it whatever was there, the others put it first.
AddThing(s, c, i, x) ==
  IF c = Body
  THEN IF i \notin Slot THEN s
       ELSE [s EXCEPT !.parent[x] = Body, !.slots[i] = x]
  ELSE CheckTradeState(UpdateItemWeight([s EXCEPT !.parent[x] = c, !.list[c] = <<x>> \o @],
                                        c, Weight(s, x)), x)

\* Player::updateInventoryWeight, on a notification that reaches the player.
Notify(s, c) ==
  IF ~Holds(s, c) THEN s
  ELSE [s EXCEPT !.carried = MapThenSumSet(LAMBDA i : Weight(s, s.slots[i]),
                                           {i \in Slot : s.slots[i] # Nil})]

\* ReleaseItem of a stack that is nowhere.
Release(s, x) ==
  IF x \in Stack /\ s.parent[x] = Nil THEN [s EXCEPT !.count[x] = 0, !.kind[x] = 1] ELSE s

Unused(s) == {x \in Stack : s.count[x] = 0}

\* Item::CreateItem and clone
Fresh(s) == CHOOSE x \in Unused(s) : TRUE
CreateItem(s, kind, n) == [s EXCEPT !.count[Fresh(s)] = n, !.kind[Fresh(s)] = kind]

-----------------------------------------------------------------------------
(* What the cylinders answer *)

HasCapacity(s, x, n) ==
  \/ Carried(s, x)
  \/ s.carried + (IF x \in Stack THEN n ELSE Weight(s, x)) <= Strength

\* Mutant: a full bag takes more.
QueryAddWhenFull(s, c, i, x, n) ==
  IF c = Ground THEN "yes"
  ELSE IF c = Body
  THEN IF <<x, i>> \notin Wear \/ ~HasCapacity(s, x, n) THEN "no"
       ELSE IF s.slots[i] = Nil \/ Alike(s, s.slots[i], x) THEN "yes"
       ELSE IF Carried(s, x) THEN "swap" ELSE "no"
  ELSE IF \/ x \in Above(s, c) \cup {c}
          \/ (Carried(s, c) /\ ~HasCapacity(s, x, n))
       THEN "no" ELSE "yes"

\* "swap" is RETURNVALUE_NEEDEXCHANGE
QueryAdd(s, c, i, x, n) ==
  IF c = Ground THEN "yes"
  ELSE IF c = Body
  THEN IF <<x, i>> \notin Wear \/ ~HasCapacity(s, x, n) THEN "no"
       ELSE IF s.slots[i] = Nil \/ Alike(s, s.slots[i], x) THEN "yes"
       ELSE IF Carried(s, x) THEN "swap" ELSE "no"
  ELSE IF \/ x \in Above(s, c) \cup {c}
          \/ (i = Wherever /\ Len(s.list[c]) >= Capacity)
          \/ (Carried(s, c) /\ ~HasCapacity(s, x, n))
       THEN "no" ELSE "yes"

RoomWith(s, x, y) == IF Alike(s, x, y) THEN MaxStack - s.count[y] ELSE 0

\* Container::queryMaxCount
BagMaxCount(s, b, i, x, n) ==
  LET free  == IF Len(s.list[b]) < Capacity THEN Capacity - Len(s.list[b]) ELSE 0
      among == IF i # Wherever THEN {At(s, b, i)} \ {Nil}
               ELSE {y \in Thing : s.parent[y] = b} \ {x}
      open  == QueryAdd(s, b, 0, x, n) = "yes"
  IN  IF x \in Bag THEN free
      ELSE free * MaxStack + (IF open THEN MapThenSumSet(LAMBDA y : RoomWith(s, x, y), among) ELSE 0)

\* Player::queryMaxCount for any slot: the bags are searched to the bottom.
SlotMaxCount(s, i, x) ==
  LET y == s.slots[i]
  IN  IF y = Nil
      THEN IF QueryAdd(s, Body, i, x, Size(s, x)) # "yes" THEN 0
           ELSE IF x \in Stack THEN MaxStack ELSE 1
      ELSE IF QueryAdd(s, Body, i, x, RoomWith(s, x, y)) = "yes" THEN RoomWith(s, x, y) ELSE 0

BodyMaxCount(s, i, x, n) ==
  IF i = Wherever
  THEN MapThenSumSet(LAMBDA j : SlotMaxCount(s, j, x), Slot)
       + MapThenSumSet(LAMBDA b : BagMaxCount(s, b, Wherever, x, Size(s, x)),
                       {b \in Bag : Carried(s, b)})
  ELSE IF At(s, Body, i) # Nil THEN RoomWith(s, x, At(s, Body, i))
  ELSE IF QueryAdd(s, Body, i, x, n) # "yes" THEN 0
  ELSE IF x \in Stack THEN MaxStack ELSE 1

QueryMaxCount(s, c, i, x, n) ==
  IF c = Ground THEN n
  ELSE IF c = Body THEN BodyMaxCount(s, i, x, n) ELSE BagMaxCount(s, c, i, x, n)

-----------------------------------------------------------------------------
(* Where a thing ends up: a cylinder, an index in it, an item to merge with *)

To(c, i, y) == [cyl |-> c, index |-> i, onto |-> y]

FirstOr(seq, ok(_), none) ==
  IF \E k \in DOMAIN seq : ok(seq[k]) THEN seq[Min({k \in DOMAIN seq : ok(seq[k])})] ELSE none

\* The bags of a player in the order they are searched: those worn first, then
\* what each holds.  For coins, the bag offered in trade is not searched; for a
\* bag it is, unless it is worn.
Searched(s, x) ==
  LET AtFirst == SelectSeq([i \in Slot |-> s.slots[i]], LAMBDA y : y \in Bag \ {s.offered, x})
      Inner(b) == SelectSeq(s.list[b], LAMBDA y : y \in Bag /\ (x \in Stack => y # s.offered))
      queue[n \in 0..Cardinality(Bag)] ==
        IF n = 0 THEN AtFirst
        ELSE LET q == queue[n - 1] IN IF n > Len(q) THEN q ELSE q \o Inner(q[n])
  IN  queue[Cardinality(Bag)]

\* What of bag b is looked at, what of it could take x in, and the index a new
\* item would get: it counts only the items that were not passed over.
Other(s, b, x) == SelectSeq(s.list[b], LAMBDA y : y \notin {s.offered, x})
Mates(s, b, x) == {k \in DOMAIN Other(s, b, x) : RoomWith(s, x, Other(s, b, x)[k]) > 0}
PlaceIn(s, b, x) == IF x \in Bag THEN Len(s.list[b]) ELSE Len(Other(s, b, x))

Takes(s, b, x) ==
  \/ x \in Stack /\ Mates(s, b, x) # {}
  \/ /\ PlaceIn(s, b, x) < Capacity
     /\ QueryAdd(s, b, PlaceIn(s, b, x), x, Size(s, x)) = "yes"

\* Slots that are free for x, or hold what it merges with.
Fitting(s, x) ==
  {i \in Slot : /\ \/ s.slots[i] = Nil
                   \/ s.slots[i] \notin {s.offered, x} /\ RoomWith(s, x, s.slots[i]) > 0
                /\ QueryAdd(s, Body, i, x, Size(s, x)) = "yes"}

IntoSlot(s, i) == To(Body, i, s.slots[i])

IntoBag(s, b, x) ==
  IF b = Nil THEN To(Body, Wherever, Nil)
  ELSE IF x \in Stack /\ Mates(s, b, x) # {}
  THEN To(b, Min(Mates(s, b, x)) - 1, Other(s, b, x)[Min(Mates(s, b, x))])
  ELSE To(b, PlaceIn(s, b, x), Nil)

\* Player::queryDestination, the search.
Search(s, x) ==
  IF Fitting(s, x) # {} THEN IntoSlot(s, Min(Fitting(s, x)))
  ELSE IntoBag(s, FirstOr(Searched(s, x), LAMBDA b : Takes(s, b, x), Nil), x)

\* Container::queryDestination
BagDestination(s, b, i, x, onto) ==
  LET slot == IF i >= Capacity THEN Wherever ELSE i
      y    == IF i >= Capacity THEN Nil ELSE IF At(s, b, slot) # Nil THEN At(s, b, slot) ELSE onto
      mate == {k \in DOMAIN s.list[b] : RoomWith(s, x, s.list[b][k]) > 0}
  IN  IF i = MoveUp
      THEN To(IF s.parent[b] \in Bag THEN s.parent[b] ELSE b, Wherever, Nil)
      ELSE IF slot # Wherever /\ y \in Bag THEN To(y, Wherever, Nil)
      ELSE IF x \in Stack /\ s.parent[x] # b /\ RoomWith(s, x, y) = 0 /\ mate # {}
      THEN To(b, Min(mate) - 1, s.list[b][Min(mate)])
      ELSE To(b, slot, y)

QueryDestination(s, d, x) ==
  IF d.cyl = Ground THEN To(Ground, d.index, IF s.list[Ground] = <<>> THEN Nil ELSE s.list[Ground][1])
  ELSE IF d.cyl = Body
  THEN IF d.index \in {0, Wherever} THEN Search(s, x)
       ELSE IF At(s, Body, d.index) \in Bag THEN To(At(s, Body, d.index), Wherever, Nil)
       ELSE To(Body, d.index, IF At(s, Body, d.index) = Nil THEN d.onto ELSE At(s, Body, d.index))
  ELSE BagDestination(s, d.cyl, d.index, x, d.onto)

\* The loop of internalMoveItem: until a cylinder names itself.
Resolve(s, c, i, x) ==
  LET Went(last, e) == [d |-> e, fixed |-> e.cyl = last.d.cyl]
      Follow(last) == IF last.fixed THEN last ELSE Went(last, QueryDestination(s, last.d, x))
      next[n \in 0..Cardinality(Bag) + 2] ==
        IF n = 0 THEN [d |-> To(c, i, Nil), fixed |-> FALSE] ELSE Follow(next[n - 1])
  IN  next[Cardinality(Bag) + 2].d

-----------------------------------------------------------------------------
(* Game::internalMoveItem *)

\* The item in the way moves to where x comes from, when that takes it.
ExchangeAllowed(s, from, d) ==
  /\ from \in Bag
  /\ QueryAdd(s, from, 0, d.onto, Size(s, d.onto)) = "yes"
  /\ QueryMaxCount(s, from, Wherever, d.onto, Size(s, d.onto)) > 0

Exchange(s, from, d) ==
  Notify(AddThing(RemoveThing(s, d.onto, Size(s, d.onto)), from, 0, d.onto), d.cyl)

\* How much of m merges with the item there.
Merging(s, x, m, onto) ==
  IF onto # Nil /\ Alike(s, x, onto) THEN Lesser(MaxStack - s.count[onto], m) ELSE 0

Merge(s, onto, n) == IF n = 0 THEN s ELSE UpdateThing(s, onto, s.count[onto] + n)

AddNew(s, to, i, kind, n) ==
  IF n = 0 THEN s ELSE AddThing(CreateItem(s, kind, n), to, i, Fresh(s))

Tell(s, from, to) == Notify(Notify(s, from), to)

\* Mutant: all of it is added next to what was merged.
TransferNWhole(s, from, to, i, x, m, onto) ==
  IF x \in Bag THEN Tell(AddThing(RemoveThing(s, x, 1), to, i, x), from, to)
  ELSE Tell(AddNew(Release(Merge(RemoveThing(s, x, m), onto, Merging(s, x, m, onto)), x),
                   to, i, s.kind[x], m),
            from, to)

\* m of x goes from one cylinder to the other: some of it merges with what is
\* there, and the rest is a new item.
TransferN(s, from, to, i, x, m, onto) ==
  IF x \in Bag THEN Tell(AddThing(RemoveThing(s, x, 1), to, i, x), from, to)
  ELSE Tell(AddNew(Release(Merge(RemoveThing(s, x, m), onto, Merging(s, x, m, onto)), x),
                   to, i, s.kind[x], m - Merging(s, x, m, onto)),
            from, to)

\* What is left to do once the destination agrees to at most max.
TransferUpTo(s, from, to, i, x, n, onto, max) ==
  IF max = 0 \/ (x \in Stack /\ Lesser(n, max) > s.count[x]) THEN s
  ELSE TransferN(s, from, to, i, x, Lesser(n, max), onto)

Transfer(s, from, d, x, n, onto) ==
  TransferUpTo(s, from, d.cyl, d.index, x, n, onto, QueryMaxCount(s, d.cyl, d.index, x, n))

\* The destination is asked, and once more after an exchange.
Ask(s, from, d, x, n, onto) ==
  IF QueryAdd(s, d.cyl, d.index, x, n) = "yes" THEN Transfer(s, from, d, x, n, onto) ELSE s

MoveTo(s, from, d, x, n) ==
  IF d.onto = x THEN s
  ELSE IF QueryAdd(s, d.cyl, d.index, x, n) = "swap" /\ ExchangeAllowed(s, from, d)
  THEN Ask(Exchange(s, from, d), from, d, x, n, Nil)
  ELSE Ask(s, from, d, x, n, d.onto)

MoveItem(s, from, to, i, x, n) == MoveTo(s, from, Resolve(s, to, i, x), x, n)

-----------------------------------------------------------------------------
(* Game::internalAddItem and internalRemoveItem *)

\* One call, for a stack that is nowhere yet.  "rest": the remainder that did
\* not merge is to be added by a call of its own.
AddUpTo(s, x, d, m) ==
  IF m = 0 THEN [st |-> Notify(AddThing(s, d.cyl, d.index, x), d.cyl), is |-> "done"]
  ELSE IF m = s.count[x]
  THEN [st |-> Notify(Release(Merge(s, d.onto, m), x), d.cyl), is |-> "done"]
  ELSE [st |-> [Merge(s, d.onto, m) EXCEPT !.count[x] = @ - m], is |-> "rest"]

AddAt(s, c, x, d) ==
  IF \/ QueryAdd(s, d.cyl, d.index, x, s.count[x]) # "yes"
     \/ QueryMaxCount(s, c, Wherever, x, s.count[x]) < s.count[x]
  THEN [st |-> s, is |-> "refused"]
  ELSE AddUpTo(s, x, d, Merging(s, x, s.count[x], d.onto))

AddOnce(s, c, i, x) == AddAt(s, c, x, QueryDestination(s, To(c, i, Nil), x))

\* internalAddItem: is it refused, and what of it was not added all the same
\* (remainderCount).
Remaining(r) == IF r.is = "refused" THEN [r EXCEPT !.is = "remainder"] ELSE r

InternalAddItem(s, c, i, x) ==
  LET Again(last) == IF last.is # "rest" THEN last
                     ELSE Remaining(AddOnce(last.st, c, Wherever, x))
      run[k \in 0..MaxStack] == IF k = 0 THEN AddOnce(s, c, i, x) ELSE Again(run[k - 1])
  IN  run[MaxStack]

\* Game::addMoney for one kind of coin: a refused stack is dropped; the
\* remainder is not asked for, and is deleted.
Dropped(r, x) == IF r.is = "refused" THEN InternalAddItem(r.st, Ground, Wherever, x).st
                 ELSE Release(r.st, x)

AddStack(s, x) == Dropped(InternalAddItem(s, Body, Wherever, x), x)

AddCoins(s, kind, n) == IF n = 0 THEN s ELSE AddStack(CreateItem(s, kind, n), Fresh(s))

\* The kinds of coins from the worthiest on.  At most one stack of each.
AddMoney(s, sum) ==
  LET add[k \in 0..Max(Kind)] ==
        IF k = 0 THEN [st |-> s, left |-> sum]
        ELSE LET worth == Max(Kind) + 1 - k
                 prev  == add[k - 1]
             IN  IF worth \notin Kind THEN prev
                 ELSE [st |-> AddCoins(prev.st, worth, prev.left \div worth),
                       left |-> prev.left % worth]
  IN  add[Max(Kind)].st

InternalRemoveItem(s, x, n) ==
  Notify(Release(RemoveThing(s, x, n), x), s.parent[x])

Worth(s, x) == s.count[x] * s.kind[x]

\* moneyMap of Game::removeMoney: the cheapest stacks first, and those of equal
\* worth in any order, where the code has that of its search.
MoneyMaps(s) ==
  {q \in SetToSeqs({x \in Stack : s.count[x] > 0 /\ Carried(s, x)}) :
     \A k \in 1..Len(q) - 1 : Worth(s, q[k]) <= Worth(s, q[k + 1])}

\* Game::removeMoney: of the last stack enough coins, and the change is given
\* before they are taken.
RemoveMoney(s, sum, moneyMap) ==
  LET Paid(t, x, owed) ==
        LET unit  == s.kind[x]
            coins == (owed + unit - 1) \div unit
        IN  IF Worth(s, x) <= owed THEN InternalRemoveItem(t, x, s.count[x])
            ELSE InternalRemoveItem(AddMoney(t, unit * coins - owed), x, coins)
      Less(owed, worth) == IF worth <= owed THEN owed - worth ELSE 0
      pay[k \in 0..Len(moneyMap)] ==
        IF k = 0 THEN [st |-> s, owed |-> sum]
        ELSE IF pay[k - 1].owed = 0 THEN pay[k - 1]
        ELSE [st   |-> Paid(pay[k - 1].st, moneyMap[k], pay[k - 1].owed),
              owed |-> Less(pay[k - 1].owed, Worth(s, moneyMap[k]))]
  IN  pay[Len(moneyMap)].st

-----------------------------------------------------------------------------
(* Requests *)

Purse(s) == MapThenSumSet(LAMBDA x : IF Carried(s, x) THEN Worth(s, x) ELSE 0, Stack)

\* Game::playerMoveItem: some of an item, anywhere.  Of more than one coin a
\* part may go, which needs an object of its own.
PlayerMoveItem ==
  \E x \in Thing, to \in Cylinder, n \in 1..MaxStack :
    \E i \in CASE to = Body -> Slot \cup {0}
               [] to = Ground -> {0}
               [] OTHER -> 0..Capacity \cup {MoveUp} :
      /\ inv.parent[x] # Nil
      /\ x \in Bag => n = 1
      /\ Size(inv, x) > 1 => Unused(inv) # {}
      /\ inv' = MoveItem(inv, inv.parent[x], to, i, x, n)

\* Game::internalPlayerAddItem, from a script: what does not fit is dropped.
PlayerAddItem ==
  \E kind \in Kind, n \in 1..MaxStack, i \in ScriptSlot \cup {Wherever} :
    /\ Unused(inv) # {}
    /\ LET x == Fresh(inv)
           Placed(r) == IF r.is = "done" THEN r.st ELSE InternalAddItem(r.st, Ground, Wherever, x).st
       IN  inv' = [Placed(InternalAddItem(CreateItem(inv, kind, n), Body, i, x))
                     EXCEPT !.due = @ + n * kind]

PayIn ==
  \E sum \in 1..MaxStack * Max(Kind) :
    /\ Cardinality(Unused(inv)) >= Cardinality(Kind)
    /\ inv' = [AddMoney(inv, sum) EXCEPT !.due = @ + sum]

PayOut ==
  \E sum \in 1..Purse(inv), moneyMap \in MoneyMaps(inv) :
    /\ Cardinality(Unused(inv)) >= Cardinality(Kind) - 1
    /\ inv' = [RemoveMoney(inv, sum, moneyMap) EXCEPT !.due = @ - sum]

\* Game::playerRequestTrade and internalCloseTrade, as far as they matter here.
Offer == \E x \in Offers : /\ inv.offered = Nil /\ Carried(inv, x)
                           /\ inv' = [inv EXCEPT !.offered = x]

CloseTrade == inv.offered # Nil /\ inv' = [inv EXCEPT !.offered = Nil]

InvNext == PlayerMoveItem \/ PlayerAddItem \/ PayIn \/ PayOut

InvSpec == InvInit /\ [][InvNext]_inv

\* With trades, which bar what is offered from being merged or moved.
InvTradeSpec == InvInit /\ [][InvNext \/ Offer \/ CloseTrade]_inv

-----------------------------------------------------------------------------
(* Properties *)

InWorld(s) ==
  {s.slots[i] : i \in Slot} \cup UNION {{s.list[c][k] : k \in DOMAIN s.list[c]} : c \in DOMAIN s.list}

\* However items are split, merged, exchanged, refused, dropped and changed, the
\* coins in the world are worth what was put in less what was taken out: no
\* request creates or destroys any on the way (internalMoveItem,
\* internalAddItem, addMoney and removeMoney in game.cpp).
WorthConserved ==
  MapThenSumSet(LAMBDA x : IF x \in InWorld(inv) THEN Worth(inv, x) ELSE 0, Stack) = inv.due

\* The places of an item and its parent agree, each item is in one place, no
\* bag is inside itself, and an object is in use while it is somewhere: the
\* checks of queryAdd and queryMaxCount are enough for that whatever order the
\* requests come in (container.cpp:243-339, player.cpp:2238-2531).
ItemsHeldOnce ==
  /\ \A x \in Thing :
       Cardinality({i \in Slot : inv.slots[i] = x}) + Cardinality(
         {place \in (Bag \cup {Ground}) \X (1..Cardinality(Thing)) :
            place[2] <= Len(inv.list[place[1]]) /\ inv.list[place[1]][place[2]] = x}) = IF inv.parent[x] = Nil THEN 0 ELSE 1
  /\ \A i \in Slot : inv.slots[i] # Nil => inv.parent[inv.slots[i]] = Body
  /\ \A c \in Bag \cup {Ground} : \A k \in DOMAIN inv.list[c] : inv.parent[inv.list[c][k]] = c
  /\ \A b \in Bag : b \notin Above(inv, b)
  /\ \A x \in Stack : (inv.count[x] > 0) = (inv.parent[x] # Nil)

\* The cached weights are those of what is held: totalWeight of a container that
\* of its contents, to the bottom, and inventoryWeight that of the inventory
\* (container.cpp updateItemWeight, player.cpp updateInventoryWeight).  Both are
\* kept by difference or refreshed by a notification that must not be missed.
WeightsAgree ==
  /\ \A b \in Bag : inv.total[b] = MapThenSumSet(LAMBDA x : Size(inv, x),
                                                 {x \in Thing : b \in Above(inv, x)})
  /\ inv.carried = MapThenSumSet(LAMBDA x : Size(inv, x), {x \in Thing : Carried(inv, x)})

\* A bag comes to hold more than it may in one way only: something is taken out
\* of it, to a slot, in exchange for what is there.  queryMaxCount is then asked
\* for room among alike stacks, but what was in the slot is put in whole, and
\* not all of the item, or none, may leave (game.cpp:1083-1087, the exchange in
\* internalMoveItem).  Every other request is stopped by the checks of the bag.
OverfilledByExchange ==
  \A b \in Bag :
    Len(inv'.list[b]) > Capacity /\ Len(inv'.list[b]) > Len(inv.list[b]) =>
      \E x \in Stack, i \in Slot, n \in 1..MaxStack :
        inv.parent[x] = b /\ inv' = MoveItem(inv, b, Body, i, x, n)

\* Parents, slots, lists and cached weights describe one and the same cargo,
\* whatever is moved, merged, split, exchanged, added or paid out.
CargoAgrees == ItemsHeldOnce /\ WeightsAgree
=============================================================================
