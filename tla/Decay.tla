------------------------------- MODULE Decay -------------------------------
(***************************************************************************)
(* Items that decay (src/engine/src/game.cpp:4355-4427 and 4490-4512).     *)
(*                                                                         *)
(* An item whose duration runs is registered in toDecayItems, which holds  *)
(* a reference to it; the next cleanup puts it into one of four buckets;   *)
(* every quarter of a second checkDecay takes up the next bucket, shortens *)
(* the duration of each item there by a whole round of the buckets, and    *)
(* lets those decay whose time is over.  Items are registered by whatever  *)
(* moves, adds, clones, loads, equips or transforms them, each time with   *)
(* the reference counter, the attribute and the list to keep in step.      *)
(*                                                                         *)
(* Time is in eighths of a second, the finest the rounding at game.cpp     *)
(* 4417 tells apart.  Abstracted: where in the world an item lies, stacks  *)
(* and charges, and items on top of a tile, which transformItem takes off  *)
(* and puts back on.                                                       *)
(***************************************************************************)
EXTENDS Integers, Sequences, FiniteSets, SequencesExt

CONSTANTS Item,        \* item objects
          Type,
          DecayTime,   \* of each type
          DecayTo,     \* a type, "gone", or "never" for a negative decayTo
          Class,       \* types of one class are changed in place
          StopTime,    \* the types that stop the time of an item
          Turns,       \* what scripts and equipment turn into what
          Durations,   \* that loaded items may have left
          MaxDecaying

EVENT_DECAYINTERVAL == 2
EVENT_DECAY_BUCKETS == 4
Second == 8
Round == EVENT_DECAYINTERVAL * EVENT_DECAY_BUCKETS

ASSUME DecayTypes == /\ DecayTime \in [Type -> {n \in Nat : n % Second = 0}]
                     /\ DecayTo \in [Type -> Type \cup {"gone", "never"}]
                     /\ {"gone", "never"} \cap Type = {} /\ Type # {}
                     /\ StopTime \subseteq Type /\ Turns \subseteq Type \X Type
                     /\ Durations \subseteq Nat

\* Nothing decays into a type that stops the time, where it would stay marked as
\* decaying, and what is turned into one had a time or never decays.  Data keep to
\* it but for item 2057 of items.xml, a candelabrum that becomes 2041 and burns for
\* ever once it is lit again.
ASSUME TimeStops == /\ \A t \in Type : DecayTo[t] \notin StopTime
                    /\ \A t \in StopTime : DecayTo[t] \in {"gone", "never"}
                    /\ \A p \in Turns : p[2] \in StopTime => DecayTime[p[1]] > 0 \/ DecayTo[p[1]] = "never"

\* decaying: those in DECAYING_TRUE; DECAYING_PENDING is like DECAYING_FALSE to
\* everything here.  buckets are counted from lastBucket + 1, the one that comes
\* next, to lastBucket.  left, again and missed are history: how long an item
\* still has; those that were registered or turned while they had an entry; and
\* those that decayed at another time although they were not.
VARIABLE dcy

Bucket == 0 .. EVENT_DECAY_BUCKETS - 1
NoDuration == -1
NoType == CHOOSE t \in Type : TRUE

DcyInit ==
  dcy = [where |-> [i \in Item |-> "none"], type |-> [i \in Item |-> NoType],
         dur |-> [i \in Item |-> NoDuration], decaying |-> {}, refs |-> [i \in Item |-> 0],
         toRelease |-> <<>>, toDecay |-> <<>>, buckets |-> [b \in Bucket |-> <<>>],
         left |-> [i \in Item |-> 0], again |-> {}, missed |-> {}]

Times(q, i) == Cardinality({n \in DOMAIN q : q[n] = i})
Entries(s, i) == Times(s.toDecay, i) + Times(s.buckets[0], i) + Times(s.buckets[1], i)
                 + Times(s.buckets[2], i) + Times(s.buckets[3], i)

-----------------------------------------------------------------------------
(* Operations *)

\* Item::canDecay
CanDecay(s, i) == s.where[i] = "world" /\ DecayTo[s.type[i]] # "never" /\ DecayTime[s.type[i]] > 0

\* What every place does that registers an item.
Register(s, i) ==
  [s EXCEPT !.refs[i] = @ + 1, !.decaying = @ \cup {i}, !.toDecay = <<i>> \o @,
            !.left[i] = s.dur[i],
            !.again = IF Entries(s, i) > 0 THEN @ \cup {i} ELSE @]

RegisterUnlessDone(s, i) ==
  IF s.dur[i] > 0 /\ i \notin s.decaying THEN Register(s, i) ELSE s

\* Game::ReleaseItem
ReleaseItem(s, i) == [s EXCEPT !.toRelease = Append(@, i)]

\* Item::CreateItem, with its default duration, and its place in the world.
Create(s, i, t) ==
  [s EXCEPT !.where[i] = "world", !.type[i] = t, !.refs[i] = 1,
            !.dur[i] = IF DecayTime[t] > 0 THEN DecayTime[t] ELSE NoDuration]

\* Item::setID
SetID(s, i, t) ==
  LET forget == DecayTime[t] = 0 /\ t \notin StopTime /\ DecayTo[t] = "never"
      renew  == DecayTime[t] > 0 /\ (s.type[i] \notin StopTime \/ s.dur[i] = NoDuration)
  IN  [s EXCEPT !.type[i] = t,
                !.decaying = IF forget \/ renew THEN @ \ {i} ELSE @,
                !.dur[i] = IF forget THEN NoDuration ELSE IF renew THEN DecayTime[t] ELSE @,
                !.left[i] = IF renew /\ Entries(s, i) > 0 THEN DecayTime[t] ELSE @,
                !.again = IF Entries(s, i) > 0 THEN @ \cup {i} ELSE @]

\* Game::internalRemoveItem.  What is removed cannot decay, so that the test
\* after onRemoved never takes it off a bucket: its entry is left to checkDecay.
RemoveItem(s, i) == ReleaseItem([s EXCEPT !.where[i] = "removed"], i)

\* Game::transformItem puts a new item of another class in the place of the old.
Replace(s, i, j, t) == RegisterUnlessDone(Create(RemoveItem(s, i), j, t), j)

\* Game::startDecay for what has just got its duration.
StartAnew(s, i) == IF CanDecay(s, i) THEN RegisterUnlessDone(s, i) ELSE s

Freed(s) == {j \in Item : s.where[j] = "none"}

\* Game::internalDecayItem; transformItem can put off nothing when no object is
\* left for the new item (a bound).
InternalDecayItem(s, i) ==
  LET t == DecayTo[s.type[i]]
  IN  IF t = "gone" \/ (Class[t] # Class[s.type[i]] /\ Freed(s) = {}) THEN RemoveItem(s, i)
      ELSE IF Class[t] = Class[s.type[i]] THEN StartAnew(SetID(s, i, t), i)
      ELSE Replace(s, i, CHOOSE j \in Freed(s) : TRUE, t)

\* Game::startDecay
StartDecay(s, i) == IF CanDecay(s, i) /\ i \notin s.decaying /\ s.dur[i] <= 0
                    THEN InternalDecayItem(s, i) ELSE StartAnew(s, i)

\* An item with one entry decays at its time, less than two checks late, for the
\* check that comes before its bucket is chosen; and early by what rounding to
\* whole rounds of buckets makes of durations that are not whole seconds.
InTime(s, i) == 0 - 2 * EVENT_DECAYINTERVAL < s.left[i] /\ s.left[i] <= Round - EVENT_DECAYINTERVAL

TimeOver(s, i) ==
  ReleaseItem(InternalDecayItem([s EXCEPT !.missed = IF i \notin s.again /\ ~InTime(s, i)
                                                     THEN @ \cup {i} ELSE @], i), i)

\* What checkDecay leaves of a duration, and the bucket for it, counted from
\* the one at hand.
Rest(s, i) == IF s.dur[i] > Round THEN s.dur[i] - Round ELSE 0
NewBucket(rest) == (rest + EVENT_DECAYINTERVAL \div 2) \div Second

\* What cannot decay is out of time once its last entry is gone.
Stopped(s, i) == [s EXCEPT !.decaying = @ \ {i}, !.left[i] = IF Entries(s, i) = 0 THEN 0 ELSE @]

\* Mutant of CheckEntry: a duration is not shortened when the item stays.
CheckEntryUnshortened(s, i, rest) ==
  IF ~CanDecay(s, i) THEN ReleaseItem(Stopped(s, i), i)
  ELSE IF rest > 0 /\ (rest >= Round \/ NewBucket(rest) # 0)
       THEN LET b == IF rest >= Round THEN 0 ELSE NewBucket(rest)
            IN  [s EXCEPT !.buckets[b] = Append(@, i)]
       ELSE TimeOver([s EXCEPT !.dur[i] = rest], i)

\* One entry of the bucket at hand, with what is left of its duration; the
\* entries that stay are put back in their order.
CheckEntry(s, i, rest) ==
  IF ~CanDecay(s, i) THEN ReleaseItem(Stopped(s, i), i)
  ELSE IF rest > 0 /\ (rest >= Round \/ NewBucket(rest) # 0)
       THEN LET b == IF rest >= Round THEN 0 ELSE NewBucket(rest)
            IN  [s EXCEPT !.dur[i] = rest, !.buckets[b] = Append(@, i)]
       ELSE TimeOver([s EXCEPT !.dur[i] = rest], i)

TakeUp(s, i) == CheckEntry(s, i, Rest(s, i))

\* Game::cleanup: a reference less for what was released, and then buckets for
\* what was registered.
Unreference(s, i) ==
  IF s.refs[i] > 1 THEN [s EXCEPT !.refs[i] = @ - 1]
  ELSE [s EXCEPT !.refs[i] = 0, !.where[i] = "none", !.type[i] = NoType, !.dur[i] = NoDuration,
                 !.decaying = @ \ {i}, !.left[i] = 0, !.again = @ \ {i}]

FirstBucket(s, i) ==
  IF s.dur[i] >= Round THEN EVENT_DECAY_BUCKETS - 1
  ELSE IF s.dur[i] = NoDuration THEN 0
  ELSE s.dur[i] \div Second

PutInBucket(s, i) == [s EXCEPT !.buckets[FirstBucket(s, i)] = Append(@, i)]

CleanedUp(s) ==
  LET t == [FoldLeft(Unreference, s, s.toRelease) EXCEPT !.toRelease = <<>>]
  IN  [FoldLeft(PutInBucket, t, t.toDecay) EXCEPT !.toDecay = <<>>]

-----------------------------------------------------------------------------
(* Steps of the dispatcher *)

\* Bound: so many entries of all items, and so many releases at a time.
Within(s) == /\ FoldFunction(+, 0, [i \in Item |-> Entries(s, i)]) <= MaxDecaying
             /\ Len(s.toRelease) <= 1

\* CreateItem and internalAddItem, which does not ask whether it is registered.
PutDown ==
  \E i \in Freed(dcy), t \in {u \in Type : DecayTime[u] > 0 \/ u \in StopTime} :
    LET s == Create(dcy, i, t) IN dcy' = IF s.dur[i] > 0 THEN Register(s, i) ELSE s

\* Item::clone registers the copy, and internalAddItem registers it again.
Clone ==
  \E i \in Item, j \in Freed(dcy) :
    /\ dcy.where[i] = "world"
    /\ LET s == [Create(dcy, j, dcy.type[i]) EXCEPT !.dur[j] = dcy.dur[i],
               !.decaying = IF i \in @ THEN @ \cup {j} ELSE @]
       IN  dcy' = IF s.dur[j] > 0 THEN Register(Register(s, j), j) ELSE s

\* An item read from the database: what was decaying is pending until
\* startDecaying, or until it is moved if it lies in a depot.
Load ==
  \E i \in Freed(dcy), t \in {u \in Type : DecayTime[u] > 0 \/ u \in StopTime}, d \in Durations :
    dcy' = [Create(dcy, i, t) EXCEPT !.dur[i] = d]

\* internalMoveItem
Move == \E i \in Item : dcy.where[i] = "world" /\ dcy' = RegisterUnlessDone(dcy, i)

\* internalRemoveItem, from a script, by use, or with a house or a player.
TakeAway == \E i \in Item : dcy.where[i] = "world" /\ dcy' = RemoveItem(dcy, i)

\* startDecay, from item:decay or Item::startDecaying.
Decays == \E i \in Item : dcy.where[i] = "world" /\ dcy' = StartDecay(dcy, i)

\* item:transform, with or without item:decay after it; EquipItem and DeEquipItem
\* do both.
Turn ==
  \E i \in Item : \E t \in {u \in Type : <<dcy.type[i], u>> \in Turns} :
    /\ dcy.where[i] = "world"
    /\ \/ dcy' = SetID(dcy, i, t)
       \/ dcy' = StartDecay(SetID(dcy, i, t), i)

\* Game::checkDecay
CheckDecay ==
  LET s == [dcy EXCEPT !.left = [i \in Item |-> IF Entries(dcy, i) > 0 THEN @[i] - EVENT_DECAYINTERVAL
                                                ELSE @[i]],
                       !.buckets[0] = <<>>]
      t == FoldLeft(TakeUp, s, dcy.buckets[0])
  IN  dcy' = CleanedUp([t EXCEPT !.buckets =
                          [b \in Bucket |-> t.buckets[(b + 1) % EVENT_DECAY_BUCKETS]]])

\* The cleanup of checkCreatures and checkCreatureWalk.
CleanUp == (dcy.toDecay # <<>> \/ dcy.toRelease # <<>>) /\ dcy' = CleanedUp(dcy)

DcyNext == (PutDown \/ Clone \/ Load \/ Move \/ TakeAway \/ Decays \/ Turn \/ CheckDecay \/ CleanUp)
           /\ Within(dcy')

DcySpec == DcyInit /\ [][DcyNext]_dcy

-----------------------------------------------------------------------------
(* Properties *)

\* Decay keeps its books (game.cpp:4355-4427): the reference counter of an item is
\* the number of lists that hold it and of the place where it lies, an object is
\* freed when it comes to zero and not before, and an item that is marked as
\* decaying has an entry that will be taken up.  No item outlasts its time by two
\* checks, and one that was registered only once does not decay before its time
\* either.
DecayAgrees ==
  /\ \A i \in Item :
       /\ dcy.refs[i] = Entries(dcy, i) + Times(dcy.toRelease, i)
                        + (IF dcy.where[i] = "world" THEN 1 ELSE 0)
       /\ dcy.where[i] = "none" <=> dcy.refs[i] = 0
       /\ i \in dcy.decaying /\ CanDecay(dcy, i) => Entries(dcy, i) > 0
       /\ Entries(dcy, i) > 0 /\ CanDecay(dcy, i) => dcy.left[i] >= 0 - EVENT_DECAYINTERVAL
  /\ dcy.missed = {}
=============================================================================
