------------------------------- MODULE Scripts -------------------------------
(***************************************************************************)
(* What scripts hold while they run, and what they leave behind            *)
(* (luascript.cpp).                                                        *)
(*                                                                         *)
(* The engine calls scripts, which call the engine, which calls scripts:   *)
(* each running script has an environment, the next of a small array.  It  *)
(* keeps the items the script has created but not placed (tempItems; their *)
(* parent is the virtual cylinder) and the items it has a number for       *)
(* (localMap); results of queries are kept for all of them together.  An   *)
(* item that is given up is released, and freed by Game::cleanup between   *)
(* tasks; its memory may then be another item.  Timer events and callbacks *)
(* of queries keep references in the registry of Lua until they have run.  *)
(*                                                                         *)
(* Where an item lies, and how many are in a stack, is left to Items.      *)
(***************************************************************************)
EXTENDS Naturals, FiniteSets

CONSTANTS Thing,     \* memory for items
          Stacks,    \* those whose items are stackable
          Timer,     \* timer events: 1..n, in the order of their numbers
          AsyncCall,     \* asynchronous queries with a callback
          Limit      \* scriptEnv has so many entries (16)

ASSUME ScriptsAssumption == /\ Stacks \subseteq Thing /\ Limit \in Nat \ {0}
                            /\ Timer \subseteq Nat /\ Timer \cap AsyncCall = {}

VARIABLE scr

\* An item that is in the world has a parent there; one that is adrift has
\* no parent and has not been released either.
Place == {"none", "virtual", "world", "adrift", "released"}

\* depth: scriptEnvIndex + 1; running: the timer event or callback, if any,
\* whose task this is; twice (history): something was released in its place, or
\* released or unreferenced a second time; parted (history): stacks of which a part was merged.
ScriptsTypeOK ==
  /\ scr.depth \in 0..Limit + 1 /\ scr.running \subseteq Timer \cup AsyncCall /\ scr.twice \in BOOLEAN
  /\ scr.place \in [Thing -> Place] /\ scr.parted \subseteq Thing
  /\ scr.temp \cup scr.known \subseteq (1..Limit) \X Thing
  /\ scr.events \cup scr.waiting \cup scr.expired \cup scr.set \subseteq Timer
  /\ scr.asked \cup scr.results \subseteq AsyncCall /\ scr.refs \subseteq Timer \cup AsyncCall

ScriptsInit ==
  scr = [depth |-> 0, running |-> {}, place |-> [i \in Thing |-> "none"], temp |-> {}, known |-> {},
         events |-> {}, waiting |-> {}, expired |-> {}, set |-> {}, refs |-> {},
         asked |-> {}, results |-> {}, parted |-> {}, twice |-> FALSE]

-----------------------------------------------------------------------------
(* Items *)

Unused(s) == {i \in Thing : s.place[i] = "none"}
IsRemoved(s, i) == s.place[i] \notin {"virtual", "world"}

ReleaseItem(s, i) ==
  IF s.place[i] \in {"world", "released"} THEN [s EXCEPT !.twice = TRUE] ELSE [s EXCEPT !.place[i] = "released"]
TakenOut(s, i) == [s EXCEPT !.place[i] = "adrift"]

AddTempItem(s, i) == [s EXCEPT !.temp = @ \cup {<<s.depth, i>>}, !.place[i] = "virtual"]
RemoveTempItem(s, i) == [s EXCEPT !.temp = {e \in @ : e[2] # i}]

AddThing(s, i) == IF IsRemoved(s, i) THEN s ELSE [s EXCEPT !.known = @ \cup {<<s.depth, i>>}]
RemoveItemByUID(s, i) == [s EXCEPT !.known = @ \ {<<s.depth, i>>}]
InsertItem(s, i) == [s EXCEPT !.known = @ \cup {<<s.depth, i>>}]

\* Game::internalAddItem without an error: the item is placed; or it merges
\* into a stack, wholly, and is released; or in part, whereupon a clone takes
\* the rest, or is released if there is no room, and the item stays behind.
Placed(s, i) == [s EXCEPT !.place[i] = "world"]
Merged(s, i) == ReleaseItem(RemoveTempItem(s, i), i)
Parted(s, i, j, where) ==
  [s EXCEPT !.place[j] = where, !.parted = @ \cup {i}, !.place[i] = IF @ = "none" THEN "adrift" ELSE @]
InternalAddItem(s, i) ==
  {Placed(s, i)} \cup
  (IF i \in Stacks
   THEN {Merged(s, i)} \cup {Parted(s, i, j, w) : j \in (Unused(s) \cap Stacks) \ {i}, w \in {"world", "released"}}
   ELSE {})

\* Game::internalRemoveItem, of the whole; the virtual cylinder refuses.
InternalRemoveItem(s, i) ==
  IF s.place[i] = "world" THEN ReleaseItem(RemoveTempItem(TakenOut(s, i), i), i) ELSE s

\* Mutant: everything the script created is released.
AbandonedAnyhow(s, i) == TRUE
\* ScriptEnvironment::resetEnv releases what still has no place.
Abandoned(s, i) == s.place[i] = "virtual"

Each(s, items) == [s EXCEPT !.place = [i \in Thing |-> IF i \in items THEN "released" ELSE @[i]],
                            !.twice = @ \/ \E i \in items : s.place[i] \in {"world", "released"}]

\* The results of all scripts go, those of the caller too.
ResetEnv(s) ==
  LET mine == {i \in Thing : <<s.depth, i>> \in s.temp /\ Abandoned(s, i)}
  IN  [Each(s, mine) EXCEPT !.temp = {e \in @ : e[1] # s.depth}, !.known = {e \in @ : e[1] # s.depth},
                            !.results = {}, !.depth = @ - 1]

-----------------------------------------------------------------------------
(* Calls of a script *)

Running == scr.depth \in 1..Limit
Alive(i) == scr.place[i] # "none"

\* Game.createItem and Game.createContainer; whether there was room for it at
\* its position is not asked.
CreateItem == \E i \in Unused(scr) : Running /\ scr' = AddTempItem(scr, i)
CreateItemAt == \E i \in Unused(scr) :
  Running /\ scr' \in InternalAddItem(scr, i) \cup {[scr EXCEPT !.place[i] = "adrift"]}

\* addItem of a tile or a container, of a player (who may be given several),
\* and doPlayerAddItem, which gives the last one a number.  An item that is
\* refused is deleted.
AddItem == \E i \in Unused(scr) : Running /\ scr' \in InternalAddItem(scr, i)
PlayerAddItem == \E i \in Unused(scr) :
  Running /\ \E s \in InternalAddItem(scr, i) : \E j \in Unused(s) : scr' \in InternalAddItem(s, j)
DoPlayerAddItem == \E i \in Unused(scr) :
  Running /\ \E s \in InternalAddItem(scr, i) : scr' = IF s.place[i] = "world" THEN AddThing(s, i) ELSE s

\* addItemEx of an item that has been created
AddItemEx == \E i \in Thing :
  /\ Running /\ scr.place[i] = "virtual"
  /\ \E s \in InternalAddItem(scr, i) : scr' = RemoveTempItem(s, i)

\* item:moveTo leaves tempItems alone.
MoveTo == \E i \in Thing : Running /\ scr.place[i] = "virtual" /\ scr' \in InternalAddItem(scr, i)

RemoveItem == \E i \in Thing : Running /\ Alive(i) /\ scr' = InternalRemoveItem(scr, i)

\* item:transform: the item changes, is used up, or is replaced.
Replaced(s, i, j) == InsertItem(RemoveItemByUID(ReleaseItem(TakenOut(Placed(AddThing(s, i), j), i), i), i), j)
UsedUp(s, i) == LET t == InternalRemoveItem(AddThing(s, i), i)
                IN  IF IsRemoved(t, i) THEN RemoveItemByUID(t, i) ELSE t
Transform == \E i \in Thing :
  /\ Running /\ Alive(i)
  /\ \/ scr' = AddThing(scr, i)
     \/ scr' = UsedUp(scr, i)
     \/ scr.place[i] = "world" /\ \E j \in Unused(scr) : scr' = Replaced(scr, i, j)

Clone == \E i \in Thing, j \in Unused(scr) : Running /\ Alive(i) /\ scr' = AddTempItem(scr, j)

\* item:split: a clone has a part, and the rest stays or was everything.
Split == \E i \in Stacks, j \in Unused(scr) \cap Stacks :
  /\ Running /\ Alive(i)
  /\ \E s \in {AddThing(scr, i), UsedUp(scr, i)} : scr' = AddTempItem(s, j)

StoreQuery == \E q \in AsyncCall : Running /\ scr' = [scr EXCEPT !.results = @ \cup {q}]
ResultFree == \E q \in scr.results : Running /\ scr' = [scr EXCEPT !.results = @ \ {q}]

-----------------------------------------------------------------------------
(* Running scripts *)

\* reserveScriptEnv, from a task or from a script; when it fails the index
\* stays too high, and what follows is undefined.
Call == scr.depth \in 0..Limit /\ scr' = [scr EXCEPT !.depth = @ + 1]

Unref(s, tasks) == [s EXCEPT !.refs = @ \ tasks, !.twice = @ \/ ~(tasks \subseteq s.refs)]

\* callFunction ends with resetScriptEnv, whether the script failed or not;
\* the task of a timer event or of a callback then gives up its references.
Return ==
  /\ Running
  /\ scr' = IF scr.depth = 1 THEN [Unref(ResetEnv(scr), scr.running) EXCEPT !.running = {}]
            ELSE ResetEnv(scr)

\* addEvent and stopEvent
LuaAddEvent == \E k \in Timer :
  /\ Running /\ \A x \in Timer \ scr.set : k <= x
  /\ k \notin scr.set
  /\ scr' = [scr EXCEPT !.set = @ \cup {k}, !.events = @ \cup {k}, !.waiting = @ \cup {k}, !.refs = @ \cup {k}]

StopTimer(s, k) == [Unref(s, {k}) EXCEPT !.events = @ \ {k}, !.waiting = @ \ {k}]
LuaStopEvent == \E k \in scr.events : Running /\ scr' = StopTimer(scr, k)

\* db.asyncQuery and db.asyncStoreQuery with a callback
AsyncQuery == \E q \in AsyncCall : Running /\ q \notin scr.asked \cup scr.refs
                               /\ scr' = [scr EXCEPT !.asked = @ \cup {q}, !.refs = @ \cup {q}]

TimerExpires == \E k \in scr.waiting : scr' = [scr EXCEPT !.waiting = @ \ {k}, !.expired = @ \cup {k}]

Idle == scr.depth = 0
ExecuteTimerEvent == \E k \in scr.expired :
  /\ Idle
  /\ scr' = IF k \in scr.events
            THEN [scr EXCEPT !.expired = @ \ {k}, !.events = @ \ {k}, !.depth = 1, !.running = {k}]
            ELSE [scr EXCEPT !.expired = @ \ {k}]
Callback == \E q \in scr.asked, stored \in BOOLEAN :
  /\ Idle
  /\ scr' = [scr EXCEPT !.asked = @ \ {q}, !.depth = 1, !.running = {q},
                        !.results = IF stored THEN @ \cup {q} ELSE @]

\* Game::cleanup, a task of its own, frees what has been released.
Cleanup == /\ Idle
           /\ scr' = [scr EXCEPT !.place = [i \in Thing |-> IF @[i] = "released" THEN "none" ELSE @[i]],
                                 !.parted = {i \in @ : scr.place[i] # "released"}]

ScriptsNext ==
  \/ CreateItem \/ CreateItemAt \/ AddItem \/ PlayerAddItem \/ DoPlayerAddItem \/ AddItemEx \/ MoveTo \/ RemoveItem
  \/ Transform \/ Clone \/ Split \/ StoreQuery \/ ResultFree
  \/ Call \/ Return \/ LuaAddEvent \/ LuaStopEvent \/ AsyncQuery
  \/ TimerExpires \/ ExecuteTimerEvent \/ Callback \/ Cleanup

ScriptsSpec == ScriptsInit /\ [][ScriptsNext]_scr

-----------------------------------------------------------------------------
\* Whatever scripts create, place, move, split, transform and remove, each
\* calling others in the midst of it: an item without a place belongs to one
\* running script, which will release it (a stack that was merged in part is
\* the exception: addItemEx takes it for placed, and nobody frees it); no
\* script holds on to memory that is free; and nothing is released twice.
ItemsOwned ==
  /\ \A i \in Thing : scr.place[i] = "virtual" =>
       \/ Cardinality({e \in scr.temp : e[2] = i}) = 1
       \/ i \in scr.parted /\ {e \in scr.temp : e[2] = i} = {}
  /\ \A e \in scr.temp \cup scr.known : e[1] <= scr.depth /\ scr.place[e[2]] # "none"
  /\ ~scr.twice

\* Each event and each callback has its references until its task is over
\* or it is stopped, and not longer: Lua gives freed numbers to others.
RefsOwned == scr.refs = scr.events \cup scr.asked \cup scr.running

\* An event of the scheduler that has a Lua event is yet to come.
EventsCome == scr.events \subseteq scr.waiting \cup scr.expired

\* When no script runs, none has left anything.
NothingLeft == Idle => scr.temp = {} /\ scr.known = {} /\ scr.results = {} /\ scr.running = {}

ScriptsAgree == ScriptsTypeOK /\ ItemsOwned /\ RefsOwned /\ EventsCome /\ NothingLeft
=============================================================================
