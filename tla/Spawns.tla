------------------------------- MODULE Spawns ------------------------------
(***************************************************************************)
(* A spawn (src/engine/src/spawn.cpp): it fills its blocks when the server *)
(* starts, holds a counted reference to each monster it made, and refills  *)
(* free blocks from an event that it schedules only when it lacks monsters.*)
(*                                                                         *)
(* spawnedMap is a multimap: a monster is held under its block, or under 0 *)
(* once it has left the zone.  Only cleanup notices that a monster is gone,*)
(* and only when the event runs.                                           *)
(*                                                                         *)
(* Of time the model keeps whether a block's interval has elapsed; what    *)
(* keeps a block from being refilled, a player who watches, no room or a   *)
(* script's veto, is that it is barred.  The timer and the dispatcher's    *)
(* queue are two steps, as in Scheduler.  A Monster is an object, reusable *)
(* when it has been deleted.                                               *)
(***************************************************************************)
EXTENDS Integers, FiniteSets, FiniteSetsExt

CONSTANTS Monster,  \* objects
          Block,    \* spawnIds, from 1 on
          RateSpawn \* ConfigManager::RATE_SPAWN

\* There are enough objects to fill the blocks.
ASSUME SpawnsAssumption == /\ IsFiniteSet(Block) /\ Block = 1..Cardinality(Block)
                           /\ RateSpawn \in Nat \ {0}
                           /\ IsFiniteSet(Monster) /\ Cardinality(Monster) >= Cardinality(Block)

VARIABLE spn

Away == 0     \* the key of those that have left
Unheld == -1

\* held: the key in spawnedMap; owned: Monster::spawn is set; outside: beyond
\* the zone; elapsed: lastSpawn + interval is over; eventId: checkSpawnEvent is
\* not 0; timers and posted: events under way, on the timer and in
\* the queue; skipped: blocks that Startup left empty.
SpawnsInit ==
  spn = [open |-> TRUE, started |-> FALSE,
         stage |-> [m \in Monster |-> "none"], held |-> [m \in Monster |-> Unheld],
         owned |-> {}, outside |-> {}, elapsed |-> Block, barred |-> {},
         eventId |-> FALSE, timers |-> 0, posted |-> 0, skipped |-> {}]

Entries(s) == {m \in Monster : s.held[m] # Unheld}
Occupied(s, b) == \E m \in Monster : s.held[m] = b
Lacking(s) == Cardinality(Entries(s)) < Cardinality(Block)
Spare(s) == {m \in Monster : s.stage[m] = "none"}

\* Mutant: without asking whether there is one.
StartAnotherCheck(s) == [s EXCEPT !.eventId = TRUE, !.timers = @ + 1]

\* Spawn::startSpawnCheck
StartSpawnCheck(s) ==
  IF s.eventId THEN s ELSE [s EXCEPT !.eventId = TRUE, !.timers = @ + 1]

\* Spawn::spawnMonster, for each of some blocks.  Which object becomes which
\* monster says nothing.
Taken(s, blocks) == CHOOSE f \in [blocks -> Spare(s)] : IsInjective(f)

SpawnMonsters(s, new) ==
  [s EXCEPT !.stage   = [m \in Monster |-> IF m \in Range(new) THEN "live" ELSE @[m]],
            !.held    = [m \in Monster |-> IF m \in Range(new) THEN CHOOSE b \in DOMAIN new : new[b] = m ELSE @[m]],
            !.owned   = @ \cup Range(new),
            !.elapsed = @ \ DOMAIN new]

\* Spawn::cleanup: those removed are let go, and deleted; those that strayed
\* free their block.
Cleanup(s) ==
  LET gone  == {m \in Entries(s) : s.stage[m] = "removed"}
      stray == {m \in Entries(s) \ gone : m \in s.outside /\ s.held[m] # Away}
  IN  [s EXCEPT !.held = [m \in Monster |-> IF m \in gone THEN Unheld
                                            ELSE IF m \in stray THEN Away ELSE @[m]],
                !.stage = [m \in Monster |-> IF m \in gone THEN "none" ELSE @[m]],
                !.owned = @ \ gone, !.outside = @ \ gone,
                !.elapsed = @ \ {s.held[m] : m \in gone}]

-----------------------------------------------------------------------------

\* Spawn::startup; a block that is barred now stays empty, and unscheduled.
Startup ==
  /\ ~spn.started
  /\ spn' = SpawnMonsters([spn EXCEPT !.started = TRUE, !.skipped = spn.barred],
                          Taken(spn, Block \ spn.barred))

\* Mutant: the first of them only, barred or not.
ReachedFirst(s) ==
  LET free == {b \in Block : ~Occupied(s, b)}
  IN  {b \in free \cap s.elapsed : \A x \in free : b <= x}

\* The blocks checkSpawn reaches: those free whose interval is over, in order
\* and until RateSpawn monsters are made.
Reached(s) ==
  LET ready == {b \in s.elapsed : ~Occupied(s, b)}
  IN  {b \in ready : Cardinality({x \in ready \ s.barred : x < b}) < RateSpawn}

\* Spawn::checkSpawn.  The interval of a barred block begins anew, and the next
\* check comes only when there are fewer monsters than blocks.
CheckSpawn ==
  /\ spn.open /\ spn.posted > 0
  /\ Cardinality(Spare(spn)) >= Cardinality(Block)  \* bound: enough objects
  /\ \E s \in {Cleanup([spn EXCEPT !.posted = @ - 1, !.eventId = FALSE, !.skipped = {}])} :
     \E reached \in {Reached(s)} :
     \E new \in {Taken(s, reached \ s.barred)} :
     \E t \in {SpawnMonsters([s EXCEPT !.elapsed = @ \ reached], new)} :
       spn' = IF Lacking(t) THEN StartSpawnCheck(t) ELSE t

\* A live monster dies or is removed: Monster::onRemoveCreature.
Die ==
  \E m \in Monster :
    /\ spn.stage[m] = "live"
    /\ LET s == [spn EXCEPT !.stage[m] = IF spn.held[m] = Unheld THEN "none" ELSE "removed"]
       IN  spn' = IF m \in spn.owned THEN StartSpawnCheck(s) ELSE s

Stray == \E m \in Monster : /\ spn.stage[m] = "live"
                            /\ spn' = [spn EXCEPT !.outside = (@ \ {m}) \cup ({m} \ @)]

TimerFires == spn.timers > 0 /\ spn' = [spn EXCEPT !.timers = @ - 1, !.posted = @ + 1]

Elapse(b) == b \notin spn.elapsed /\ spn' = [spn EXCEPT !.elapsed = @ \cup {b}]

Bar == \E b \in Block : spn' = [spn EXCEPT !.barred = (@ \ {b}) \cup ({b} \ @)]

\* Spawns::clear, Spawn::stopEvent and ~Spawn, when the server shuts down.  What
\* the timer has handed over is beyond recall: it must not run any more.
Clear ==
  /\ spn.open /\ spn.started
  /\ spn' = [spn EXCEPT !.open = FALSE, !.eventId = FALSE,
                        !.timers = IF spn.eventId THEN 0 ELSE @,
                        !.held = [m \in Monster |-> Unheld], !.owned = {}, !.skipped = {},
                        !.stage = [m \in Monster |-> IF @[m] = "removed" THEN "none" ELSE @[m]]]

SpawnsNext == \/ Startup \/ CheckSpawn \/ Die \/ Stray \/ TimerFires
              \/ (\E b \in Block : Elapse(b)) \/ Bar \/ Clear

\* Timers fire, the dispatcher runs what is posted, time passes.
SpawnsFairness == /\ WF_spn(TimerFires) /\ WF_spn(CheckSpawn)
                  /\ \A b \in Block : WF_spn(Elapse(b))

SpawnsSpec == SpawnsInit /\ [][SpawnsNext]_spn /\ SpawnsFairness

-----------------------------------------------------------------------------

\* While the spawn exists it owns exactly what it holds, each block has at most
\* one monster, no monster that is held has been deleted, a single check is
\* under way and checkSpawnEvent knows of it, and whenever it has lost a monster
\* a check is under way: nothing that is removed goes unnoticed (spawn.cpp:196,
\* 325-423 and monster.cpp:217-220).  After ~Spawn no monster knows it.
SpawnAgrees ==
  /\ spn.owned = Entries(spn)
  /\ \A m \in Entries(spn) : spn.stage[m] # "none"
  /\ \A b \in Block : Cardinality({m \in Monster : spn.held[m] = b}) <= 1
  /\ spn.open => /\ spn.timers + spn.posted = IF spn.eventId THEN 1 ELSE 0
                 /\ (\E m \in Entries(spn) : spn.stage[m] = "removed") => spn.eventId
                 /\ spn.started /\ ~spn.eventId =>
                      Cardinality(Entries(spn)) + Cardinality(spn.skipped) >= Cardinality(Block)

\* A block that lost its monster is filled again, unless the spawn is as full as
\* its blocks, something bars the block time and again, or the server shuts
\* down: checks limited by RATE_SPAWN and blocks in order starve none.
BlocksRefill ==
  <>[](spn.barred = {} /\ spn.open) =>
    \A b \in Block : []<>(~spn.started \/ spn.skipped # {} \/ Occupied(spn, b) \/ ~Lacking(spn))
=============================================================================
