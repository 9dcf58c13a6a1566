-------------------------------- MODULE Raids -------------------------------
(***************************************************************************)
(* Raids (src/engine/src/raids.cpp): an event checks once a minute whether *)
(* to start one of the raids of raids.xml; a raid that runs is a chain of  *)
(* scheduled events, each of which schedules the next.                     *)
(*                                                                         *)
(* Raid objects are deleted when raids.xml is loaded again, an order of a  *)
(* script, of a gamemaster or of SIGHUP, and new ones take their place; a  *)
(* raid that is not to be repeated leaves the list as it starts and is then*)
(* beyond clear's reach.  The timer and the dispatcher's queue are two     *)
(* steps, as in Scheduler: stopEvent does nothing for an event that has    *)
(* been handed over.  A raid's margin and chance are a free choice.        *)
(***************************************************************************)
EXTENDS Integers, FiniteSets

CONSTANTS RaidName,  \* the entries of raids.xml
          Repeated,  \* those with repeat="yes"
          Length,    \* [RaidName -> Nat]: how many events each has
          MaxLoads,  \* bound: times raids.xml is loaded
          MaxChains  \* bound: chains under way at a time

ASSUME RaidsAssumption == /\ Repeated \subseteq RaidName /\ Length \in [RaidName -> Nat]
                          /\ MaxLoads \in Nat \ {0}

VARIABLE raid

NoRaid == <<>>
RaidObject == RaidName \X (1..MaxLoads)

\* checks: checkRaids events, [posted, known], known those of checkRaidsEvent;
\* chains: executeRaidEvent events, each with its raid and the event it
\* executes, known those of the raid's nextEventEvent.
\* late: something was stopped too late; stray: a raid runs that clear has not
\* reached.
RaidsInit ==
  raid = [open |-> TRUE, started |-> TRUE, loads |-> 1,
          list |-> RaidName \X {1}, deleted |-> {}, running |-> NoRaid,
          nextEvent |-> [o \in RaidObject |-> 0],
          checks |-> {[id |-> 1, posted |-> FALSE, known |-> TRUE]}, chains |-> {},
          late |-> FALSE, stray |-> FALSE]

FreeId(events) == CHOOSE i \in 1..MaxChains : \A e \in events : e.id # i
Unknown(events) == {[e EXCEPT !.known = FALSE] : e \in events}

\* Raid::getNextRaidEvent and addEvent, in startRaid and executeRaidEvent
Schedule(s, o) ==
  [s EXCEPT !.chains = {IF c.raid = o THEN [c EXCEPT !.known = FALSE] ELSE c : c \in @}
                         \cup {[id |-> FreeId(@), raid |-> o, event |-> s.nextEvent[o],
                                posted |-> FALSE, known |-> TRUE]}]

HasNext(s, o) == s.nextEvent[o] < Length[o[1]]

StartRaid(s, o) ==
  LET t == [s EXCEPT !.running = o] IN IF HasNext(t, o) THEN Schedule(t, o) ELSE t

ScheduleCheck(s) ==
  [s EXCEPT !.checks = Unknown(@) \cup {[id |-> FreeId(@), posted |-> FALSE, known |-> TRUE]}]

\* Raids::checkRaids, once the event has been handed over
CheckedRaids(s, o) ==
  ScheduleCheck(IF o = NoRaid THEN s
                ELSE [StartRaid(s, o) EXCEPT !.list = IF o[1] \in Repeated THEN @ ELSE @ \ {o}])

\* Mutant: whether or not one is running.
StartableAnyTime(s) == {NoRaid} \cup s.list

Startable(s) == {NoRaid} \cup IF s.running = NoRaid THEN s.list ELSE {}

CheckRaids ==
  \E e \in raid.checks :
    /\ e.posted /\ raid.open
    /\ Cardinality(raid.chains) < MaxChains                           \* bound
    /\ \E o \in Startable(raid) : raid' = CheckedRaids([raid EXCEPT !.checks = @ \ {e}], o)

\* LuaScriptInterface::luaGameStartRaid
ScriptStartsRaid ==
  /\ raid.open /\ Cardinality(raid.chains) < MaxChains                \* bound
  /\ raid.running = NoRaid
  /\ \E o \in raid.list : raid' = StartRaid(raid, o)

\* Mutant: the raid stays the running one.
ResetRaidOnly(s, o) == [s EXCEPT !.nextEvent[o] = 0]

\* Raid::resetRaid
ResetRaid(s, o) == [s EXCEPT !.nextEvent[o] = 0, !.running = NoRaid]

\* Raid::executeRaidEvent; the event itself, a message, monsters or a script,
\* may fail and end the raid.  After its raid's deletion nothing is defined, and
\* the model does not go there.
Executed(s, o, ok) ==
  LET t == [s EXCEPT !.nextEvent[o] = @ + 1]
  IN  IF ok /\ HasNext(t, o) THEN Schedule(t, o) ELSE ResetRaid(IF ok THEN t ELSE s, o)

ExecuteRaidEvent ==
  \E c \in raid.chains, ok \in BOOLEAN :
    /\ c.posted /\ c.raid \notin raid.deleted /\ raid.open
    /\ raid' = Executed([raid EXCEPT !.chains = @ \ {c}], c.raid, ok)

TimerHandsOverCheck ==
  \E e \in raid.checks : /\ ~e.posted
                         /\ raid' = [raid EXCEPT !.checks = (@ \ {e}) \cup {[e EXCEPT !.posted = TRUE]}]

TimerHandsOverEvent ==
  \E c \in raid.chains : /\ ~c.posted
                         /\ raid' = [raid EXCEPT !.chains = (@ \ {c}) \cup {[c EXCEPT !.posted = TRUE]}]

\* Raids::clear and Raid::stopEvents
Stopped(events) == {e \in events : e.known /\ ~e.posted}

StopEvents(s) == [s EXCEPT !.chains = @ \ Stopped({c \in @ : c.raid \in s.list})]

ClearRaids(s) ==
  LET t == StopEvents([s EXCEPT !.checks = @ \ Stopped(@)])
  IN  [t EXCEPT !.late    = @ \/ t.checks # {} \/ \E c \in t.chains : c.posted /\ c.raid \in t.list,
                !.stray   = @ \/ \E c \in t.chains : c.raid \notin t.list,
                !.deleted = @ \cup t.list, !.list = {}, !.running = NoRaid, !.started = FALSE]

\* Raids::reload and startup
ReloadRaids ==
  /\ raid.open /\ raid.loads < MaxLoads
  /\ Cardinality(raid.checks) < MaxChains                             \* bound
  /\ LET s == ClearRaids(raid)
     IN  raid' = ScheduleCheck([s EXCEPT !.loads = @ + 1, !.started = TRUE,
                                         !.list = RaidName \X {s.loads + 1}])

\* Game::shutdown
ShutdownRaids == raid.open /\ raid' = [ClearRaids(raid) EXCEPT !.open = FALSE]

RaidsNext == \/ CheckRaids \/ ScriptStartsRaid \/ ExecuteRaidEvent \/ TimerHandsOverCheck
             \/ TimerHandsOverEvent \/ ReloadRaids \/ ShutdownRaids

\* Timers fire and the dispatcher runs what is posted.
RaidsFairness == WF_raid(TimerHandsOverEvent) /\ WF_raid(ExecuteRaidEvent)

RaidsSpec == RaidsInit /\ [][RaidsNext]_raid /\ RaidsFairness

-----------------------------------------------------------------------------

\* As long as nothing was stopped too late, raids are checked by one chain of
\* events, which clear can stop.  If moreover no raid escaped clear, at most one
\* raid is under way, it is the running one, it has not been deleted, and one
\* event of it is scheduled, the next (raids.cpp:126-172, 241-285).  A raid that
\* did escape sets the running raid to none when it ends, while another runs,
\* which may then start once more and have an event that nothing stops.
OneRaidAtATime ==
  ~raid.late =>
    /\ raid.started => \E e \in raid.checks : raid.checks = {e} /\ e.known
    /\ raid.stray \/ IF raid.running = NoRaid \/ Length[raid.running[1]] = 0
                     THEN raid.chains = {}
                     ELSE \E c \in raid.chains :
                            /\ raid.chains = {c} /\ c.known /\ c.raid = raid.running
                            /\ c.event = raid.nextEvent[c.raid] /\ c.raid \notin raid.deleted

\* A raid that has events does not run for ever, so that others get their turn;
\* one that has none blocks the others until raids.xml is loaded again.
RaidsEnd ==
  \A o \in RaidObject : Length[o[1]] > 0 => []<>(raid.running # o)
=============================================================================
