CONSTANTS
  Signal = {sigint}
  Work = {packet}
  GameShutdown = gameShutdown
  Terminator = terminator
  Query = {q}
  WithCallback = {q}
  Event = {ev}
  Main = main
  Disp = disp
  Sched = sched
  Worker = worker
  IdLimit = 2
  Absent = Absent
  Completed = Completed
  NoQuery = NoQuery
  Duellist = {d1, d2}
  Caster = {d1}
  Spell <- MCSpells
  MaxExhaust = 2
  Script <- MCScript
  MaxHealth = 2
  MaxMana = 1
  Strength = 2
  MaxDeaths = 1
  MaxRunes = 1
  Weary <- MCWeary
  Thing = {1, 2}
  Stacks = {1, 2}
  Timer = {1}
  AsyncCall = {q}
  Limit = 2
SPECIFICATION ProcessSpec
INVARIANTS NothingOwedAtExit WorkBeforeShutdown Blows 
PROPERTIES SignalEndsProcess ComponentSteps ComponentsGoOn
CHECK_DEADLOCK FALSE
