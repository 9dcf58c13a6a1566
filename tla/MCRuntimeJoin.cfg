CONSTANTS
  Signal = {sigint}
  Work = {}
  GameShutdown = gameShutdown
  Terminator = terminator
  Query = {}
  WithCallback = {}
  Event = {}
  Main = main
  Disp = disp
  Sched = sched
  Worker = worker
  IdLimit = 1
  Absent = Absent
  Completed = Completed
  NoQuery = NoQuery
SPECIFICATION Spec
PROPERTIES SignalShutsDown
CHECK_DEADLOCK FALSE
