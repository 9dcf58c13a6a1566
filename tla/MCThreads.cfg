CONSTANTS
  Task = {a, b, c}
  Expiring = {c}
  Terminator = terminator
  Thread = {disp, main, sched}
  DispThread = disp
  Query = {p, q, r}
  WithCallback = {p}
  Caller = {disp}
  Worker = worker
  NoQuery = NoQuery
  Event = {e, f, g}
  IdLimit = 2
  Absent = Absent
  Completed = Completed
  Monster = {m1, m2, m3, m4}
  Block = {1, 2}
  RateSpawn = 1
  RaidName = {once, often}
  Repeated = {often}
  Length <- MCLength
  MaxLoads = 2
  MaxChains = 3
  Request = {"u", "m"}
  Style <- MCStyle
  MaxPath = 2
  MaxMishaps = 1
SPECIFICATION ThreadsSpec
INVARIANTS TypeOK NoLostWakeup NothingLost QueriesAccounted EventsAccounted SpawnsAndRaids WalkInOrder
PROPERTIES ShutdownTerminates QueueSpec AcceptedQueriesRun EventsAreDelivered TheWorldGoesOn StrandedForAReason WalksEnd
\* Each component stops when it has been shut down.
CHECK_DEADLOCK FALSE
