CONSTANTS
  MaxSend = 3
  MaxPackets = 2
  Proto = {1, 2, 3}
  None = None
  ReplaceKick = TRUE
  Client = {fay, gus, hal, gm}
  PremiumClient = {fay}
  AlwaysLogin = {gm}
  MaxPlayers = 2
  Stamp = Stamp
  MaxEntries = 2
  Port = {1, 2}
  NoPort = NoPort
SPECIFICATION NetworkSpec
INVARIANTS Ports ConnectionAgrees SessionsSound
PROPERTIES WaitListHolds FlushedBeforeClose ClosesUnlessStalled PlayersEnd
\* A connection that has been destroyed, and main when it has left, do no more.
CHECK_DEADLOCK FALSE
