CONSTANTS
  MaxSend = 3
  MaxPackets = 2
SPECIFICATION Spec
PROPERTIES ClosedSocketCloses
\* A connection that has been destroyed does nothing more.
CHECK_DEADLOCK FALSE
