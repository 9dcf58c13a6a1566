CONSTANTS
  Proto = {1, 2}
  None = None
  ReplaceKick = TRUE
SPECIFICATION SesSpec
PROPERTIES NoPlayerLeaks
CHECK_DEADLOCK FALSE
