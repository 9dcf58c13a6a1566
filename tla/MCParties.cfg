CONSTANTS
  Player = {ann, bob, cid}
  Address = {x, y}
  Spot = {x, y}
  Level = {1, 2}
  None = None
  Trader = {ann, bob, cid}
  Item = {x, y, hat}
  Container = {x, y}
  Square = {0, 1, 2}
  ItemRange = 0
  TalkRange = 1
  Slots = 1
  Capacity = 1
  NoTrader = NoTrader
  Gone = Gone
  Resident = {ann, bob, cid}
  House = {h}
  Nowhere = Nowhere
  Person = {amy, ben}
  Band = {z}
  GuildId = {sun, moon}
  Unranked = {moon}
  Topic = {help}
  PrivateId = {100}
  Premium = {amy}
  Nobody = Nobody
SPECIFICATION PartiesSpec
INVARIANTS Parties HousesInOrder 
 
SYMMETRY PartiesSymmetry
CHECK_DEADLOCK FALSE
