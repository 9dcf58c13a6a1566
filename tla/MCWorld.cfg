CONSTANTS
  Stack = {s1, s2, s3}
  Bag = {pack, pouch}
  Slot = {1, 2}
  Worn = pack
  Wear <- MCWear
  Kind = {1, 2}
  MaxStack = 2
  Capacity = 2
  Strength = 6
  Body = Body
  Ground = Ground
  Nil = Nil
  Offers = {}
  ScriptSlot = {}
  Stamp = Stamp
  Coin = {c}
  Letter = {l}
  MaxTries = 3
  MaxLosses = 1
  Man = {p}
  Beast = {m, n}
  Tame = {n}
  Place = {here, there}
  Chase = {TRUE}
  NoOne = NoOne
  Spell <- MCSpell
  MaxLater = 2
  Fighter = {k, q}
  PzLockTicks = 1
  WhiteSkullTicks = 2
  PzLockSkullAttacker = FALSE
  KillsToRed = 1
  KillsToBlack = 2
  Item = {i1, i2}
  Type = {"torch", "stub", "ash", "on", "off"}
  DecayTime <- MCTime
  DecayTo <- MCInto
  Class <- MCClass
  StopTime = {"off"}
  Turns <- MCTurns
  Durations = {0, 1, 15}
  MaxDecaying = 2
SPECIFICATION WorldSpec
INVARIANTS  Records  
PROPERTIES Fights 
SYMMETRY MCSame
\* A fighter may be alone, a bag empty.
CHECK_DEADLOCK FALSE
