CONSTANTS
  Client = {ann, bob, cid, gm}
  PremiumClient = {ann}
  AlwaysLogin = {gm}
  MaxPlayers = 2
  Stamp = Stamp
  MaxEntries = 3
SPECIFICATION WaitSpec
PROPERTIES RetryKeepsPlace
