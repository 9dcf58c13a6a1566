SPECIFICATION SavSpec
CONSTANTS
  Coin = {c}
  Letter = {l}
  MaxTries = 3
  MaxLosses = 1
PROPERTY DoneMeansStored
CHECK_DEADLOCK FALSE
