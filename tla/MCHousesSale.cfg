SPECIFICATION HouSpec
CONSTANTS
  Resident = {a, b, c}
  House = {h}
  Nowhere = Nowhere
PROPERTY OnlyOwnersSell
