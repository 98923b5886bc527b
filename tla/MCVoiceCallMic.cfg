SPECIFICATION CallSpec
CONSTANTS
  a = a
  b = b
  User <- Users
  MaxOffers = 3
  MaxBehind = 1
  Parts <- PartsStudied
  MaxDead = 1
  MaxCalls = 2
SYMMETRY Symmetry
INVARIANT MicObeys
CHECK_DEADLOCK FALSE
