SPECIFICATION CallSpec
CONSTANTS
  a = a
  b = b
  User <- Users
  MaxOffers = 3
  MaxBehind = 2
  Parts <- PartsStudied
  MaxDead = 1
  MaxCalls = 2
SYMMETRY Symmetry
INVARIANTS CapturesWanted SwitchesAgree KeyNotStuck CallsConnect ListsAgree
CHECK_DEADLOCK FALSE
