SPECIFICATION Spec
CONSTANTS
  NumBytes = 2
  Digits = 5
  SymbolMax = 3
  Balances <- MCBalances
  Formats <- MCFormats
INVARIANTS
  TypeOK
  InBounds
  TextIsExact
