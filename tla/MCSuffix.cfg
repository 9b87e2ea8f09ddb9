SPECIFICATION Spec
CONSTANTS
  Block <- KnownToken
  NoBlock = NoBlock
  Nothing = Nothing
INVARIANT
  AmountHasSymbol
