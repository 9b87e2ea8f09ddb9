SPECIFICATION FairSpec
CONSTANTS
  Block <- AllBlocks
  NoBlock = NoBlock
  Nothing = Nothing
INVARIANTS
  TypeOK
  ScreenShowsStep
PROPERTIES
  FieldsShown
  ImplementsPrompts
