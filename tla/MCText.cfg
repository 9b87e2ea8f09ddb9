SPECIFICATION Spec
CONSTANTS
  Accounts <- MCAccounts
  Blocks <- MCBlocks
  Check <- MCCheck
  NoRequest = NoRequest
INVARIANTS
  TypeOK
  NothingLeftOver
  StaysInUnion
  ReceiversDiffer
