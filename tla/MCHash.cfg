SPECIFICATION Spec
CONSTANTS
  Byte <- MCByte
  Word <- MCWord
  Calls <- MCCalls
INVARIANTS
  TypeOK
  OneByteApart
CHECK_DEADLOCK FALSE
