SPECIFICATION Spec
CONSTANTS
  Calls <- BlockCalls
  NoCall = NoCall
  LenWord = 65536
INVARIANT
  MinimumSizeVerified
