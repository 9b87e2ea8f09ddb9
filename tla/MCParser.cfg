SPECIFICATION Spec
CONSTANTS
  Calls <- MCCalls
  NoCall = NoCall
  LenWord = 65536
INVARIANTS
  TypeOK
  ReadsOwnBytes
  DataIsTheRest
  StaysInBuffer
