SPECIFICATION FairSpec
CONSTANTS
  text = text
  zero = zero
  Byte <- Bytes
  Printable = {text}
  ZeroByte = zero
  Garbage = Garbage
  DataCap = 1
  Apdu <- ControlApdus
  Hash <- MCHash
  Transports = {"HID", "U2F"}
  Overlap <- NoOverlap
  Timeout = 3
  MaxData = 1
  NoApdu = NoApdu
  NoRequest = NoRequest
INVARIANTS
  TypeOK
  ScreenMatchesRequest
  ReplyMatchesRequest
  TimerOnlyOnU2f
  HaltedReleasesNothing
PROPERTIES
  ImplementsConfirmOnce
  ImplementsPrompts
  PromptShown
  AnswerDelivered
  U2fNeverHangs
