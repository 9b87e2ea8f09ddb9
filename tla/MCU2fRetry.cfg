SPECIFICATION Spec
CONSTANTS
  text = text
  zero = zero
  Byte <- Bytes
  Printable = {text}
  ZeroByte = zero
  Garbage = Garbage
  DataCap = 1
  Apdu <- RetryApdus
  Hash <- MCHash
  Transports = {"U2F"}
  Overlap <- U2fOverlap
  Timeout = 2
  MaxData = 1
  NoApdu = NoApdu
  NoRequest = NoRequest
INVARIANT
  ReplyMatchesRequest
  U2fHostIsTimed
