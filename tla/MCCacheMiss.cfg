SPECIFICATION Spec
CONSTANTS
  text = text
  zero = zero
  Byte <- Bytes
  Printable = {text}
  ZeroByte = zero
  Garbage = Garbage
  DataCap = 1
  Apdu <- CacheApdus
  Hash <- MCHash
  Transports = {"HID"}
  Overlap <- NoOverlap
  Timeout = 1
  MaxData = 1
  NoApdu = NoApdu
  NoRequest = NoRequest
INVARIANT
  CacheMissReported
