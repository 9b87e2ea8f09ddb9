SPECIFICATION Spec
CONSTANTS
  text = text
  zero = zero
  Byte <- Bytes
  Printable = {text}
  ZeroByte = zero
  Garbage = Garbage
  DataCap = 2
  Apdu <- DataApdus
  Hash <- MCHash
  Transports = {"HID"}
  Overlap <- NoOverlap
  Timeout = 1
  MaxData = 4
  NoApdu = NoApdu
  NoRequest = NoRequest
INVARIANT
  ShownIsHashed
