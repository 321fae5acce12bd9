SPECIFICATION RxSpec
CONSTANTS
  Size = 5
  Bytes = {b1, b2}
  NoByte = NoByte
PROPERTY RefinesByteQueue
