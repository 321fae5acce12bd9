SPECIFICATION RxFairSpec
CONSTANTS
  Size = 3
  MaxPacket = 3
  MaxReceived = 9
INVARIANTS ReceiveInv ReadableIsReady
PROPERTIES AllRead ReadInOrder
