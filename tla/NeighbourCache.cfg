SPECIFICATION Spec
CONSTANTS
  Nodes = {n1, n2, n3, n4}
  NoNode = NoNode
  MaxNodes = 3
  Timeout = 2
  Wrap = 7
  Word = 12
  MaxGap = 2
  MaxTime = 11
SYMMETRY Interchangeable
INVARIANTS CacheUnique AdvertisedFresh PacketCleared
PROPERTY RefinesNeighbourTable
