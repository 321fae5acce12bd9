SPECIFICATION Spec
CONSTANTS
  k1 = k1
  k2 = k2
  k3 = k3
  Keys = {k1, k2, k3}
  Types <- OneOfEach
  Half = 4
  Numbers <- JustOne
  Texts = {t, u}
  Blobs = {b}
  Blocks = {b1, b2}
  Missing = Missing
SYMMETRY Interchangeable
INVARIANTS FirstStoreRead StoreInv
