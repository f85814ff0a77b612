SPECIFICATION Spec
CONSTANTS
  Publishers = {p1, p2}
  Inners = {i1, i2}
  Keys = {k1, k2}
  Chunks = 2
  MaxSeq = 2
  None = None
SYMMETRY Symmetry
INVARIANTS
  TypeOK
  IndexSound
  BlobsAddressed
  NoLitter
PROPERTIES
  PublishedForever
  ImplementsCatalog
