SPECIFICATION StorageSpec

CONSTANTS
  Materials = {m1, m2}
  Scanners = {s1}
  Deleters = {d1}
  Contents = {c1}
  Size <- OneSize
  FileLimit = 2
  ByteLimit = 2
  None = None
  Hasty = FALSE
  m1 = m1
  m2 = m2
  s1 = s1
  d1 = d1
  c1 = c1
  c2 = c2

SYMMETRY StorageSymmetry

INVARIANTS
  AvailableIsStored

CHECK_DEADLOCK FALSE
