SPECIFICATION Spec
CONSTANTS
  k1 = k1
  k2 = k2
  k3 = k3
  v0 = v0
  v1 = v1
  v2 = v2
  v4 = v4
  Keys = {k1, k2, k3}
  Values = {v0, v1, v2, v4}
  Entries = {e1, e2, e3}
  Nil = Nil
  EntrySize <- MCEntrySize
  MaxSize = 3
INVARIANTS
  TypeOK
  RingLinked
PROPERTIES
  ImplementsLruCache
