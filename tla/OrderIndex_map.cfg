\* Five ids on one cluster that wraps around, up to three of them live.
CONSTANTS
  k1 = k1
  k2 = k2
  k3 = k3
  k4 = k4
  k5 = k5
  k6 = k6
  k7 = k7
  k8 = k8
  Keys = {k1, k2, k3, k4, k5}
  Vals = {v1}
  MaxLive = 3
  None = None
  Cap = 8
  Home <- Clustered
SPECIFICATION Spec
INVARIANTS InsertHasRoom
PROPERTIES ImplementsMap
