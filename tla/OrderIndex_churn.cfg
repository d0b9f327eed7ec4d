\* Eight ids that come and go one at a time, each at home in its own cell.
CONSTANTS
  k1 = k1
  k2 = k2
  k3 = k3
  k4 = k4
  k5 = k5
  k6 = k6
  k7 = k7
  k8 = k8
  Keys = {k1, k2, k3, k4, k5, k6, k7, k8}
  Vals = {v1}
  MaxLive = 1
  None = None
  Cap = 8
  Home <- Spread
SPECIFICATION Spec
INVARIANTS ProbeChainsStayShort
