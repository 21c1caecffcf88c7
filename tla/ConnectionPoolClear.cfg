SPECIFICATION Spec
CONSTANTS
  None = None
  Main = Main
  Workers = {w1, w2, w3}
  Keys = {k1, k2}
  Conns = {c1, c2, c3, c4}
  Capacity = 2
SYMMETRY Interchangeable
INVARIANTS
  AlwaysDefined
