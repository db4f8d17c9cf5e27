SPECIFICATION Spec
CONSTANTS
  n1 = n1
  n2 = n2
  n3 = n3
  n4 = n4
  x1 = x1
  x2 = x2
  p1 = p1
  p2 = p2
  Null = Null
  NoItem = NoItem
  Nodes = {n1, n2, n3, n4}
  Items = {x1, x2}
  Producers = {p1, p2}
INVARIANTS
  NoUseAfterFree
PROPERTIES
  ImplementsFifo
  Delivered
