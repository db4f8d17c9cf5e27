SPECIFICATION Spec
CONSTANTS
  save1 = save1
  save2 = save2
  empty = empty
  update = update
  select = select
  w1 = w1
  w2 = w2
  NoOperation = NoOperation
  NoWorker = NoWorker
  Operations = {save1, save2, empty, update, select}
  Kind <- MCKind
  Size <- MCSize
  Workers = {w1, w2}
  Scenarios <- MCLosses
INVARIANTS
  Atomic
