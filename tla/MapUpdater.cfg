SPECIFICATION Spec
CONSTANTS
  Eastern = Eastern
  Deadmines = Deadmines
  Dead1 = Dead1
  Dead2 = Dead2
  w1 = w1
  w2 = w2
  Warsong = Warsong
  Ws1 = Ws1
  NoMap = NoMap
  BaseMaps <- MCBaseMaps
  Instances <- MCInstances
  Parent <- MCParent
  Workers = {w1, w2}
INVARIANTS
  Barrier
  NoUpdateOfDeletedMap
PROPERTIES
  ImplementsMapTick
  TickEnds
  DeactivateReturns
