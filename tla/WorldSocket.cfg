SPECIFICATION Spec
CONSTANTS
  MapThreads = {"map"}
  Sizes = {1, 3}
  BufferSize = 2
  MaxPackets = 2
  MaxRequests = 1
INVARIANTS
  StreamInOrder
  AnswerBeforeClose
  NoNullSession
  NoDeletedSession
PROPERTIES
  NothingStuck
