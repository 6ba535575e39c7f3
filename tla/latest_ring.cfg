SPECIFICATION Spec
SYMMETRY SampleSymmetry
CONSTANTS
  Samples = {s1, s2}
  Blank = blank
  Capacity = 4
  Word = 16
  Consumers = {}
  Observers = {o}
  ProducerOps = {"Write", "WriteBatch"}
  ConsumerOps = {}
  ObserverOps = {"PeekLatest", "Count"}
  MaxBatch = 2
  MaxSent = 5
INVARIANTS
  PeekRaceFree
  PeekIsPublished
