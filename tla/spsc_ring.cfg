SPECIFICATION Spec
SYMMETRY SampleSymmetry
CONSTANTS
  Samples = {s1, s2}
  Blank = blank
  Capacity = 2
  Word = 16
  Consumers = {c}
  Observers = {o}
  ProducerOps = {"Write", "WriteBatch"}
  ConsumerOps = {"Read", "ReadBatch", "Peek"}
  ObserverOps = {"Count"}
  MaxBatch = 2
  MaxSent = 4
INVARIANTS
  IInv
  DeliveredInOrder
  ConsumerRaceFree
  CountWithinCapacity
PROPERTY QueueSpec
