SPECIFICATION FairSpec
CONSTANTS
  Samples = {s1, s2}
  Blank = blank
  Capacity = 2
  Word = 16
  Consumers = {c}
  Observers = {}
  ProducerOps = {"ByteWrite", "WriteBatch"}
  ConsumerOps = {"ReadBatch"}
  ObserverOps = {}
  MaxBatch = 2
  MaxSent = 3
INVARIANT UnreadKept
PROPERTY EverySampleDelivered
