SPECIFICATION LFSpec
CONSTANTS
  p1 = p1
  p2 = p2
  c1 = c1
  c2 = c2
  o = o
  Kinds = {"HPRing", "SlotRing", "SeqLockRing", "MPSeqRing", "AtomicRing", "HPLinkedQueue"}
  Capacity = 2
  Producers = {p1, p2}
  Consumers = {c1, c2}
  Observers = {o}
  LeadWriter = p1
  LeadReader = c1
  MaxBatch = 2
  MaxWrites = 3
  Enqueuers = {p1, p2}
  Dequeuers = {c1, c2}
  MaxNodes <- NodesOfEach
  MaxRetired = 2
INVARIANTS
  InOrder
PROPERTIES
  EverythingDelivered
