SPECIFICATION FairSpec
CONSTANTS
  p1 = p1
  p2 = p2
  c1 = c1
  c2 = c2
  Producers <- MCProducers
  Consumers <- MCConsumers
  MaxSends = 2
INVARIANTS
  TypeOK
  MutualExclusion
  SemaphoreCounts
  NoPopOfEmptyQueue
PROPERTIES
  ImplementsFifo
  EveryMessageTaken
  CallsReturn
