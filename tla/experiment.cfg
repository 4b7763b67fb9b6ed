SPECIFICATION FairSpec
CONSTANTS
  Dataset <- MCDataset
  TestSetSize = 2
  Seeds <- MCSeeds
  Relevance <- MCRelevance
  K = 2
  Shuffle <- MCShuffle
  Jobs <- MCJobs
  Rejected = {2, 4}
  Workers = 2
  MinUnavailable = 1
  MaxToolCalls = 1
  WrongCodes = {"wrong"}
  MaxShare = 34
INVARIANTS
  SnapshotsAreVersions
  HeldOut
  ControlDiffersInContent
  CustomersAreLearnable
  WrittenIsMeasured
  Reproduced
PROPERTIES
  RunsEnd
CHECK_DEADLOCK FALSE
