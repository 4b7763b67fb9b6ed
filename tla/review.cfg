CONSTANTS
  q1 = q1  q2 = q2  q3 = q3
  r1 = r1  r2 = r2
  Req <- ThreeRequests
  Resolution <- TwoResolutions
  About <- TwoOnR1
  Routes <- BothRoutes
SPECIFICATION FairSpec
INVARIANTS CorpusIsDense PrecedentsAreReviewed AnswersMatchTheStore
PROPERTIES SnapshotsNeverChange FinalOnceQuiet ReviewsEnd
CHECK_DEADLOCK FALSE
