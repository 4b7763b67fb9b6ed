CONSTANTS
  t1 = t1  t2 = t2  t3 = t3
  Calls <- ThreeCalls
  Estimate <- OneOversize
  Usage <- LessAndMore
  Budget = 4
  W = 2
  MaxAttempts = 2
  MaxNap = 1
  MaxWorkers = 2
  Clients = {"paced", "unpaced", "gemini", "keyless"}
SPECIFICATION FairSpec
INVARIANTS ChargesCoverTheBill
PROPERTIES PaceIsKept CallsEnd
CHECK_DEADLOCK FALSE
