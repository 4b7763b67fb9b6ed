CONSTANTS
  k1 = k1  k2 = k2
  t1 = t1  t2 = t2  t3 = t3  t4 = t4  t5 = t5
  p1 = p1  p2 = p2  p3 = p3
  None = None
  Key <- TwoKeys
  Task <- FiveTasks
  KeyOf <- TheKeys
  Process <- ThreeProcesses
  ProcessOf <- TheProcesses
  Uncached = {p3}
SPECIFICATION Spec
INVARIANTS SameQuestion TornByTwoWriters
CHECK_DEADLOCK FALSE
