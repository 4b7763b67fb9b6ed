CONSTANTS
  q1 = q1  q2 = q2  q3 = q3  q4 = q4
  r1 = r1  r2 = r2  r3 = r3  r4 = r4
  Req <- ThreeRequests
  Resolution <- TwoResolutions
  IntentOf <- TwoForR1
  Amount <- TwoAmounts
  MaxRefunds = 1
  MaxTotal = 4
  MaxSingle = 3
  Workers = 2
SPECIFICATION Spec
INVARIANT CeilingRespected
CHECK_DEADLOCK FALSE
