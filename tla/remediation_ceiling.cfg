CONSTANTS
  q1 = q1  q2 = q2  q3 = q3  q4 = q4
  r1 = r1  r2 = r2  r3 = r3  r4 = r4
  Req <- FourRequests
  Resolution <- FourResolutions
  IntentOf <- OneEach
  Amount <- FourAmounts
  MaxRefunds = 2
  MaxTotal = 4
  MaxSingle = 2
  Workers = 2
SPECIFICATION Spec
INVARIANT OvershootIsBounded
SYMMETRY Interchangeable
CHECK_DEADLOCK FALSE
