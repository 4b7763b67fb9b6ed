CONSTANTS
  q1 = q1  q2 = q2
  r1 = r1  e1 = e1
  d1 = d1  d2 = d2  d3 = d3
  Req <- TwoRequests
  Resolution <- OneResolution
  About <- BothOnR1
  Routes <- BothRoutes
  Event <- OneEvent
  Delivery <- ThreeDeliveries
  EventOf <- AllOfE1
  Supported = {d1, d2}
  Signed = {d1}
  WriteKey = FALSE
SPECIFICATION ServiceSpec
INVARIANT AckedIsRecorded
CHECK_DEADLOCK FALSE
