SPECIFICATION PushFairSpec
CONSTANTS Request = q  Request2 = q2
PROPERTIES NackForgiven
CHECK_DEADLOCK FALSE
