SPECIFICATION Spec
CONSTANTS Request = q  Request2 = q2
PROPERTIES EventuallySettled BegunEnds ServesAgain
CHECK_DEADLOCK FALSE
