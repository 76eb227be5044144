SPECIFICATION FairSpec
CONSTANTS
    Endpoints = {e1}
    Loops = {heartbeat, routes}
    MaxConns = 4
    MaxFaults = 1
PROPERTIES StopEnds
CHECK_DEADLOCK FALSE
