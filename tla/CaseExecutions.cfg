SPECIFICATION FairSpec
CONSTANTS
    q1 = q1
    Request = {q1}
    MaxFaults = 1
    MaxClients = 2
CHECK_DEADLOCK FALSE
INVARIANT Accounted
PROPERTY EndsStayShown
PROPERTY Settles
