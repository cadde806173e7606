\* The shipped program: the path of the page leads to the endpoint of the agents.
SPECIFICATION PushSpec
CONSTANTS
    Links = {l1, l2}
    NoLink = NoLink
    Publishers = {pub1}
    Notices = {n1}
    Reached = {"agents"}
    Wishes = {"pipelines"}
    MaxQueue = 1
    MaxConnects = 1
    MaxFaults = 0
    MaxChanges = 1
PROPERTY PageSettles
CHECK_DEADLOCK FALSE
