\* A subscriber that waits for the message the documentation of Dcb.Store names.
CONSTANTS
    s1 = s1
    s2 = s2
    w1 = w1
    Subscribers = {s1}
    Writers = {w1}
    Threads = 2
    Accepts = "dcb_store_changed"
    MaxAppends = 2
    MaxErrors = 1
    MaxDeaths = 1
    MaxTimeouts = 0
    MaxTime = 1
SPECIFICATION Spec
CHECK_DEADLOCK FALSE
PROPERTIES
    CaughtUp
