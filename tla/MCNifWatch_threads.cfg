\* Two subscribers and a writer on one thread.
CONSTANTS
    s1 = s1
    s2 = s2
    w1 = w1
    Subscribers = {s1, s2}
    Writers = {w1}
    Threads = 1
    Accepts = "fdb_watch_fired"
    MaxAppends = 1
    MaxErrors = 1
    MaxDeaths = 1
    MaxTimeouts = 0
    MaxTime = 1
SPECIFICATION Spec
CHECK_DEADLOCK FALSE
PROPERTIES
    CaughtUp
    AppendsReturn
