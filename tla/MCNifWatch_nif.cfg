\* One subscriber that times out, dies and meets failing watches; two appends, two threads.
CONSTANTS
    s1 = s1
    s2 = s2
    w1 = w1
    Subscribers = {s1}
    Writers = {w1}
    Threads = 2
    Accepts = "fdb_watch_fired"
    MaxAppends = 2
    MaxErrors = 2
    MaxDeaths = 1
    MaxTimeouts = 1
    MaxTime = 2
SPECIFICATION Spec
CHECK_DEADLOCK FALSE
INVARIANTS
    NifTypeOK
    WakeOnItsWay
    OneWakePerWatch
    NoHotLoop
    NifInv
