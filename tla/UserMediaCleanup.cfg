SPECIFICATION Spec
CONSTANTS
    Media = {m1}
    Requests = {r1}
    Cleaners = {c1}
    MaxFaults = 0
PROPERTY CleanupRemovesObject
CHECK_DEADLOCK FALSE
