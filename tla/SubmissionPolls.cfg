SPECIFICATION Spec
CONSTANTS
    Subs = {s1}
    Requests = {r1, r2}
    Workers = {w1}
    None = None
    MaxQueue = 2
    MaxFaults = 0
PROPERTY ScheduledOncePerTtl
CHECK_DEADLOCK FALSE
