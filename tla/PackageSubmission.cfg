\* Every submission is created once: the model may stop when all are deleted.
CHECK_DEADLOCK FALSE
SPECIFICATION Spec
CONSTANTS
    Subs = {s1, s2}
    Requests = {r1}
    Workers = {w1, w2}
    None = None
    MaxQueue = 2
    MaxFaults = 1
INVARIANTS
    TypeOK
    ResultIsTruthful
PROPERTIES
    KeepsPromise
