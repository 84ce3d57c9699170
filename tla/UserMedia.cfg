\* Every uuid of Media is used once: the model may stop when all rows are gone.
CHECK_DEADLOCK FALSE
SPECIFICATION Spec
CONSTANTS
    Media = {m1}
    Requests = {r1, r2, r3}
    Cleaners = {c1, c2}
    MaxFaults = 1
INVARIANTS
    CompleteIsDownloadable
    AbortedLeavesNothing
    NoMultipartLeft
    ReferencedRowKept
PROPERTIES
    CompletionIsKept
    ExpiredRowsGo
