\* An upload ends: nothing is left to do then.
CHECK_DEADLOCK FALSE
SPECIFICATION Spec
CONSTANTS
    PartCount = 1
    MaxParallel = 1
    MaxAttempts = 1
INVARIANT CanceledIsNotSubmitted
