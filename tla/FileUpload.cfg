\* An upload ends: nothing is left to do then.
CHECK_DEADLOCK FALSE
SPECIFICATION Spec
CONSTANTS
    PartCount = 4
    MaxParallel = 2
    MaxAttempts = 3
INVARIANTS
    TypeOK
    FinishHasAllParts
    SubmittedIsAssembled
PROPERTIES
    OutcomeIsKept
    NoPutAfterCancel
    UploadEnds
    PartsEnd
