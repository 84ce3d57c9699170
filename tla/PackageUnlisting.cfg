CHECK_DEADLOCK FALSE
SPECIFICATION ReleasesSpec
CONSTANTS
    Versions = {1, 2}
    Transactions = {r1}
PROPERTY UnlistedStaysUnlisted
