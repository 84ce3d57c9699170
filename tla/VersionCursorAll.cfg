CHECK_DEADLOCK FALSE
SPECIFICATION CursorSpec
CONSTANTS
    Uploads = {u1, u2}
    PageSize = 1
    MaxDate = 1
    MaxToggles = 0
INVARIANT EnumeratesAll
