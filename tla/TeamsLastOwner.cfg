CHECK_DEADLOCK FALSE
SPECIFICATION Spec
CONSTANTS
    Names = {Foo}
    Users = {u1, u2}
    Requests = {r1, r2}
    None = None
    MaxRows = 2
PROPERTY LastOwnerStays
