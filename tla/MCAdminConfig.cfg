\* Three requests, two faults.
CONSTANTS
    Admins = {1, 2, 3}
    Stored = {1, 2}
    Values = {"a", "b"}
    Columns = {"Email", "PhoneNumber"}
    Empty = Empty
    Initial = "a"
    MaxRequests = 3
    MaxFaults = 2
    None = None
SPECIFICATION Spec
INVARIANTS TypeOK NoLostChange
PROPERTY TrueLeavesNothing
CHECK_DEADLOCK FALSE
