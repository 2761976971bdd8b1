\* Three requests, up to two admins registering meanwhile, two faults.
CONSTANTS
    r1 = r1
    r2 = r2
    r3 = r3
    u1 = u1
    u2 = u2
    Requests = {r1, r2, r3}
    Users = {u1, u2}
    UserOf <- MCUserOf
    Guids = {1, 2, 3}
    Empty = Empty
    Exception = Exception
    Admins = {11, 12}
    Stray = Stray
    MaxFaults = 2
    None = None
SPECIFICATION Spec
INVARIANTS TypeOK RowsPaired AnsweredIsCreated AdminKnown FailedLeavesNothing
CHECK_DEADLOCK FALSE
