\* No faults: what the front end takes a response 200 for.
CONSTANTS
    r1 = r1
    r2 = r2
    r3 = r3
    u1 = u1
    u2 = u2
    Requests = {r1, r2}
    Users = {u1, u2}
    UserOf <- MCUserOf
    Guids = {1, 2, 3}
    Empty = Empty
    Exception = Exception
    Admins = {11, 12}
    Stray = Stray
    MaxFaults = 0
    None = None
SPECIFICATION Spec
INVARIANT HttpOkMeansCreated
CHECK_DEADLOCK FALSE
