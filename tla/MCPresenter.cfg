\* Any two requests at once, a change of an address, one fault.
CONSTANTS
    m1 = m1
    m2 = m2
    stray = stray
    junk = junk
    nobody = nobody
    jan = jan
    boss = boss
    Requests = {q1, q2}
    Calls <- MCCalls
    Meerkats = {m1, m2}
    Unlisted = {stray}
    Malformed = {junk}
    OwnerOf <- MCOwnerOf
    AdminOf <- MCAdminOf
    Admins = {boss}
    Emails = {1, 2}
    MaxLogs = 1
    MaxChanges = 1
    MaxFaults = 1
    None = None
SYMMETRY Alike
SPECIFICATION Spec
INVARIANTS TypeOK ListTrue FailedForAReason
PROPERTY EmailHeld
CHECK_DEADLOCK FALSE
