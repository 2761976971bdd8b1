\* One administrator's address three times, a user's twice, two failing saves.
CONSTANTS
    a1 = a1
    a2 = a2
    a3 = a3
    u1 = u1
    u2 = u2
    Requests = {a1, a2, a3, u1, u2}
    EmailOf <- MCEmailOf
    Emails = {"jan@wp.pl", "ola@admin.pl"}
    AdminEmails = {"ola@admin.pl"}
    MaxFaults = 2
SPECIFICATION Spec
INVARIANTS TypeOK LoginFindsAccount AdminHasConfig ConfigHasAdmin
CHECK_DEADLOCK FALSE
