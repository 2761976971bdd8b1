\* No faults: two registrations with one address at the same time.
CONSTANTS
    a1 = a1
    a2 = a2
    a3 = a3
    u1 = u1
    u2 = u2
    Requests = {a1, a2, a3, u1, u2}
    EmailOf <- MCEmailOf
    Emails = {"jan@wp.pl", "ola@admin.pl"}
    AdminEmails = {"ola@admin.pl"}
    MaxFaults = 0
SPECIFICATION Spec
INVARIANT NoDuplicateEmail
CHECK_DEADLOCK FALSE
