\* Any four acts, a meerkat that exists and one to be added, one failure.
CONSTANTS
    jan = jan
    boss = boss
    m1 = m1
    Accounts = {jan, boss}
    Admins = {boss}
    Registered = {jan, boss}
    Meerkats = {m1, m2}
    OwnerAtStart <- MCOwnerAtStart
    AdminOf <- MCAdminOf
    MaxActs = 4
    MaxFailures = 1
    None = None
SPECIFICATION Spec
INVARIANTS TypeOK ShownIsAsked AddedIsListed
PROPERTY EveryDashboardLoads
CHECK_DEADLOCK FALSE
