\* No faults; every agent is registered and reports twice.
CONSTANTS
    stock = stock
    client = client
    orphan = orphan
    boss = boss
    Tokens = {stock, client}
    Stock = {stock}
    Registered = {stock, client}
    Admins = {boss}
    AdminOf <- MCAdminOf
    Types = {"ERROR"}
    Cpus = {76}
    Addresses = {1}
    MaxReadings = 2
    MaxChanges = 1
    MaxFaults = 0
    None = None
SPECIFICATION FairSpec
PROPERTY EveryAlarmIsSent
CHECK_DEADLOCK FALSE
