\* Readings of every level, one fault of any kind, one change of configuration.
CONSTANTS
    stock = stock
    client = client
    orphan = orphan
    boss = boss
    Tokens = {stock, client, orphan}
    Stock = {stock}
    Registered = {stock, client}
    Admins = {boss}
    AdminOf <- MCAdminOf
    Types = {"ERROR"}
    Cpus = {50, 76}
    Addresses = {1, 2}
    MaxReadings = 1
    MaxChanges = 1
    MaxFaults = 1
    None = None
SPECIFICATION Spec
INVARIANTS TypeOK AckedIsLogged AlertedOnce StockAgentSilent
PROPERTIES PoisonedRejects AddressHeld ImplementsTelemetry
CHECK_DEADLOCK FALSE
