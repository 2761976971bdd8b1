\* Nested calls, protected and not, without faults and with every thread
\* scheduled fairly; the clients obtain their token by authorization.create.
CONSTANTS
    authorization = authorization
    chained = chained
    simple = simple
    clientcreator = clientcreator
    verify = verify
    create = create
    chain = chain
    get = get
    newclient = newclient
    c1 = c1
    c2 = c2
    t1 = t1
    Clients = {c1, c2}
    Services = {authorization, chained, simple, clientcreator}
    Routes = {verify, create, chain, get, newclient}
    ServiceOf <- MCServiceOf
    AuthRoutes = {chain, get}
    Entry = {create, chain, newclient}
    Callees <- MCCallees
    Verify = verify
    Create = create
    Tokens = {t1}
    NoToken = NoToken
    None = None
    MaxCalls = 1
    MaxFaults = 0
SPECIFICATION FairSpec
INVARIANT AuthorizedOnly
PROPERTY EveryCallReturns
CHECK_DEADLOCK FALSE
