\* The whole deployment, two clients with a call each, one fault of any kind.
CONSTANTS
    authorization = authorization
    central = central
    notifier = notifier
    clientcreator = clientcreator
    verify = verify
    create = create
    put = put
    notify = notify
    newclient = newclient
    c1 = c1
    c2 = c2
    Clients = {c1, c2}
    Services = {authorization, central, notifier, clientcreator}
    Routes = {verify, create, put, notify, newclient}
    ServiceOf <- MCServiceOf
    AuthRoutes = {put}
    Entry = {put, newclient}
    Callees <- MCCallees
    Verify = verify
    Create = create
    t1 = t1
    Tokens = {t1}
    NoToken = NoToken
    None = None
    MaxCalls = 1
    MaxFaults = 1
SPECIFICATION Spec
INVARIANTS TypeOK AtMostOnce Correlated AuthorizedOnly
PROPERTIES HopelessStays ImplementsRpc
CHECK_DEADLOCK FALSE
