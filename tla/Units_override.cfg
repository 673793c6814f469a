SPECIFICATION Spec
CONSTANTS
    Active = {"env"}
    Null = null
    Threads = {t1, t2}
    r1 = r1
    r2 = r2
    r3 = r3
    r4 = r4
    r5 = r5
    Records = {r1, r2, r3, r4, r5}
    KeyOf <- MCKeyOf
    Hash <- MCHash
    GetPrime <- MCGetPrime
    PathOf <- MCPathOf
    Orders <- MCOrders
    Limits <- MCLimits
    Filters = {{r1, r3}}
    Cpus = {c1, c2}
    Blocks = {b1, b2, b3, b4}
    nThreshold = 1
    MaxDepth = 3
    Width = 4
    HeaderSize = 2
    Sizes <- MCSizes
    MaxWrites = 6
    Contexts = {x1, x2}
    Configs = {k1, k2, k3}
    Apps = {a1, a2, a3}
    Procs = {p1}
    N = 1
    Ports = {n1}
    ForeignPorts = {}
    Children = {child}
    Main = main
    RapidFailLimit = 0
    NsiSupported = FALSE
    Unlocked = unlocked
    Recycler = recycler
    Collections <- MCCollections
    Arguments <- MCArguments
    AppConfigPaths <- MCAppConfigPaths
    Inherited <- MCInherited
    towupper <- MCtowupper
    PortTexts = {"1", "2"}
    MAX_RETRY = 2
    MaxDropped = 1
    Responses <- MCResponses
    Verbs = {"GET", "HEAD"}
    RESPONSE_HEADERS = {"Vary", "Set-Cookie", "WWW-Authenticate", "Server", "Content-Length",
        "Connection", "Date", "Transfer-Encoding"}
    Malformed = malformed
    Requests <- MCRequests
    Users <- MCUsers
    Certs = {null, "cert"}
    Reserved = {"MS-ASPNETCORE-TOKEN", "MS-ASPNETCORE-WINAUTHTOKEN", "MS-ASPNETCORE-CLIENTCERT"}
    Functions <- MCFunctions
    MaxSleeps = 2
    MaxQueued = 3
CHECK_DEADLOCK FALSE
INVARIANT OverridesApply
