CONSTANTS
    asked = asked
    other = other
    None = None
    Endpoint = {asked, other}
    Original = asked
    Domain = {other}
    TriedAsWWW = {other}
    Retry = 1
    ConnectRetries = 1
    PrivPorts = TRUE
    Modules = {"tcpbanner", "http", "https_certif", "any"}
    Transports = {"TCP", "UDP", "SSL"}
    Asked <- MCAsked
    MaxSteps = 3
    MaxPackets = 3
SPECIFICATION Spec
INVARIANTS TypeOK NoSocketLeft OutcomeIsEarned ResendsWithinBudget DialsBounded PacketsAsAsked
PROPERTY Returns
