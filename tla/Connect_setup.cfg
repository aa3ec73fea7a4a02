SPECIFICATION Spec
CONSTANTS
    Hosts = {h1}
    Ports = {8443}
    Addrs = {ip1, ip2}
    None = None
CHECK_DEADLOCK FALSE
INVARIANTS
    TypeOK
    NoHttp1OverH2
    EveryStreamSecured
    ProgramsConsistent
