SPECIFICATION Spec
CONSTANTS
    h1 = h1
    h2 = h2
    s1 = s1
    s2 = s2
    p1 = p1
    p2 = p2
    default = default
    Hosts = {h1, h2}
    Addresses = {1}
    Ports = {7, 8}
    Serializers = {s1, s2}
    Default = default
    Services = {p1, p2}
    ServiceID <- ServiceIDs
    MTU = 3
    Sizes = {2, 5}
    MaxTransports = 3
INVARIANTS
    FirstComeFirstServed
    BuffersFit
