SPECIFICATION Spec
CONSTANTS
    c1 = c1
    c2 = c2
    Clients = {c1}
    PoolSize = 1
    XIDs = {1, 2}
    MaxFaults = 1
INVARIANT
    AddressExpires
