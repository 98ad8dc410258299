CONSTANTS
    r1 = r1
    r2 = r2
    d1 = d1
    d2 = d2
    d3 = d3
    Devices = {d1, d2, d3}
    Requests = {r1, r2}
    NoRequest = NoRequest
    MaxDevicesPerUser = 1
    MaxUsers = 2
    MaxResets = 1
SPECIFICATION Spec
INVARIANTS
    TypeOK
    AnAdminRemains
    FoundedOnce
    RevocationsHold
    DeviceLimit
    ErasedAccountsAreEmpty
SYMMETRY Alike
