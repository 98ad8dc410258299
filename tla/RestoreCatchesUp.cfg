CONSTANTS
    u1 = u1
    c1 = c1
    a = a
    b = b
    Users = {u1}
    Rows = {a, b}
    NoRow = NoRow
    Clients = {c1}
    UserOf <- MCUserOf
    NumTables = 2
    TableOf <- MCTableOf
    PageSizes = {0}
    MaxSeq = 3
    MaxFailures = 0
    MaxRestores = 1
SPECIFICATION RestoreSpec
INVARIANTS
    AcceptedCursorsAreComplete
