CONSTANTS
    u1 = u1
    u2 = u2
    c1 = c1
    a = a
    b = b
    d = d
    Users = {u1}
    Rows = {a, b}
    NoRow = NoRow
    Clients = {c1}
    UserOf <- MCUserOf
    NumTables = 2
    TableOf <- MCTableOf
    PageSizes = {1}
    MaxSeq = 4
    MaxFailures = 0
SPECIFICATION FairFeedSpec
PROPERTIES
    PagesReachTheEnd
