CONSTANTS
    u1 = u1
    u2 = u2
    task1 = task1
    note1 = note1
    overtime1 = overtime1
    event1 = event1
    absence1 = absence1
    month1 = month1
    date1 = date1
    title = title
    status = status
    x = x
    y = y
    v = v
    w = w
    Users = {u1}
    Tasks = {}
    Notes = {note1}
    OvertimeEntries = {}
    CalendarEvents = {}
    AbsenceDays = {}
    Months = {month1}
    Dates = {}
    Fields = {title, status}
    Updates = {x, y}
    Values = {v, w}
    NoValue = NoValue
    NoRow = NoRow
    MaxSeq = 4
    MaxTime = 2
    Retention = 0
SPECIFICATION Spec
INVARIANTS
    NewestPatchWins
PROPERTIES
    ContentIsNeverLost
    OnlyNewerPatchesCount
SYMMETRY Alike
CHECK_DEADLOCK FALSE
