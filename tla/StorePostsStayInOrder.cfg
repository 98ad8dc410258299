CONSTANTS
    u1 = u1
    u2 = u2
    task1 = task1
    note1 = note1
    overtime1 = overtime1
    event1 = event1
    absence1 = absence1
    month1 = month1
    date1 = date1
    title = title
    status = status
    x = x
    y = y
    v = v
    w = w
    Users = {u1}
    Tasks = {}
    Notes = {note1}
    OvertimeEntries = {}
    CalendarEvents = {}
    AbsenceDays = {}
    Months = {}
    Dates = {}
    Fields = {title}
    Updates = {x}
    Values = {v}
    NoValue = NoValue
    NoRow = NoRow
    MaxSeq = 3
    MaxTime = 3
    Retention = 1
SPECIFICATION Spec
PROPERTIES
    PostsStayInOrder
CHECK_DEADLOCK FALSE
