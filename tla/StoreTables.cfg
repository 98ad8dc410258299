CONSTANTS
    u1 = u1
    u2 = u2
    task1 = task1
    note1 = note1
    overtime1 = overtime1
    event1 = event1
    absence1 = absence1
    month1 = month1
    date1 = date1
    title = title
    status = status
    x = x
    y = y
    v = v
    w = w
    Users = {u1, u2}
    Tasks = {task1}
    Notes = {note1}
    OvertimeEntries = {overtime1}
    CalendarEvents = {event1}
    AbsenceDays = {absence1}
    Months = {month1}
    Dates = {date1}
    Fields = {title}
    Updates = {x}
    Values = {v}
    NoValue = NoValue
    NoRow = NoRow
    MaxSeq = 2
    MaxTime = 2
    Retention = 0
SPECIFICATION Spec
INVARIANTS
    TypeOK
PROPERTIES
    ImplementsChangeLog
CHECK_DEADLOCK FALSE
