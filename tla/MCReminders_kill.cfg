\* Two connections, one reminder: each CONNECTED starts a goroutine for it.
SPECIFICATION Spec
CONSTANTS
    a = a
    b = b
    r1 = r1
    r2 = r2
    c1 = c1
    c2 = c2
    None = None
    Conn = {c1, c2}
    Nick = {a, b}
    Reminder = {r1}
    From <- MCFrom
    To <- MCTo
    MaxTime = 1
    MaxTimer = 3
    MaxConnects = 2
    MaxSnoozes = 0
    MaxRestarts = 0
INVARIANT Killable
CHECK_DEADLOCK FALSE
