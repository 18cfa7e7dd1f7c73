\* One connection that comes and goes, two reminders, a snooze and a restart.
SPECIFICATION FairSpec
CONSTANTS
    a = a
    b = b
    r1 = r1
    r2 = r2
    c1 = c1
    c2 = c2
    None = None
    Conn = {c1}
    Nick = {a, b}
    Reminder = {r1, r2}
    From <- MCFrom
    To <- MCTo
    MaxTime = 1
    MaxTimer = 2
    MaxConnects = 2
    MaxSnoozes = 1
    MaxRestarts = 1
INVARIANTS NoStaleCancel Killable SaidOnce Kept
PROPERTIES DueIsStored Forgotten
\* When no bound is left the bot may wait for ever.
CHECK_DEADLOCK FALSE
