\* Two servers and up to two interrupts: nothing goes wrong, or anything may.
SPECIFICATION Spec
CONSTANTS
    s1 = s1
    s2 = s2
    None = None
    Server = {s1, s2}
    Faults <- AnyOrNone
    MaxSig = 2
INVARIANTS OneSession LoopsEndFirst
PROPERTIES Redials CleanShutdown
\* A shutdown during which a connection drops can hang for good.
CHECK_DEADLOCK FALSE
