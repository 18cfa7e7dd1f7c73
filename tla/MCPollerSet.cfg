\* Two pollers, two connections, and a goroutine more than there are pollers.
SPECIFICATION Spec
CONSTANTS
    p1 = p1
    p2 = p2
    c1 = c1
    c2 = c2
    None = None
    Poller = {p1, p2}
    Conn = {c1, c2}
    MaxRuns = 3
INVARIANTS OneLiveRun
PROPERTIES ClosedEnds KeepsPolling
