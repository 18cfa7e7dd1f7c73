\* Shutdown while a server refuses connections.
SPECIFICATION Spec
CONSTANTS
    s1 = s1
    s2 = s2
    None = None
    Server = {s1}
    Faults <- Refused
    MaxSig = 1
PROPERTY ShutdownWhileWaiting
