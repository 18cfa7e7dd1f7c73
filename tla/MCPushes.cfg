\* Two nicks on one connection, one HTTP request at a time.
SPECIFICATION Spec
CONSTANTS
    a = a
    b = b
    phone = phone
    tablet = tablet
    c1 = c1
    r1 = r1
    None = None
    Nick = {a, b}
    Device = {phone, tablet}
    Conn = {c1}
    Req = {r1}
    MaxId = 2
    MaxTok = 1
    MaxPin = 2
SYMMETRY Alike
INVARIANTS Confirmed
PROPERTIES OwnDisable
CHECK_DEADLOCK FALSE
