\* One nick disables its pushes while an HTTP request is handled.
SPECIFICATION Spec
CONSTANTS
    a = a
    b = b
    phone = phone
    tablet = tablet
    c1 = c1
    r1 = r1
    None = None
    Nick = {a}
    Device = {phone}
    Conn = {c1}
    Req = {r1}
    MaxId = 1
    MaxTok = 1
    MaxPin = 1
INVARIANT StaysDisabled
CHECK_DEADLOCK FALSE
