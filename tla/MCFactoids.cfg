\* One connection, two channels, three factoids.
SPECIFICATION Spec
CONSTANTS
    k = k
    woot = woot
    other = other
    any = any
    c1 = c1
    ch1 = ch1
    ch2 = ch2
    None = None
    Conn = {c1}
    Chan = {ch1, ch2}
    Key = {k, woot}
    Text = {k, woot, other, any}
    Any = any
    Woot = woot
    Talk <- MCTalk
    MaxId = 3
    MaxKeys = 1
INVARIANTS Fair Answers ThatIsLast
PROPERTIES Settles
