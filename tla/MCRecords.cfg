\* Two connections; up to four lines, events, quote commands and markov lines, three lines
\* with URLs; a rate limit in units of 7.5 seconds; a collection of two ids with two clients.
SPECIFICATION RecordsSpec
CONSTANTS
    n1 = n1
    n2 = n2
    ann = ann
    bob = bob
    ch = ch
    xen = xen
    yak = yak
    any = any
    one = one
    p1 = p1
    p2 = p2
    wi = wi
    vo = vo
    un = un
    None = None
    Conn = {n1, n2}
    Nick = {ann, bob}
    Channel = {ch}
    MaxId = 6
    MaxEvents = 4
    Thing = {xen}
    Said <- LinesSaid
    Action = {"JOIN", "KICKING", "KICKED"}
    Kicks = TRUE
    MaxTime = 3
    Text = {xen, yak}
    Regex = {any, one}
    Matches <- TextsMatching
    Url = {xen, yak}
    Long = {yak}
    Code = {p1, p2}
    Hash <- OneHash
    MaxTries = 2
    Known = xen
    Lines <- UrlLines
    MaxLines = 3
    Word = {wi, vo, un}
    UrlWord = {un}
    Sentences <- WordsSaid
    Length = 3
    Gap = 2
    Horizon = 12
    MaxBad = 16
    kTop = kTop
    kMove = kMove
    kNest = kNest
    kOther = kOther
    bNest = bNest
    v1 = v1
    v2 = v2
    v3 = v3
    w1 = w1
    Nil = None
    ObjectId = {1, 2}
    Key = {kTop, kMove, kNest, kOther}
    Bucket = {bNest}
    Value = {v1, v2, v3, w1}
    Client = {n1, n2}
    IdOf <- Forms
    Indexes <- FormKeys
    Path <- Paths
    Rejected = {}
    ValidateValues <- Superseded
INVARIANTS Complete Exact CountsKept LeaderListed NewestSeen DeletedStays CodesLead ChainsWalk RateKept
PROPERTY ImplementsTable
SYMMETRY Alike
CHECK_DEADLOCK FALSE
