\* A flight under both of its codes, two networks, two goroutines.
SPECIFICATION Spec
CONSTANTS
    plane = plane
    iata = iata
    icao = icao
    n1 = n1
    n2 = n2
    None = None
    Plane = {plane}
    Code = {iata, icao}
    Codes <- OneFlight
    Nick = {}
    Data <- ThreeData
    Conn = {n1, n2}
    MaxCmds = 2
    Scenes <- TwoScenes
INVARIANTS AliasesEnd Told
PROPERTY LandedForgotten
CHECK_DEADLOCK FALSE
