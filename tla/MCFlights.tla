----------------------------- MODULE MCFlights -----------------------------
EXTENDS Flights
CONSTANTS plane, iata, icao, n1, n2
OneFlight == [p \in {plane} |-> <<iata, icao>>]
\* Taxiing, in the air, and landed.
ThreeData == {[status |-> "active", live |-> "ground"],
              [status |-> "active", live |-> "air"],
              [status |-> "landed", live |-> "none"]}
\* One code, one network and overlapping polls; both codes and both networks, no overlap.
TwoScenes == {[codes |-> {iata}, talk |-> {n1}, overlap |-> TRUE],
              [codes |-> {iata, icao}, talk |-> {n1, n2}, overlap |-> FALSE]}
=============================================================================
