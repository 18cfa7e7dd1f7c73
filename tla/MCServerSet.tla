---------------------------- MODULE MCServerSet ----------------------------
(* Instances of ServerSet for TLC; the cfg files choose the servers.          *)
EXTENDS ServerSet
CONSTANTS s1, s2
AnyOrNone == {{}, {"refuse", "drop", "early", "notice"}}
Refused == {{"refuse"}}
=============================================================================
