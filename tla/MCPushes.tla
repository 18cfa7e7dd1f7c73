------------------------------ MODULE MCPushes ------------------------------
EXTENDS Pushes, TLC
CONSTANTS a, b, phone, tablet, c1, r1
\* Nicks are alike, and so are devices.
Alike == Permutations(Nick) \cup Permutations(Device)
=============================================================================
