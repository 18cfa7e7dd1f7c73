----------------------------- MODULE RateLimit -----------------------------
(* The limit on the quotes a nick may look up (drivers/quotedriver,          *)
(* RateLimit): every call adds Gap to the nick's badness and takes off the   *)
(* time since it was last let through; above four times Gap it is refused.   *)
(* A refused call keeps the badness it made but not the time it was made at. *)
EXTENDS Integers

CONSTANTS
    Gap,       \* 15 seconds
    Horizon,   \* bound: the last moment
    MaxBad     \* bound: the badness refused calls may add up to

ASSUME RateAssumption == {Gap, Horizon, MaxBad} \subseteq Nat

Burst == 4 * Gap

VARIABLES
    clock,
    badness,
    lastsent,  \* when the nick was last let through, or -1
    first,     \* history: when the first call of some window was let through, or -1
    count      \* history: the calls let through since then

rateVars == <<clock, badness, lastsent, first, count>>

RateInit ==
    /\ clock = 0
    /\ badness = 0
    /\ lastsent = -1
    /\ first = -1
    /\ count = 0

Pass(d) ==
    /\ clock + d <= Horizon
    /\ clock' = clock + d
    /\ UNCHANGED <<badness, lastsent, first, count>>

\* Never let through is so long ago that no badness is left.
Bad == LET b == badness + Gap - (clock - lastsent)
       IN  IF lastsent = -1 \/ b < 0 THEN 0 ELSE b

\* A mutant: a refused call is forgiven.
RefuseForgive ==
    /\ Bad > Burst /\ Bad <= MaxBad
    /\ badness' = 0
    /\ UNCHANGED <<clock, lastsent, first, count>>
Refuse ==
    /\ Bad > Burst /\ Bad <= MaxBad
    /\ badness' = Bad
    /\ UNCHANGED <<clock, lastsent, first, count>>

\* Any call that is let through may be the first of the window looked at.
Allow ==
    /\ Bad <= Burst
    /\ badness' = Bad
    /\ lastsent' = clock
    /\ \/ first = -1 /\ first' = clock /\ count' = 1
       \/ first # -1 /\ first' = first /\ count' = count + 1
       \/ first = -1 /\ first' = first /\ count' = count
    /\ UNCHANGED clock

RateNext == (\E d \in 1 .. Horizon : Pass(d)) \/ Refuse \/ Allow
RateSpec == RateInit /\ [][RateNext]_rateVars

-----------------------------------------------------------------------------
\* "Limit to 1 quote every 15 seconds" (quotedriver.go:49): in any window no more calls are
\* let through than the burst and one per Gap that has passed. The burst is of five, though,
\* where the comment says four; refused calls, however many, gain nothing.
RateKept == first # -1 => Gap * (count - 1) <= Burst + (lastsent - first)
=============================================================================
