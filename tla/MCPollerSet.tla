---------------------------- MODULE MCPollerSet ----------------------------
(* Two pollers and two connections, with goroutines enough for one poller to  *)
(* be restarted.                                                              *)
EXTENDS PollerSet
CONSTANTS p1, p2, c1, c2
=============================================================================
