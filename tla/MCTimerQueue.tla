---------------------------- MODULE MCTimerQueue ----------------------------
(***************************************************************************)
(* Instances of TimerQueue for TLC.                                        *)
(***************************************************************************)
EXTENDS TimerQueue

\* run_at() a time that has passed or is now, run_after() a short and a longer
\* delay.
MCDelays == {-1, 0, 1, 2}
MCLater == {1, 2}
MCOne == {1}
=============================================================================
