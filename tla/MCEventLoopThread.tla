------------------------- MODULE MCEventLoopThread -------------------------
(***************************************************************************)
(* Instances of EventLoopThread for TLC: the owner, another thread that    *)
(* uses the loop, and the loop's own; three functors.                      *)
(***************************************************************************)
EXTENDS EventLoopThread

CONSTANTS lt, ow, t1, f1, f2, f3

MCThread == {lt, ow, t1}
MCFunctor == {f1, f2, f3}
=============================================================================
