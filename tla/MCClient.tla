------------------------------ MODULE MCClient ------------------------------
(***************************************************************************)
(* The instance of Client for TLC.                                         *)
(***************************************************************************)
EXTENDS Client

MCSockets == 1..(MaxCalls + MaxFaults)
=============================================================================
