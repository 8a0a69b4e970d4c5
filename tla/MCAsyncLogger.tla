--------------------------- MODULE MCAsyncLogger ---------------------------
(***************************************************************************)
(* The instance of AsyncLogger for TLC is the module itself.               *)
(***************************************************************************)
EXTENDS AsyncLogger
============================================================================
