----------------------------- MODULE MCTcpServer -----------------------------
(***************************************************************************)
(* Instances of TcpServer for TLC.                                         *)
(***************************************************************************)
EXTENDS TcpServer

CONSTANTS c1, c2

MCOneConn == {c1}
MCTwoConns == {c1, c2}

MCNoForce == {"send", "shutdown", "start_read", "stop_read"}
MCCloseOps == UserOp \ {"start_read", "stop_read"}
MCShutdown == {"shutdown"}
MCSend == {"send"}
MCNone == {}
=============================================================================
