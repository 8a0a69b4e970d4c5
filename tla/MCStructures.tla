---------------------------- MODULE MCStructures ----------------------------
(***************************************************************************)
(* The structures and the thread pool, each explored on its own: turn,     *)
(* chosen in the initial state, says which one moves.                      *)
(***************************************************************************)
EXTENDS HttpServer, Pollers, Queues, ThreadPool

CONSTANTS w1, w2, p1, p2, ow

VARIABLE turn

allVars == <<turn, bufferVars, httpVars, pollerVars, queueVars, vars>>

Line(text) == <<text, "cr", "lf">>
End == <<"cr", "lf">>

MCStreams ==
  {Line("get11"),
   Line("get11") \o Line("other") \o End \o Line("get10") \o Line("keepalive") \o End
     \o Line("get11") \o Line("close") \o Line("keepalive") \o End \o Line("get11") \o Line("close") \o End
     \o Line("get11") \o End,
   Line("get11") \o Line("junk") \o Line("get10") \o End \o Line("get11") \o End,
   Line("get11") \o End \o <<"cr">> \o Line("junk") \o Line("get11") \o End,
   Line("get10") \o <<"keepalive", "lf">> \o End \o End
     \o Line("get11") \o Line("close") \o <<"keepalive">> \o Line("junk") \o End \o Line("get11") \o End}

MCChannels == {"a", "b", "c", "d"}
MCFd(ch) == CASE ch = "a" -> 0 [] ch = "b" -> 1 [] ch \in {"c", "d"} -> 2
MCBounds == {0, 1, 2, 3}

MCWorker == {w1, w2}
MCProducer == {p1, p2}
MCAgent == MCWorker \cup MCProducer \cup {ow}
MCCond == {"not_empty", "not_full"}

AllInit ==
  /\ turn \in {"buffer", "http", "poller", "queue", "pool"}
  /\ BufferInit /\ HttpInit /\ PollerInit /\ QueueInit /\ Init
  /\ turn # "http" => stream = Line("get11")
  /\ turn # "poller" => kind = "epoll"
  /\ turn # "queue" => bound = 0

AllNext ==
  /\ UNCHANGED turn
  /\ \/ turn = "buffer" /\ BufferNext /\ UNCHANGED <<httpVars, pollerVars, queueVars, vars>>
     \/ turn = "http" /\ HttpNext /\ UNCHANGED <<bufferVars, pollerVars, queueVars, vars>>
     \/ turn = "poller" /\ PollerNext /\ UNCHANGED <<bufferVars, httpVars, queueVars, vars>>
     \/ turn = "queue" /\ QueueNext /\ UNCHANGED <<bufferVars, httpVars, pollerVars, vars>>
     \/ turn = "pool" /\ Next /\ UNCHANGED <<bufferVars, httpVars, pollerVars, queueVars>>

AllSpec == AllInit /\ [][AllNext]_allVars /\ PoolFairness
=============================================================================
