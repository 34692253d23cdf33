-------------------------------- MODULE Parts --------------------------------
(***************************************************************************)
(* The parts that share no state with the rest, as one specification: the  *)
(* ring buffer, the cutting of a connection into packets on both sides,    *)
(* and the game client's containers, pools, timer, renderer, profiler,     *)
(* allocation log, parser and send path.  A behaviour is one of one part,  *)
(* chosen at the start, while the others stand still.                      *)
(***************************************************************************)
EXTENDS RingBuffer, LinkedList, ObjectPool, LockFreePool, TlsPool,
        FPSTimer, Renderer, Profiler, MemoryLog, Parser, ClientSend, ClientRecv, ServerRecv

VARIABLE part    \* the part that runs

recvVars == <<streamVars, pc, offered>>
partVars == <<vars, listVars, poolVars, lfpVars, tlsVars, timerVars, renderVars,
              profVars, memVars, parserVars, sendVars, recvVars, part>>

RecvInit == \/ part = "receive" /\ ServerInit
            \/ part = "receive" /\ ClientInit /\ offered = 0
            \/ /\ part # "receive" /\ side = "none" /\ pc = "idle" /\ offered = 0
               /\ StreamInit(ClientSizes)
               /\ sizes = CHOOSE s \in [1 .. Count -> ClientSizes] : TRUE

PartInit ==
  /\ part \in {"ring", "list", "pool", "lockfree", "tls", "timer", "render",
               "profiler", "memory", "parser", "send", "receive"}
  /\ Init /\ ListInit /\ PoolInit /\ LfpInit /\ TlsInit /\ TimerInit /\ RenderInit
  /\ ProfInit /\ MemInit /\ ParserInit /\ SendInit /\ RecvInit
  /\ part # "parser" => file = CHOOSE f \in HandWritten : TRUE

RecvNext == \/ side = "client" /\ ClientNext /\ UNCHANGED offered
            \/ side = "server" /\ ServerNext

PartNext ==
  /\ UNCHANGED part
  /\ IF part = "ring" THEN Next ELSE UNCHANGED vars
  /\ IF part = "list" THEN ListNext ELSE UNCHANGED listVars
  /\ IF part = "pool" THEN PoolNext ELSE UNCHANGED poolVars
  /\ IF part = "lockfree" THEN LfpNext ELSE UNCHANGED lfpVars
  /\ IF part = "tls" THEN TlsNext ELSE UNCHANGED tlsVars
  /\ IF part = "timer" THEN TimerNext ELSE UNCHANGED timerVars
  /\ IF part = "render" THEN RenderNext ELSE UNCHANGED renderVars
  /\ IF part = "profiler" THEN ProfNext ELSE UNCHANGED profVars
  /\ IF part = "memory" THEN MemNext ELSE UNCHANGED memVars
  /\ IF part = "parser" THEN ParserNext ELSE UNCHANGED parserVars
  /\ IF part = "send" THEN SendNext ELSE UNCHANGED sendVars
  /\ IF part = "receive" THEN RecvNext ELSE UNCHANGED recvVars

(* The client's message loop and the server's I/O threads keep running.       *)
PartSpec == PartInit /\ [][PartNext]_partVars /\ WF_recvVars(RecvNext)
=============================================================================
