---------------------------- MODULE MCB8008Core -----------------------------
(* The closed console path: bridge, crossing, serial lines and core.  The  *)
(* two directions share no state but the bus, so a behaviour uses one of   *)
(* them: the core prints and the host pops, or the host types.             *)
EXTENDS B8008Core

CONSTANTS b1, b2

VARIABLE way

MCByte == {b1, b2}

(* A host that pops and writes, at any time; reads change nothing here.    *)
MCRequests == {Idle, PopRx} \cup {WriteTx(b) : b \in Byte}

OneWay == /\ way = "up" => Level(tx_fifo) = 0
          /\ way = "down" => usart = idle

MCInit == Init /\ way \in {"up", "down"}
MCNext == Next /\ UNCHANGED way /\ OneWay'
MCSpec == MCInit /\ [][MCNext]_<<vars, way>> /\ Fairness
=============================================================================
