--------------------------- MODULE MCConsoleBridge --------------------------
(* ConsoleBridge on its own, with an unconstrained host, core and PHY.     *)
EXTENDS ConsoleBridge, FiniteSets

CONSTANTS b1, b2

MCByte == {b1, b2}

(* Reads, pops, clears and writes, checked or not, in any order.           *)
MCRequests == {Idle, ReadRx, PopRx, ReadTx}
                \cup {WriteTx(b) : b \in Byte}
                \cup {ClearErr(m) : m \in SUBSET Errors}
=============================================================================
