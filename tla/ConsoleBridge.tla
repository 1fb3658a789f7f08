--------------------------- MODULE ConsoleBridge ---------------------------
(***************************************************************************)
(* The host-facing console byte path, soc/console_bridge.py: two FIFOs,    *)
(* six registers and the backpressure stall, all clocked by cd_sys.        *)
(* One step is one clock edge.  The environment chooses what is on the     *)
(* pins at that edge: the byte the PHY receiver presents, the register the *)
(* bus accesses (at most one per cycle) and whether the PHY transmitter    *)
(* takes a byte.  No assumption is made here on how often bytes arrive;    *)
(* module B8008Core closes the loop through the stalled core.              *)
(***************************************************************************)
EXTENDS StreamFIFO, Integers

CONSTANTS
  Byte,           \* the values a console byte can take
  RX_DEPTH, TX_DEPTH,
  RX_HEADROOM, RX_HYSTERESIS,
  Requests        \* the register accesses the host makes (see Accesses)

hwm == RX_DEPTH - RX_HEADROOM
lwm == hwm - RX_HYSTERESIS

ASSUME DepthAssumption ==
  /\ RX_DEPTH \in Nat /\ TX_DEPTH \in Nat
  /\ RX_HEADROOM \in Nat /\ RX_HYSTERESIS \in Nat
  /\ TX_DEPTH > 0 /\ RX_HYSTERESIS > 0
  /\ lwm >= 0

Errors == {"rx_overflow", "tx_write_when_full", "rx_pop_when_empty"}

(* Register accesses: `re' is the register strobed in this cycle.          *)
Idle           == [re |-> "none"]
ReadRx         == [re |-> "console_rx"]
PopRx          == [re |-> "console_rx_pop"]
ReadTx         == [re |-> "console_tx"]
WriteTx(b)     == [re |-> "console_tx_data", r |-> b]
ClearErr(mask) == [re |-> "console_err_clear", r |-> mask]

Accesses == {Idle, ReadRx, PopRx, ReadTx} \cup {WriteTx(b) : b \in Byte}
              \cup {ClearErr(m) : m \in SUBSET Errors}

ASSUME RequestsAssumption == Requests \subseteq Accesses

VARIABLES
  rx_fifo, tx_fifo,
  stall,      \* the registered backpressure level
  sticky,     \* the set of sticky_err bits that are set
  seen,       \* observer: the byte the host read with valid = 1 and has not
              \* popped since, as a sequence of length 0 or 1
  room,       \* observer: the host read full = 0 and has not written since
  pushes      \* observer: bytes pushed into rx_fifo since stall last fell,
              \* capped at RX_HYSTERESIS

bridgeVars == <<rx_fifo, tx_fifo, stall, sticky, seen, room, pushes>>
-----------------------------------------------------------------------------
(* Faulty variants of the definitions below: the raw FIFO level exported,  *)
(* no full at all, a destructive read, a pop that leaves the last byte, a  *)
(* read strobe that writes, and stalls with no hysteresis and no release.  *)
console_rx_Raw == [data |-> rx_fifo.out, valid |-> Valid(rx_fifo),
                   level |-> Level(rx_fifo)]
tx_full_Never == FALSE
rx_ready_OnRead(csr) == csr.re \in {"console_rx", "console_rx_pop"}
                          /\ Valid(rx_fifo)
rx_ready_KeepsLast(csr) == csr.re = "console_rx_pop" /\ Valid(rx_fifo)
                             /\ Level(rx_fifo) > 1
tx_sink_OnRead(csr) ==
  CASE csr.re = "console_tx"      -> << CHOOSE b \in Byte : TRUE >>
    [] csr.re = "console_tx_data" -> << csr.r >>
    [] OTHER                      -> << >>
NextStall_NoHysteresis == Level(rx_fifo) >= hwm
NextStall_Latched == Level(rx_fifo) >= hwm \/ stall

(* console_rx, console_tx: pure decodes of the FIFO state.                 *)
console_rx ==
  [data  |-> rx_fifo.out,
   valid |-> Valid(rx_fifo),
   level |-> IF ~Valid(rx_fifo) THEN 0
             ELSE IF Level(rx_fifo) > RX_DEPTH THEN RX_DEPTH
             ELSE Level(rx_fifo)]

tx_full == Level(tx_fifo) = TX_DEPTH

(* What one access asks of the FIFOs.                                      *)
rx_ready(csr) == csr.re = "console_rx_pop" /\ Valid(rx_fifo)

tx_sink(csr) ==
  IF csr.re = "console_tx_data" /\ ~tx_full THEN << csr.r >> ELSE << >>

Faults(byte, csr) ==
  {e \in Errors :
     \/ e = "rx_overflow" /\ byte # << >> /\ ~Writable(rx_fifo, RX_DEPTH)
     \/ e = "tx_write_when_full" /\ csr.re = "console_tx_data" /\ tx_full
     \/ e = "rx_pop_when_empty" /\ csr.re = "console_rx_pop"
                                /\ ~Valid(rx_fifo)}

Cleared(csr) == IF csr.re = "console_err_clear" THEN csr.r ELSE {}

NextStall == IF Level(rx_fifo) >= hwm THEN TRUE
             ELSE IF Level(rx_fifo) <= lwm THEN FALSE
             ELSE stall

BridgeInit ==
  /\ rx_fifo = EmptyFIFO /\ tx_fifo = EmptyFIFO
  /\ stall = FALSE
  /\ sticky = {}
  /\ seen = << >> /\ room = FALSE /\ pushes = 0

(* One cd_sys clock edge.  `byte' is on the PHY receiver's source (<< >> if *)
(* its valid is low), `csr' is the register access, and `taken' tells that  *)
(* the PHY transmitter raises ready on a valid byte.                        *)
SysCycle(byte, csr, taken) ==
  /\ taken => Valid(tx_fifo)
  /\ rx_fifo' = Clocked(rx_fifo, RX_DEPTH, byte, rx_ready(csr))
  /\ tx_fifo' = Clocked(tx_fifo, TX_DEPTH, tx_sink(csr), taken)
  /\ stall' = NextStall
  /\ sticky' = (sticky \ Cleared(csr)) \cup Faults(byte, csr)
  /\ seen' = CASE csr.re = "console_rx"     -> console_rx.data
             [] csr.re = "console_rx_pop" -> << >>
             [] OTHER                     -> seen
  /\ room' = CASE csr.re = "console_tx"      -> ~tx_full
             [] csr.re = "console_tx_data" -> FALSE
             [] OTHER                      -> room
  /\ pushes' = LET new == IF Writable(rx_fifo, RX_DEPTH) THEN Len(byte) ELSE 0
               IN  CASE stall /\ ~NextStall              -> new
                     [] pushes + new > RX_HYSTERESIS   -> RX_HYSTERESIS
                     [] OTHER                          -> pushes + new

(* cd_sys reset: everything but the reset_less sticky bits.                 *)
SysReset ==
  /\ rx_fifo' = EmptyFIFO /\ tx_fifo' = EmptyFIFO
  /\ stall' = FALSE
  /\ seen' = << >> /\ room' = FALSE /\ pushes' = 0
  /\ UNCHANGED sticky

RxPins == {<< >>} \cup {<< b >> : b \in Byte}

BridgeNext ==
  \/ \E byte \in RxPins, csr \in Requests, taken \in BOOLEAN :
       SysCycle(byte, csr, taken)
  \/ SysReset

BridgeSpec == BridgeInit /\ [][BridgeNext]_bridgeVars
-----------------------------------------------------------------------------
(* Every variable has its type; the FIFO output register holds at most one *)
(* word.                                                                   *)
BridgeTypeOK ==
  /\ rx_fifo \in FIFOs(Byte) /\ tx_fifo \in FIFOs(Byte)
  /\ stall \in BOOLEAN
  /\ sticky \in SUBSET Errors
  /\ seen \in Seq(Byte) /\ room \in BOOLEAN
  /\ pushes \in 0 .. RX_HYSTERESIS

(* S-RX-7, S-RX-8: the word the host reads from console_rx is never torn:  *)
(* valid iff level is not 0, level within 0..rx_depth, a byte iff valid.   *)
(* The raw FIFO breaks each of these for a cycle.                          *)
SnapshotIsAtomic ==
  /\ console_rx.valid <=> console_rx.level > 0
  /\ console_rx.valid <=> Len(console_rx.data) = 1
  /\ console_rx.level <= RX_DEPTH

(* S-RX-8: a pop consumes exactly the byte the host read last, whatever    *)
(* arrived between the read and the pop.                                   *)
PopTakesWhatWasRead == seen # << >> => rx_fifo.out = seen

(* S-TX-1, S-TX-2: console_tx never reports a level above its depth, and   *)
(* a write the bridge does not reject always has room in the inner FIFO,   *)
(* although `full' is not derived from sink.ready.                         *)
AcceptedWriteHasRoom ==
  /\ Level(tx_fifo) <= TX_DEPTH
  /\ ~tx_full => Writable(tx_fifo, TX_DEPTH)

(* S-TX-2: once a host has read full = 0, its next write is accepted: only *)
(* the transmitter touches the FIFO in between, and it makes room.         *)
RoomSeenIsRoom == room => ~tx_full

(* S-BP-5: while the core runs, what the FIFO holds is at most what was    *)
(* left when the stall fell plus what has been pushed since.               *)
RunningFill == ~stall => Level(rx_fifo) <= lwm + pushes

(* S-BP-5: no oscillation at the threshold.  Between two stalls the core   *)
(* has been let print at least RX_HYSTERESIS bytes.                        *)
NoOscillation == [][~stall /\ stall' => pushes = RX_HYSTERESIS]_bridgeVars
=============================================================================
