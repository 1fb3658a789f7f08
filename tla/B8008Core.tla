----------------------------- MODULE B8008Core ------------------------------
(***************************************************************************)
(* soc/b8008_integration.py: the console bridge (cd_sys) wired to the 8008 *)
(* core (cd_b8008) by two serial lines and one synchronized level, the     *)
(* backpressure stall (crossing X3).                                       *)
(*                                                                         *)
(* cd_sys and cd_b8008 are asynchronous.  cd_sys is the faster clock, so   *)
(* at least one SysCycle separates two CoreCycles; nothing else is assumed *)
(* about their ratio or phase.  A serial frame lasts FRAME cycles of       *)
(* cd_b8008 (2170 at 25 MHz and 115200 baud).                              *)
(***************************************************************************)
EXTENDS ConsoleBridge

CONSTANTS
  FRAME,       \* length of a serial frame, in cd_b8008 cycles
  CoreBytes    \* the bytes the program on the 8008 prints

ASSUME FrameAssumption == FRAME \in Nat /\ FRAME >= 3
ASSUME CoreBytesAssumption == CoreBytes \subseteq Byte
(* S-BP-6: the headroom covers the bytes in flight when the stall rises.   *)
ASSUME HeadroomAssumption == RX_HEADROOM >= 2

VARIABLES
  usart,      \* the core's transmitter: [left, byte], the cycles left of the
              \* frame being shifted out and its byte (<< >> when idle)
  phy,        \* the byte in the PHY receiver, not yet presented (or << >>)
  sync0,      \* the stall as it was at the last cd_b8008 edge
  sync1, stall_b,   \* the two flip-flops of MultiReg(stall, "b8008")
  ticked,     \* a SysCycle has happened since the last CoreCycle
  up, down    \* observers: the two ends of each byte stream (see ByteStream)

crossing == <<sync0, sync1, stall_b>>
vars == <<bridgeVars, usart, phy, crossing, ticked, up, down>>

idle == [left |-> 0, byte |-> << >>]
Port(p, b) == [bit |-> 1 - p.bit, byte |-> b]
NoPort  == [bit |-> 0, byte |-> << >>]
NewEnds == [in |-> NoPort, out |-> NoPort, epoch |-> 0]

Init ==
  /\ BridgeInit
  /\ usart = idle /\ phy = << >>
  /\ sync0 = FALSE /\ sync1 = FALSE /\ stall_b = FALSE
  /\ ticked = FALSE
  /\ up = NewEnds /\ down = NewEnds
-----------------------------------------------------------------------------
(* A cd_sys edge of the bridge.  The PHY receiver presents a complete byte *)
(* for one cycle and does not wait for sink.ready.                         *)
Sys(byte, csr, taken) ==
  /\ SysCycle(byte, csr, taken)
  /\ ticked' = TRUE
  /\ up' = IF rx_ready(csr)
           THEN [up EXCEPT !.out = Port(up.out, rx_fifo.out)] ELSE up
  /\ down' = [down EXCEPT
                !.in  = IF tx_sink(csr) # << >>
                        THEN Port(down.in, tx_sink(csr)) ELSE down.in,
                !.out = IF taken
                        THEN Port(down.out, tx_fifo.out) ELSE down.out]
  /\ UNCHANGED <<usart, crossing>>

SysQuiet(csr, taken) == Sys(<< >>, csr, taken) /\ UNCHANGED phy

SysReceive(csr, taken) ==
  /\ phy # << >>
  /\ Sys(phy, csr, taken)
  /\ phy' = << >>

(* Faulty variant: a core that ignores the hold.                           *)
run_enable_NoHold == TRUE

(* The first synchronizer flip-flop may miss a change of the stall that    *)
(* falls in its aperture, and then holds the value of the previous edge.   *)
Synchronize ==
  /\ sync0' = stall
  /\ sync1' \in {stall, sync0}
  /\ stall_b' = sync1

(* run_enable <= dbg_run_enable and not ext_hold.  dbg_run_enable is the   *)
(* core's own business: it may run or not, and print or not.               *)
run_enable == ~stall_b

(* A cd_b8008 edge at which the core writes a byte to its idle USART.      *)
CorePrint(b) ==
  /\ ticked /\ run_enable
  /\ usart.left = 0
  /\ usart' = [left |-> FRAME, byte |-> << b >>]
  /\ up' = [up EXCEPT !.in = Port(up.in, << b >>)]
  /\ ticked' = FALSE
  /\ Synchronize
  /\ UNCHANGED <<bridgeVars, phy, down>>

(* Any other cd_b8008 edge.  The USART shifts whether or not the core is   *)
(* held; the last bit leaves the byte with the PHY receiver, which has     *)
(* presented the previous one long before.                                 *)
CoreShift ==
  /\ ticked
  /\ IF usart.left = 1
     THEN phy = << >> /\ phy' = usart.byte /\ usart' = idle
     ELSE /\ usart' = [usart EXCEPT !.left = IF @ = 0 THEN 0 ELSE @ - 1]
          /\ UNCHANGED phy
  /\ ticked' = FALSE
  /\ Synchronize
  /\ UNCHANGED <<bridgeVars, up, down>>

(* Reset R6 resets both domains; MultiReg's flip-flops are reset_less.     *)
Reset ==
  /\ SysReset
  /\ usart' = idle /\ phy' = << >>
  /\ up' = [up EXCEPT !.epoch = 1 - @]
  /\ down' = [down EXCEPT !.epoch = 1 - @]
  /\ UNCHANGED <<crossing, ticked>>

Next ==
  \/ \E csr \in Requests, taken \in BOOLEAN :
       SysQuiet(csr, taken) \/ SysReceive(csr, taken)
  \/ \E b \in CoreBytes : CorePrint(b)
  \/ CoreShift
  \/ Reset

Spec == Init /\ [][Next]_vars

(* The clocks never stop, the PHYs complete what they started, and the     *)
(* host, as long as it drains, pops whenever it sees a byte.               *)
CoreEdge == CoreShift \/ \E b \in CoreBytes : CorePrint(b)

PopByte ==
  /\ Valid(rx_fifo)
  /\ \E taken \in BOOLEAN : SysQuiet(PopRx, taken) \/ SysReceive(PopRx, taken)

PhyFairness ==
  /\ WF_vars(\E csr \in Requests, taken \in BOOLEAN : SysReceive(csr, taken))
  /\ WF_vars(\E csr \in Requests :
               SysQuiet(csr, TRUE) \/ SysReceive(csr, TRUE))

Fairness ==
  /\ WF_vars(\E csr \in Requests, taken \in BOOLEAN :
               SysQuiet(csr, taken) \/ SysReceive(csr, taken))
  /\ WF_vars(CoreEdge)
  /\ PhyFairness
  /\ WF_vars(PopByte)

FairSpec == Spec /\ Fairness
-----------------------------------------------------------------------------
Ports == [bit : {0, 1}, byte : Seq(Byte)]
Ends  == [in : Ports, out : Ports, epoch : {0, 1}]

(* Every variable has its type; the two shift registers hold at most one   *)
(* byte each, and the USART is busy exactly while it holds one.            *)
TypeOK ==
  /\ BridgeTypeOK
  /\ usart \in [left : 0 .. FRAME, byte : Seq(CoreBytes)]
  /\ Len(usart.byte) <= 1
  /\ usart.left = 0 <=> usart.byte = << >>
  /\ phy \in Seq(CoreBytes) /\ Len(phy) <= 1
  /\ sync0 \in BOOLEAN /\ sync1 \in BOOLEAN /\ stall_b \in BOOLEAN
  /\ ticked \in BOOLEAN
  /\ up \in Ends /\ down \in Ends

(* S-BP-8, S-BP-9: rx_fifo never overflows.  Whenever the PHY receiver     *)
(* holds a byte the FIFO has room for it, however long the host has been   *)
(* away, so the rx_overflow canary is never set.                           *)
NoOverflow ==
  /\ phy # << >> => Writable(rx_fifo, RX_DEPTH)
  /\ "rx_overflow" \notin sticky

(* The cd_b8008 edges, counted from now, at which the core may still print *)
(* once rx_fifo is at or above the high-water mark: the stall has to be    *)
(* registered, sampled (perhaps one edge late) and passed on.              *)
EdgesToHold ==
  CASE ~stall                              -> IF ticked THEN 4 ELSE 3
    [] stall /\ ~sync0                     -> 3
    [] stall /\ sync0 /\ ~sync1            -> 2
    [] stall /\ sync0 /\ sync1 /\ ~stall_b -> 1
    [] OTHER                               -> 0

(* Why S-BP-8 holds: a frame is longer than the way of the hold to the     *)
(* core, so above the mark at most one more byte is printed.               *)
HoldArrivesInTime ==
  Level(rx_fifo) >= hwm =>
    Level(rx_fifo) + Len(phy) + Len(usart.byte)
      + (IF usart.left < EdgesToHold THEN 1 ELSE 0) <= hwm + 2

(* S-BP-6: at most two bytes get past the high-water mark, one less than   *)
(* the headroom comment allows for.                                        *)
InFlightBound == Level(rx_fifo) + Len(phy) + Len(usart.byte) <= hwm + 2

(* S-PROD-3, core to host: every byte the core prints is popped by the     *)
(* host exactly once and in order.                                         *)
Up == INSTANCE ByteStream WITH
        queue <- Contents(rx_fifo) \o phy \o usart.byte,
        in <- up.in, out <- up.out, epoch <- up.epoch
UpStream == Up!Spec

(* S-PROD-3, S-TX-2, host to core: every byte the bridge accepts reaches   *)
(* the core's receiver exactly once and in order.                          *)
Down == INSTANCE ByteStream WITH
          queue <- Contents(tx_fifo),
          in <- down.in, out <- down.out, epoch <- down.epoch
DownStream == Down!Spec

(* S-BP-7: a host that drains always gets a stalled core to run again.     *)
CoreResumes == stall_b ~> ~stall_b

(* A byte in either direction is delivered, unless a reset discards it.    *)
UpDelivers ==
  \A k \in {0, 1} :
    (Len(Contents(rx_fifo) \o phy \o usart.byte) > 0 /\ up.out.bit = k)
      ~> (up.out.bit # k \/ Contents(rx_fifo) \o phy \o usart.byte = << >>)
DownDelivers ==
  \A k \in {0, 1} : (Level(tx_fifo) > 0 /\ down.out.bit = k)
                       ~> (down.out.bit # k \/ Level(tx_fifo) = 0)
=============================================================================
