------------------------------ MODULE CoreBoot ------------------------------
(***************************************************************************)
(* Reset and boot: the clock and reset generator of versa_soc.py (power-on *)
(* counter, PLL, the two reset synchronizers and the gate that orders      *)
(* them) and the boot logic of b8008_net_core.vhdl (its own power-on       *)
(* counter, the auto-start press, the bootstrap interrupt).                *)
(*                                                                         *)
(* clk100, cd_sys and cd_b8008 tick independently.  rst_n may be pressed   *)
(* at any moment, also too briefly for the PLL to lose lock.               *)
(***************************************************************************)
EXTENDS Naturals

CONSTANTS POR_COUNT,    \* clk100 cycles of the power-on reset (2^16 - 1)
          POR_CYCLES,   \* core cycles of por_active (2^19)
          AUTO_START,   \* core cycles from there to the press (50000)
          RESTART,      \* core cycles of reset_request after a press (500)
          BOOT_WAIT,    \* phi2 edges before T1I is looked for (16)
          BOOT_WRAP,    \* range of bootstrap_counter (2^8)
          States,       \* CPU states of the jammed instruction
          MaxResets     \* presses of rst_n

ASSUME BootConstants ==
  /\ POR_COUNT \in Nat /\ POR_CYCLES \in Nat /\ AUTO_START \in Nat
  /\ RESTART \in Nat
  /\ BOOT_WAIT \in Nat /\ MaxResets \in Nat
  /\ BOOT_WRAP \in Nat \ {0} /\ States \in Nat \ {0}

VARIABLES
  rst_n, por_count,
  locked,      \* the PLL's lock
  edges,       \* the core's clock has run since the PLL was reset
  sys_ff,      \* reset synchronizers: flip-flops that are still set;
  b8008_ff,    \* the second drives the reset
  clk_counter, por_active,
  auto,        \* auto_start_cnt, _done and _pulse
  run,         \* debug_clock_control's run_enable, and what is left of
  restart,     \* its reset_request
  boot,        \* bootstrap_int, _done and _counter
  cpu,         \* half-state, "jammed instruction", "has left STOPPED"
  stale,       \* history: the core still runs what a reset should have ended
  resets

soc == <<rst_n, por_count, locked, edges, sys_ff, b8008_ff>>
core == <<clk_counter, por_active, auto, run, restart, boot, cpu>>
vars == <<soc, core, stale, resets>>

Last == 2 * States - 1

TypeOK ==
  /\ rst_n \in BOOLEAN /\ por_count \in 0 .. POR_COUNT
  /\ locked \in BOOLEAN /\ edges \in BOOLEAN
  /\ sys_ff \in 0 .. 2 /\ b8008_ff \in 0 .. 2
  /\ clk_counter \in 0 .. POR_CYCLES /\ por_active \in BOOLEAN
  /\ auto \in [cnt : 0 .. AUTO_START + 1, done : BOOLEAN, pulse : BOOLEAN]
  /\ run \in BOOLEAN /\ restart \in 0 .. RESTART
  /\ boot \in [int : BOOLEAN, done : BOOLEAN, counter : 0 .. BOOT_WRAP - 1]
  /\ cpu \in [half : 0 .. Last, jam : BOOLEAN, live : BOOLEAN]
  /\ stale \in BOOLEAN /\ resets \in 0 .. MaxResets

\* Configuration leaves every register at its initial value.
Init ==
  /\ rst_n \in BOOLEAN /\ por_count = POR_COUNT
  /\ locked = FALSE /\ edges = FALSE
  /\ sys_ff = 2 /\ b8008_ff = 2
  /\ clk_counter = 0 /\ por_active = TRUE
  /\ auto = [cnt |-> 0, done |-> FALSE, pulse |-> FALSE]
  /\ run = FALSE /\ restart = 0
  /\ boot = [int |-> FALSE, done |-> FALSE, counter |-> 0]
  /\ cpu = [half |-> Last, jam |-> FALSE, live |-> FALSE]
  /\ stale = FALSE /\ resets = 0

-----------------------------------------------------------------------------
(* The SoC's clock and reset generator.                                    *)

Shift(ff) == IF ff = 0 THEN 0 ELSE ff - 1

sys_rst == sys_ff > 0
b8008_rst == b8008_ff > 0

por_done == por_count = 0
pll_reset == ~por_done \/ ~rst_n

PorTick ==
  /\ ~por_done
  /\ por_count' = por_count - 1
  /\ UNCHANGED <<rst_n, locked, edges, sys_ff, b8008_ff, core, stale, resets>>

\* A PLL held in reset loses its lock; both synchronizers are set at once,
\* the second through the first.
Unlock ==
  /\ pll_reset /\ locked
  /\ locked' = FALSE /\ edges' = FALSE
  /\ sys_ff' = 2 /\ b8008_ff' = 2
  /\ stale' = ~por_active
  /\ UNCHANGED <<rst_n, por_count, core, resets>>

\* Lock takes many cycles of the PLL's outputs, which run meanwhile.
Lock ==
  /\ ~pll_reset /\ ~locked /\ edges
  /\ locked' = TRUE
  /\ UNCHANGED <<rst_n, por_count, edges, sys_ff, b8008_ff, core, stale, resets>>

\* AsyncResetSynchronizer(cd_sys, ~pll.locked | reset); nothing drives reset.
SysTick ==
  /\ locked
  /\ sys_ff' = Shift(sys_ff)
  /\ UNCHANGED <<rst_n, por_count, locked, edges, b8008_ff, core, stale, resets>>

b8008_rst_gate_Bare == ~locked
b8008_rst_gate == ~locked \/ sys_rst

-----------------------------------------------------------------------------
(* One edge of the core's clock.  Every process reads the old values.      *)

PowerOnReset_Once ==
  /\ clk_counter' = IF clk_counter < POR_CYCLES THEN clk_counter + 1 ELSE clk_counter
  /\ por_active' = (por_active /\ clk_counter < POR_CYCLES)
PowerOnReset ==
  IF b8008_rst
  THEN clk_counter' = 0 /\ por_active' = TRUE
  ELSE /\ clk_counter' = IF clk_counter < POR_CYCLES THEN clk_counter + 1 ELSE clk_counter
       /\ por_active' = (por_active /\ clk_counter < POR_CYCLES)

AutoStart_NoLatch ==
  auto' =
    IF por_active THEN [cnt |-> 0, done |-> FALSE, pulse |-> FALSE]
    ELSE [cnt |-> (auto.cnt + 1) % (AUTO_START + 2),
          done |-> TRUE, pulse |-> auto.cnt = AUTO_START]
AutoStart_NoRearm ==
  auto' =
    IF auto.done \/ por_active THEN [auto EXCEPT !.pulse = FALSE]
    ELSE [cnt |-> auto.cnt + 1, done |-> auto.cnt = AUTO_START, pulse |-> auto.cnt = AUTO_START]
AutoStart ==
  auto' =
    IF por_active THEN [cnt |-> 0, done |-> FALSE, pulse |-> FALSE]
    ELSE IF auto.done THEN [auto EXCEPT !.pulse = FALSE]
    ELSE [cnt |-> auto.cnt + 1, done |-> auto.cnt = AUTO_START, pulse |-> auto.cnt = AUTO_START]

\* The run/stop button toggles, and a start from stopped is a restart: it also
\* requests a reset (S-CORE-10).  That does not reset the controller itself.
DebugClock ==
  IF por_active THEN run' = FALSE /\ restart' = 0
  ELSE /\ run' = IF auto.pulse THEN ~run ELSE run
       /\ restart' = IF auto.pulse /\ ~run THEN RESTART
                     ELSE IF restart > 0 THEN restart - 1 ELSE 0

dbg_reset_request == restart > 0
reset_int == por_active \/ dbg_reset_request

T1I == cpu.jam /\ cpu.half = 0

\* The bootstrap FSM acts on a rising edge of phi2.
Bootstrap_Held(phi2) ==
  boot' =
    IF reset_int THEN [int |-> FALSE, done |-> FALSE, counter |-> 0]
    ELSE IF ~phi2 \/ boot.done THEN boot
    ELSE [int |-> TRUE, done |-> boot.counter >= BOOT_WAIT /\ T1I,
          counter |-> (boot.counter + 1) % BOOT_WRAP]
Bootstrap(phi2) ==
  boot' =
    IF reset_int THEN [int |-> FALSE, done |-> FALSE, counter |-> 0]
    ELSE IF ~phi2 \/ boot.done THEN boot
    ELSE LET taken == boot.counter >= BOOT_WAIT /\ T1I
         IN [int |-> ~taken, done |-> taken, counter |-> (boot.counter + 1) % BOOT_WRAP]

\* The CPU leaves STOPPED by an interrupt only, and takes interrupts between
\* instructions.
Cpu(phi2) ==
  cpu' =
    IF reset_int THEN [half |-> Last, jam |-> FALSE, live |-> FALSE]
    ELSE IF ~phi2 THEN cpu
    ELSE IF cpu.half < Last THEN [cpu EXCEPT !.half = @ + 1]
    ELSE IF boot.int THEN [half |-> 0, jam |-> TRUE, live |-> TRUE]
    ELSE IF cpu.live THEN [half |-> 0, jam |-> FALSE, live |-> TRUE]
    ELSE cpu

\* phi2 rises only while the core runs and is not held.
CoreTick(phi2) ==
  /\ phi2 => run
  /\ edges' = TRUE
  /\ b8008_ff' = IF b8008_rst_gate THEN 2 ELSE Shift(b8008_ff)
  /\ PowerOnReset /\ AutoStart /\ DebugClock /\ Bootstrap(phi2) /\ Cpu(phi2)
  /\ stale' = (stale /\ ~por_active')
  /\ UNCHANGED <<rst_n, por_count, locked, sys_ff, resets>>

-----------------------------------------------------------------------------
Press ==
  /\ rst_n /\ resets < MaxResets
  /\ rst_n' = FALSE /\ resets' = resets + 1
  /\ UNCHANGED <<por_count, locked, edges, sys_ff, b8008_ff, core, stale>>

Release ==
  /\ ~rst_n
  /\ rst_n' = TRUE
  /\ UNCHANGED <<por_count, locked, edges, sys_ff, b8008_ff, core, stale, resets>>

Next ==
  \/ PorTick \/ Unlock \/ Lock \/ SysTick
  \/ \E phi2 \in BOOLEAN : CoreTick(phi2)
  \/ Press \/ Release

Spec == Init /\ [][Next]_vars

\* Clocks run, the PLL locks, the button is let go, and the core is not held
\* for ever.
LiveSpec ==
  /\ Spec
  /\ WF_vars(PorTick) /\ WF_vars(Release) /\ WF_vars(Lock) /\ WF_vars(SysTick)
  /\ WF_vars(CoreTick(FALSE)) /\ WF_vars(CoreTick(TRUE))

-----------------------------------------------------------------------------
\* S-RST-6: the core is out of reset only while the console path is, so the
\* banner finds a FIFO that takes it, on power-on and after every rst_n.
ConsoleBeforeCore == ~b8008_rst => ~sys_rst

\* Once the console takes bytes again, nothing of the run before the reset is
\* left in the core to print ahead of the banner.
NoStaleCore == ~sys_rst => ~stale

\* The auto-start press toggles run/stop: it comes once, and nothing but the
\* power-on reset of the core stops it again.
NeverStopped == [][run /\ ~run' => por_active]_vars

\* The bootstrap ends on an acknowledged interrupt and is the last one: from
\* then on the CPU fetches from the ROM undisturbed, by a second jam or by the
\* restart that the debug controller adds to the auto-start press.
MonitorUndisturbed ==
  [][boot.done /\ ~por_active =>
       /\ boot'.done /\ cpu.live
       /\ cpu.half = Last => ~cpu'.jam \/ UNCHANGED cpu]_vars

\* The product comes up: the core ends up running with the bootstrap over.
Boots == <>[](run /\ boot.done /\ ~cpu.jam)
=============================================================================
