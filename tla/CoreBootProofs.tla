--------------------------- MODULE CoreBootProofs ---------------------------
(***************************************************************************)
(* The reset order and the boot of the core, for all lengths of the        *)
(* counters and any number of resets.                                      *)
(***************************************************************************)
EXTENDS CoreBoot, TLAPS

\* The synchronizers: without lock both are set; a release travels through the
\* first flip-flop; lock implies that the core's clock has run, and its first
\* edge under reset ends what ran before.
ResetInv ==
  /\ ~locked => sys_ff = 2 /\ b8008_ff = 2
  /\ b8008_ff < 2 => sys_ff = 0
  /\ locked => edges
  /\ stale => ~edges

\* The press: pending or done, and only then does the core run.
PressInv ==
  /\ auto.pulse => auto.done /\ ~run
  /\ run => auto.done
  /\ ~auto.done => auto.cnt <= AUTO_START

\* The bootstrap interrupt: over once acknowledged, and not before the core
\* has been started and the restart that comes with it is over.
JamInv ==
  /\ boot.done => ~boot.int /\ cpu.live /\ run /\ restart = 0
  /\ cpu.jam => cpu.live

BootInv == TypeOK /\ ResetInv /\ PressInv /\ JamInv

\* All registers start in a state that satisfies the invariant.
LEMMA BootInitially == Init => BootInv
  <1> SUFFICES ASSUME Init PROVE BootInv
    OBVIOUS
  <1> USE BootConstants DEF Init
  <1>1. TypeOK
    <2>1. Last \in Nat
      BY DEF Last
    <2>2. cpu \in [half : 0 .. Last, jam : BOOLEAN, live : BOOLEAN]
      BY <2>1
    <2>3. auto \in [cnt : 0 .. AUTO_START + 1, done : BOOLEAN, pulse : BOOLEAN]
      OBVIOUS
    <2>4. boot \in [int : BOOLEAN, done : BOOLEAN, counter : 0 .. BOOT_WRAP - 1]
      OBVIOUS
    <2>5. /\ por_count \in 0 .. POR_COUNT /\ clk_counter \in 0 .. POR_CYCLES
          /\ sys_ff \in 0 .. 2 /\ b8008_ff \in 0 .. 2 /\ resets \in 0 .. MaxResets
          /\ restart \in 0 .. RESTART
      OBVIOUS
    <2> QED BY <2>2, <2>3, <2>4, <2>5, Zenon DEF TypeOK
  <1>2. ResetInv /\ PressInv /\ JamInv
    BY DEF ResetInv, PressInv, JamInv
  <1> QED BY <1>1, <1>2 DEF BootInv

\* One edge of the core's clock.
LEMMA CoreTickKeeps ==
  ASSUME BootInv, NEW phi2 \in BOOLEAN, CoreTick(phi2) PROVE BootInv'
  <1> USE BootConstants DEF BootInv
  <1>1. TypeOK'
    <2> USE DEF TypeOK, CoreTick
    <2>1. clk_counter' \in 0 .. POR_CYCLES /\ por_active' \in BOOLEAN
      <3>1. CASE b8008_rst
        BY <3>1 DEF PowerOnReset
      <3>2. CASE ~b8008_rst /\ clk_counter < POR_CYCLES
        BY <3>2 DEF PowerOnReset
      <3>3. CASE ~b8008_rst /\ ~(clk_counter < POR_CYCLES)
        BY <3>3 DEF PowerOnReset
      <3> QED BY <3>1, <3>2, <3>3
    <2>2. auto' \in [cnt : 0 .. AUTO_START + 1, done : BOOLEAN, pulse : BOOLEAN]
      <3>1. CASE por_active
        BY <3>1 DEF AutoStart
      <3>4. CASE ~por_active /\ auto.done
        <4>1. auto' = [auto EXCEPT !.pulse = FALSE]
          BY <3>4 DEF AutoStart
        <4> QED BY <4>1, Zenon
      <3>2. CASE ~por_active /\ ~auto.done /\ auto.cnt = AUTO_START
        BY <3>2 DEF AutoStart
      <3>3. CASE ~por_active /\ ~auto.done /\ auto.cnt # AUTO_START
        <4>1. auto' = [cnt |-> auto.cnt + 1, done |-> FALSE, pulse |-> FALSE]
          BY <3>3, Zenon DEF AutoStart
        <4> QED BY <3>3, <4>1 DEF PressInv
      <3> QED BY <3>1, <3>2, <3>3, <3>4
    <2>3. boot' \in [int : BOOLEAN, done : BOOLEAN, counter : 0 .. BOOT_WRAP - 1]
      BY DEF Bootstrap, T1I, reset_int, dbg_reset_request
    <2>4. cpu' \in [half : 0 .. Last, jam : BOOLEAN, live : BOOLEAN]
      BY DEF Cpu, Last, reset_int, dbg_reset_request
    <2>5. run' \in BOOLEAN /\ restart' \in 0 .. RESTART
      <3>1. run' \in BOOLEAN
        BY Zenon DEF DebugClock
      <3>2. restart' \in 0 .. RESTART
        BY DEF DebugClock
      <3> QED BY <3>1, <3>2
    <2>6. b8008_ff' \in 0 .. 2 /\ stale' \in BOOLEAN /\ edges' \in BOOLEAN
      BY <2>1 DEF b8008_rst_gate, Shift
    <2> QED BY <2>1, <2>2, <2>3, <2>4, <2>5, <2>6
  <1>2. ResetInv'
    <2> USE DEF TypeOK, ResetInv, CoreTick
    <2>1. CASE locked
      BY <2>1 DEF b8008_rst_gate, sys_rst, Shift
    <2>2. CASE ~locked
      <3>1. b8008_rst /\ por_active'
        BY <2>2 DEF PowerOnReset, b8008_rst
      <3> QED BY <2>2, <3>1 DEF b8008_rst_gate
    <2> QED BY <2>1, <2>2
  <1>3. PressInv'
    <2> USE DEF TypeOK, PressInv, CoreTick, AutoStart, DebugClock
    <2>1. CASE por_active
      BY <2>1
    <2>2. CASE ~por_active /\ auto.done
      BY <2>2
    <2>3. CASE ~por_active /\ ~auto.done /\ auto.cnt = AUTO_START
      BY <2>3, Zenon
    <2>4. CASE ~por_active /\ ~auto.done /\ auto.cnt # AUTO_START
      BY <2>4
    <2> QED BY <2>1, <2>2, <2>3, <2>4
  <1>4. JamInv'
    <2> USE DEF TypeOK, JamInv, CoreTick
    <2>1. (boot'.done => ~boot'.int /\ cpu'.live) /\ (cpu'.jam => cpu'.live)
      BY DEF Bootstrap, Cpu, T1I
    <2>2. ASSUME boot'.done PROVE run' /\ restart' = 0
      <3>1. ~por_active /\ restart = 0 /\ run
        BY <2>2 DEF Bootstrap, reset_int, dbg_reset_request
      <3>2. ~auto.pulse
        BY <3>1 DEF PressInv
      <3> QED BY <3>1, <3>2 DEF DebugClock
    <2> QED BY <2>1, <2>2
  <1> QED BY <1>1, <1>2, <1>3, <1>4

\* The other steps move the SoC's registers only.
LEMMA SocKeeps ==
  ASSUME BootInv,
         PorTick \/ Unlock \/ Lock \/ SysTick \/ Press \/ Release \/ UNCHANGED vars
  PROVE  BootInv'
  <1> USE BootConstants DEF BootInv
  <1>1. UNCHANGED core
    BY DEF PorTick, Unlock, Lock, SysTick, Press, Release, vars
  <1>2. TypeOK'
    <2> USE <1>1 DEF TypeOK, core
    <2>1. CASE PorTick
      BY <2>1 DEF PorTick, por_done
    <2>2. CASE Unlock
      <3>1. stale' \in BOOLEAN
        BY <2>2, Zenon DEF Unlock
      <3>2. sys_ff' \in 0 .. 2 /\ b8008_ff' \in 0 .. 2
        BY <2>2 DEF Unlock
      <3> QED BY <2>2, <3>1, <3>2, Zenon DEF Unlock
    <2>3. CASE Lock
      BY <2>3 DEF Lock
    <2>4. CASE SysTick
      <3>1. sys_ff' \in 0 .. 2
        BY <2>4 DEF SysTick, Shift
      <3> QED BY <2>4, <3>1, Zenon DEF SysTick
    <2>5. CASE Press
      <3>1. resets' \in 0 .. MaxResets
        BY <2>5 DEF Press
      <3> QED BY <2>5, <3>1, Zenon DEF Press
    <2>6. CASE Release
      BY <2>6 DEF Release
    <2>7. CASE UNCHANGED vars
      BY <2>7 DEF vars, soc
    <2> QED BY <2>1, <2>2, <2>3, <2>4, <2>5, <2>6, <2>7
  <1>3. ResetInv'
    <2> USE DEF TypeOK, ResetInv
    <2>1. CASE PorTick \/ Lock \/ Press \/ Release \/ UNCHANGED vars
      BY <2>1 DEF PorTick, Lock, Press, Release, vars, soc
    <2>2. CASE Unlock
      BY <2>2 DEF Unlock
    <2>3. CASE SysTick
      BY <2>3 DEF SysTick, Shift
    <2> QED BY <2>1, <2>2, <2>3
  <1>4. PressInv' /\ JamInv'
    BY <1>1 DEF PressInv, JamInv, core
  <1> QED BY <1>2, <1>3, <1>4

\* BootInv holds at every moment, whatever the order of the three clocks and
\* of the presses of rst_n.
THEOREM BootInvariant == Spec => []BootInv
  <1>1. BootInv /\ [Next]_vars => BootInv'
    BY CoreTickKeeps, SocKeeps DEF Next
  <1> QED BY <1>1, BootInitially, PTL DEF Spec

\* S-RST-6 for all counters: cd_b8008 is never out of reset before cd_sys.
THEOREM ResetOrder == Spec => []ConsoleBeforeCore
  <1>1. BootInv => ConsoleBeforeCore
    BY DEF BootInv, ResetInv, TypeOK, ConsoleBeforeCore, b8008_rst, sys_rst
  <1> QED BY <1>1, BootInvariant, PTL

\* No reset leaves the old run in the core once the console listens.
THEOREM ResetReachesCore == Spec => []NoStaleCore
  <1>1. BootInv => NoStaleCore
    BY DEF BootInv, ResetInv, TypeOK, NoStaleCore, sys_rst
  <1> QED BY <1>1, BootInvariant, PTL

\* The press is never repeated: only a reset stops the core.
THEOREM PressedOnce == Spec => NeverStopped
  <1>1. BootInv /\ [Next]_vars => [run /\ ~run' => por_active]_vars
    <2> SUFFICES ASSUME BootInv, Next, run, ~run' PROVE por_active
      BY DEF vars, core
    <2>1. ASSUME NEW phi2 \in BOOLEAN, CoreTick(phi2) PROVE por_active
      BY <2>1 DEF BootInv, TypeOK, PressInv, CoreTick, DebugClock
    <2> QED BY <2>1, Zenon DEF Next, PorTick, Unlock, Lock, SysTick, Press, Release, core
  <1> QED BY <1>1, BootInvariant, PTL DEF Spec, NeverStopped

\* The bootstrap interrupt is acknowledged before it ends and never repeated.
THEOREM BootstrapOnce == Spec => MonitorUndisturbed
  <1> DEFINE A == boot.done /\ ~por_active =>
                    /\ boot'.done /\ cpu.live
                    /\ cpu.half = Last => ~cpu'.jam \/ UNCHANGED cpu
  <1>1. BootInv /\ [Next]_vars => [A]_vars
    <2> SUFFICES ASSUME BootInv, Next, boot.done, ~por_active
                 PROVE  /\ boot'.done /\ cpu.live
                        /\ cpu.half = Last => ~cpu'.jam \/ UNCHANGED cpu
      OBVIOUS
    <2>1. cpu.live /\ ~reset_int
      BY DEF BootInv, TypeOK, JamInv, reset_int, dbg_reset_request
    <2>3. ASSUME NEW phi2 \in BOOLEAN, CoreTick(phi2) PROVE boot'.done
      BY <2>1, <2>3 DEF CoreTick, Bootstrap
    <2>2. ASSUME NEW phi2 \in BOOLEAN, CoreTick(phi2), cpu.half = Last
          PROVE  ~cpu'.jam \/ UNCHANGED cpu
      BY <2>1, <2>2, BootConstants DEF BootInv, TypeOK, JamInv, CoreTick, Cpu, Last
    <2> QED BY <2>1, <2>2, <2>3 DEF Next, PorTick, Unlock, Lock, SysTick, Press, Release, core
  <1> QED BY <1>1, BootInvariant, PTL DEF Spec, MonitorUndisturbed
=============================================================================
