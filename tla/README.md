# A TLA+ verification of remote_8008

remote_8008 puts an Intel 8008 with its serial monitor on a LAN.  A host program
(`b8008net`) talks over UDP/Etherbone to firmware on a RISC-V SoC; the firmware
performs register accesses on a *console bridge*; the bridge exchanges bytes with
the 8008 over two serial lines and stops the 8008 when the host is slow.  The
product's one promise is that no byte is lost, reordered or duplicated on the
way (SPEC.md S-PROD-3), and this project is organised around that promise.

## 1. The system and its state

| Part | Source | State | Operations | Talks to |
|---|---|---|---|---|
| Console bridge | `soc/console_bridge.py` | rx/tx FIFO, stall, sticky error bits | one cd_sys clock edge; reset | bus, PHYs, core (stall) |
| Core integration | `soc/b8008_integration.py`, `src/b8008_net_core.vhdl` | USART and PHY shift registers, synchronizer of the stall | one cd_b8008 edge; reset | bridge |
| Core boot | `src/b8008_net_core.vhdl` | POR counter, auto-start, bootstrap jam | clock edge, phi2 edge | core |
| Clock/reset | `soc/versa_soc.py` (`_CRG`) | POR, PLL lock, two resets | | both domains |
| Console client | `host/b8008net/console.py` | bytes read, bytes counted as accepted | `drain`, `send`, `check_errors`, `console_pump` | Etherbone bridge |
| Etherbone bridge | `host/b8008net/eb_server.py` | `read_counter`, socket | `probe`, `read` with up to 10 tries, `write` once | network |
| Etherbone server | `firmware/eb_serve.c`, `eb8008.c` | one request slot | receive callback, serve | udp.c, bus |
| Firmware main, DHCP | `firmware/main.c`, `dhcp8008.c` | lease, xid, callbacks | acquire, serve, renew | udp.c |
| UDP/ARP stack | `firmware/udp.c` | one-entry ARP cache, own IP, slots, callbacks | `udp_service`, `udp_send`, ARP | MAC |
| Board, discovery, CLI | `host/b8008net/board.py`, `discovery.py`, `cli.py` | lock, child process, cache file | `connect`, `close`, `discover` | Etherbone bridge |
| Self-test | `soc/host_selftest.py` | bytes collected, failures counted | five checks in a row | board |

Hard behaviours: two asynchronous clock domains joined by a level that arrives
late; a FIFO with one word more than its depth; a host that may pause for any
time between reading a register and acting on it; resets in the middle of
anything; a network that loses, repeats and delays datagrams below a client that
retries reads and not writes; single-entry buffers (request slot, ARP cache)
shared by nested polling loops; processes that fail half way through a connect.
`PROJECT.json` lists each at the line where it bites ("hazards").

## 2. Modules

| Module | Models |
|---|---|
| `StreamFIFO` | LiteX's buffered FIFO, from how `console_bridge.py` uses and describes it (external) |
| `ConsoleBridge` | the bridge alone, against arbitrary pins |
| `ByteStream` | the promise: an exactly-once, in-order stream of bytes that a reset may flush |
| `B8008Core` | the bridge closed through the core: USART, PHY, stall crossing, hold |
| `ConsoleSession` | the client, the host's Etherbone bridge, the network, the firmware's request slot and the registers, composed |
| `BoardConnect` | several commands on one machine: discovery and its cache file, lock, bridge process, retry |
| `SelfTest` | the checks of the self-test script, against a board that prints when it likes |
| `HostAlgorithms` | the pure functions of the host tools |
| `CoreBoot` | clock and reset generator, power-on reset, auto-start and bootstrap of the core |
| `Firmware` | main loop, DHCP client, ARP cache, receive filter and request slot of the board |
| `EtherboneCodec` | `eb8008_handle`, word by word |
| `DhcpOptions` | the option loop of `parse_reply` |
| `MC...` | instances for TLC; `MCPackets` puts the two decoders behind the one receive callback, `MCSelfTest` the pure functions before the script |
| `B8008CoreProofs` | invariants of the bridge; the backpressure argument; both directions implement `ByteStream` |
| `ConsoleSessionProofs` | types of a session, the order of its transcript and of its datagrams |
| `ConsoleDeliveryProofs` | what a session reads and types, on a good network and on a bad one |
| `BoardConnectProofs`, `CoreBootProofs`, `FirmwareProofs`, `SelfTestProofs` | safety of the module each is named after |
| `PacketProofs` | the bounds of `EtherboneCodec` and `DhcpOptions` |

**ConsoleBridge.**  One step is one clock edge; everything combinational
(`console_rx`, `tx_full`, `rx_ready`, `tx_sink`, `Faults`) is an operator of the
state before the edge and of the pins, and everything in `self.sync` is an
assignment of `SysCycle`.  The pins are chosen freely: a byte from the PHY
receiver or none, one register access or none, the PHY transmitter taking a byte
or not.  A console byte is an element of `Byte`; "no byte" is the empty
sequence, so the code's "data reads 0x00 when empty" is `<< >>`.  `seen`, `room`
and `pushes` are observers: they record what the host has read and what was
pushed since the stall fell, and nothing reads them but properties.

**B8008Core.**  `SysQuiet` and `SysReceive` are the bridge's edges without and
with a byte from the PHY, `CorePrint` and `CoreShift` the core's edges, `Reset`
the reset of both domains (which leaves the sticky bits and the synchronizer
alone: they are reset-less).  What the 8008 does is unknown: at an edge at which
it is not held and the USART is idle it may print.  `up` and `down` are
observers that show both ends of each stream.

Assumptions about the parts outside the sources, all visible in `B8008Core`:

* cd_sys is faster than cd_b8008 (75 against 25 MHz), so a cd_sys edge lies
  between two cd_b8008 edges; nothing more about ratio or phase.
* The first synchronizer flip-flop may miss a change at the edge at which it
  happens, never at the next one (the usual meaning of a two-flip-flop
  synchronizer).
* The PHY receiver shows a byte for one cycle, without waiting for `ready`, and
  before the next frame ends.
* The monitor waits for the USART to be idle before it writes to it.

**ConsoleSession.**  The client is a sequential program whose only blocking points
are register reads, so its place is the read it is in (`check_errors`, `drain`,
`send`) or `stdin`; the value that comes back decides the next place and the write
it sends, if any (`CheckErrors`, `Drain`, `Send`).  `Attempt` is one turn of
`CommUDPBroadcast.read`'s retry loop, and a socket may time out at any moment,
because nothing relates the host's timer to the board.  `read_counter` matters only
through its comparison with a reply, so each message carries the result: it is
`current` until the counter moves on.  This keeps an unbounded counter exact in a
finite model.  The firmware's loop alternates `Service` (one frame to
`eb_rx_callback`) and `eb_serve_pending`; `ArpRefresh` is `udp_arp_refresh`, which
polls for frames without serving them; `Renew` is `dhcp_run`, whose receive filter
discards Etherbone requests.  Requests and replies are queues; `Disturb` loses,
copies or swaps datagrams within the bounds of the `scenario`, and a frame the MAC has no
slot for is a lost one.  The registers are those of `ConsoleBridge`, one access at a
time, which its properties (an atomic word, a pop of the byte read, an exact
`full`) justify.  Bytes are numbered, so that a repeat or a gap shows.  `unseen`
is a history variable: the faults that happened and were not announced since.  Two
sessions at once are unspecified (S-WIRE-7) and not modelled.

**BoardConnect.**  A process is where it is in `Board.connect`, `_connect_to` or
`close`; a bridge process is one of the states of its start-up.  Time is abstract: a
deadline may pass at any moment of the wait it bounds, and a wait that has none
(a read while the bridge still probes) really waits.  `save_cache` is two steps,
because `open(path, "w")` truncates first, and a write goes to the file that was
opened even if it was unlinked meanwhile (`fd`).  `RemoteServer.open` is litex code,
and the comments at `board.py:247-251` and `eb_server.py:57` disagree on whether it
listens before or after the probe, so both orders are allowed.  The bridge ignores the
host it is given (`board.py:87`) and broadcasts, which is why `Probe` asks only
whether the board answers.  A killed process frees its lock, as `flock` does, and
its bridge lives on.  `blame` is a history variable.  The argument parser is the set
`Args` of command lines; `console` is an alias of `login`.

**SelfTest.**  One step is one turn of a polling loop, one byte or one pattern
written.  Any write of a command byte or of a pattern may be lost.  The pops of
`drain_rx` are taken to arrive (what a lost one does is shown by `session_lost_pop`),
and a board that has been up for a while has printed all it had to.  `heard` and `excuse` are history variables.

**CoreBoot.**  clk100, cd_sys and cd_b8008 tick independently; `Lock`, `Press` and
`Release` are the environment.  The PLL's outputs run before it has locked, and a
press may be too short for it to lose lock.  `debug_clock_control` and the CPU are
in another repository: a pulse on run toggles `run_enable`, and the CPU steps
through `States` half-states and acknowledges an interrupt with T1I at an
instruction boundary.  A start from stopped is a restart (S-CORE-10): the press that sets
`run_enable` also raises `dbg_reset_request` for `RESTART` clocks, which resets the
bootstrap FSM, the CPU and the USART through `reset_int` and not the controller.  phi2
may or may not rise meanwhile.  `reset_sw` is tied to 0 and absent.  The USART is in
`B8008Core`; the restart comes before the CPU's first instruction, so it finds nothing to
interrupt there.

**Firmware.**  `phase` is where `main` is: about to send a DISCOVER, in one of the
two waits, in the serve loop, or in `udp_arp_refresh` inside it.  The five attempts of
`dhcp_run` and the pause between two calls are one loop, since the pause services
nothing.  A host's address and its MAC are one value, so a pair of different ones is
a wrong pair.  The DHCP server acts when a request is sent and its reply travels for
any time; a reply does not outlive the period of the transaction numbers.
Answering ARP requests and the announcement change nothing in the model and are absent,
as are the slots of the transmitter.

**EtherboneCodec, DhcpOptions.**  One step is one turn of a loop.  Packets are either any
short sequence of words or bytes, or the encoding of a list of records, whole or cut at any
word, or of options (`sent`, `options`), against which the outcome is compared.

## 3. Runs

| Run | Instance | Shows |
|---|---|---|
| `bridge` | rx depth 5, high mark 4, low mark 2; tx depth 3 | the host's `console_rx` word is never torn; a pop takes the byte last read; a host that read "not full" has room; two stalls are a hysteresis apart |
| `core` | rx depth 3, headroom 2, frame 3; tx depth 3 | with a host that may never come back: no overflow, both stream refinements; with a host that pops: a held core runs again, every byte arrives |
| `session` | seven scenarios (below) | exactly-once while nothing disturbs the network, no byte skipped or retyped with loss and renewal, never backwards and no fault wiped out before it is announced with copies and reordering too |
| `session_live` | a loss and a renewal | each printed byte reaches the transcript or the session ends |
| `session_lost_pop` | one loss | *violated:* the transcript repeats a byte |
| `session_renewal` | one renewal, no network fault | *violated:* a discarded write is counted as accepted |
| `connect` | two commands, two addresses, one fault | lock, bridge process and cache stay in step on every failure path; every command ends or gets its session |
| `boot` | three presses of reset | the core leaves reset after the console, runs nothing from before a reset, is started once, jammed once, and at last runs |
| `firmware` | two addresses, two clients, a lost exchange, a late or repeated reply, a power cycle, leases of 1 s and of the default | ARP entry and destinations are right, the address served is the one bound, an address is acquired |
| `firmware_late_reply` | one late or repeated reply | *violated:* no later round completes |
| `packets` | all packets of 6 words over 5 values, all of two records, whole or cut anywhere; all options of 5 bytes over 5 values, all lists of 3 | no read past the request, the reply fits, records are executed exactly as far as they came, the last option of a kind counts |
| `selftest` | short texts of the real shape; 5-bit addresses; strings of 4 bytes | a pass is evidence, a failure has a cause; sweep, broadcast address, comparison, batches and identifier agree with definitions that do not compute them |

### Findings

`session_lost_pop`, `session_renewal`: pops and writes are single, unacknowledged
datagrams.  If one does not reach the registers, because the network lost it or
because the firmware was renewing its lease, nothing notices: the byte is read again,
or it is gone although `send` counted it.  README.md:16 and `console.py:131` promise
more.  `QuietTranscript` and `QuietWrites` show why the slot alone is harmless:
between two writes the client always waits for the reply to a read, so what is
dropped at an occupied slot is a read, and reads are retried.

`firmware_late_reply`: any DHCP datagram ends `wait_for_reply`, and one of another
round ends the attempt.  Once a reply is late or comes twice, each DISCOVER is sent
while the reply to the one before is still to come; that reply ends the attempt, and
the client stays one behind.  Neither the pause nor the next `dhcp_run` discards what
has arrived.  The counterexample needs the reply to be under way at each attempt, so it is
a schedule the code allows and not the likely one.

`FaultsReported` is stated of each fault, not of each kind.  Its one exception is a
fault that repeats a kind whose clear is still under way: the clear takes both, and if it
was late or copied nobody is told of the second.  `console.py:159-161` speaks of a fault
"that sets a bit" between read and clear, which such a repeat does not.  It needs a copied or reordered
pop or write.

Of an Etherbone packet that is cut short the decoder executes what came
(`RequestsExact`): a record whose reads are missing has its writes done and no reply,
because the writes run before the length of the reads is checked (`eb8008.c:93-106`).

Three further disagreements between a comment and the code came up while
modelling.  They are not among the runs.

* `cli.py:112-113` announces a banner "naming what was reached".  The bridge
  broadcasts, so a connect with a stale cached address succeeds and `login`
  prints that address.
* `discovery.py:73-76` has the cache dropped when a cached host fails.  `cmd_login`
  passes what `discover` returned as an explicit host (`cli.py:118`, `:123`), so
  `clear_cache` is not called.  `RetryDropsHost` is therefore stated of the other
  commands.
* `main.c:55-57` says the transaction numbers tell apart "a stale reply from a
  previous boot".  They start from the same constant at each boot (`main.c:58`).
  `ServesItsLease` is therefore stated of the first boot.

### Bounds

Bridge: the depths are such that empty, one word, both marks, full and "one more than
the depth" are different states.  Core: the depth is the smallest the assumptions
allow, so the stall rises at the first byte and the two in flight fill the FIFO; the
proofs cover all depths.  `FRAME = 3` is the shortest frame
for which the argument holds, hence the hardest case; the shipped value is 2170.
Two byte values are enough to see a reorder or a duplicate, because the observers
also flip a bit at each transfer.  `pushes` saturates at `RX_HYSTERESIS`, the only value
a property asks for.  The two directions of the core share no state but the bus, so a
behaviour of the `core` run uses one of them (`way`).

Sessions: a scenario bounds the bytes printed and typed, the losses, copies and
swaps, and the renewals of a behaviour.  `session` has three bytes each way on a quiet
network, two each way with a loss and a renewal, four mixes of two of a loss, a copy
and a swap, or one of them alone, and two copies (a fault of a kind announced before).  That covers a full drain (`DRAIN_MAX_BYTES = 2`), a
full FIFO, a short write and a chunk in several writes; three attempts cover a late reply to each of an earlier
attempt, the last one, and an earlier read.  Each property names the disturbances under
which it is promised.

Connect: two processes meet at each shared thing, and the proofs cover any number.
Of two assignments of commands that differ only by exchanging the processes one is taken.
Boot: the counters are short, and longer than every race they are part of; the
bootstrap waits its real 16 edges.  Firmware: a lease of 1 gives a serve period of no
tick, and one of 0 is replaced by the default, here 5, of two ticks.

Deadlock is not checked where the system ends: commands (`connect`), a call
(`packets`), a script (`selftest`).  Elsewhere it is.

### Fairness

Core: both clocks tick, the PHYs finish what they started, and for the upstream
properties the host pops a byte that stays available.  The first two are the hardware;
the third is `console_pump`, which drains on each turn, and is exactly the condition
S-BP-7 puts on the host.  Session: client, firmware loop and transmitter go on, ARP and
DHCP exchanges end, and a datagram that is not lost arrives (strong fairness, since the
loop polls for it only every other step).  Connect: a process or a bridge that can go on
does, but a session may last for ever.  Boot: clocks tick, a PLL that is out of reset
locks, the button is released.  Firmware: `main` goes on, its waits end, and a reply
that is not lost arrives.

## 4. Proofs

TLAPS proves the following for every value of the constants that meets the
assumption of its module.

* `B8008CoreProofs`, of the bridge alone and for every headroom: `BridgeInv` (types,
  marks, the bound on `tx_fifo`, the observers' meaning) is inductive.  From it:
  `BridgeTypes`, `PopSafety`, `TxSafety`, `SnapshotSafety`, `FillSafety`, `Hysteresis`.
  No step of these uses an assumption of `B8008Core`.
* `B8008CoreProofs`, of the closed path, for every headroom of at least 2 and frame of at least 3 core
  cycles: `BackpressureSafety`, that `rx_fifo` never overflows (S-BP-8).  `NoOverflow`
  is not inductive.  The strengthening counts, in `EdgesToHold`, the core edges at
  which a print is still possible once the FIFO has reached the mark (4 for a stall
  not yet registered, down to 0 when the hold is at the core).  A print needs an idle
  USART and a frame takes at least three edges, so above the mark at most one more
  byte can start: `HoldSafety`.  Level plus bytes in flight therefore stays within
  two of the mark (`InFlightSafety`).  The comment in `console_bridge.py` budgets
  three, and ships 64.
  `UpRefinement` and `DownRefinement`: each step of the detailed path is a step of `ByteStream` or a stutter, where the abstract queue
  is FIFO, PHY and USART read from old to new.  Upstream this needs
  `BackpressureSafety`; downstream it needs that an accepted write has room.
* `ConsoleSessionProofs` and `ConsoleDeliveryProofs`, for any number of bytes, attempts,
  losses, copies, swaps, ARP refreshes and renewals.  Everything rests on `TypeInv`:
  what a datagram may be (a clear names no fault that was not announced), that `rx` holds
  the printed bytes after the popped ones, and that the bit of a fault not yet announced is
  still set.  On top of it:
  * `SessionTypes` and `FaultSafety` follow from `TypeInv`.
  * `TranscriptOrder`.  `OrderInv` adds that a reply the client would accept shows a
    byte no older than any of the transcript, and none past the head of the bridge.
    It holds whatever the network does: a pop only moves the head forward, and a reply
    to an earlier read is not accepted.
  * `LineInv`, on a network that keeps the order and copies nothing: of the requests
    under way only the first may be a write and only the last the one a read waits
    for, and with a reply to it under way no request is.
  * `NothingMissed`.  `MissInv` adds that the head of the bridge is the byte read last
    or the next one, that it is the byte read last while a pop is under way, and that
    a reply the client would accept shows the head.
  * `TypedOnce`.  `TypedInv` adds that what send has yet to write are the last bytes
    typed, and that a byte on its way to the board is newer than all that arrived.
  * `QuietReads` and `QuietSends`, while nothing is disturbed at all: the bytes popped
    and the pop under way together are as many as the transcript has
    (`QuietReadInv`), and send sees room, and a byte is under way, only where there is
    room (`QuietWriteInv`).
* `SelfTestProofs`, for all texts, commands, patterns and leftovers: `PassShows`,
  `FailureShows`.  A pass shows something only if no old text can be mistaken for the
  answer: `Evidence` says that until the monitor has the whole command, what the polls
  after the banner can still see holds no marker.  This uses that the banner does not
  contain the marker ("8008 Monitor" and "Help", `host_selftest.py:46-50`).  `Cause`
  says what is still to come while there is no excuse.
* `BoardConnectProofs`, for any number of processes, hosts and faults: `LockSafety`,
  `NoOrphans`, `BridgeStays`, `CacheSafety`, `ProbeSafety`.  `SessionKeepsBridge`
  needs that a bridge in use is taken down only by the lock's holder, so it is proved
  together with the lock and the owner of each bridge.  `RetryDropsHost` needs that a
  process that has used up its retry no longer blames what is cached.
* `CoreBootProofs`, for every counter length: `ResetOrder`, `ResetReachesCore`,
  `PressedOnce`, `BootstrapOnce`.  The last two rest on an invariant that ties the
  latches `done` to what was started: the bootstrap cannot end before the core was
  started and its restart is over.
* `FirmwareProofs`, for any hosts, leases and number of renewals: `CacheSafety`,
  `RenewalIsBroadcast`, `RepliesGoHome`, `FirmwareTypes`, `LeaseServed`.
  `DhcpIsBroadcast` needs that the ARP entry is the broadcast one throughout `dhcp_run`,
  which each way into it establishes.  `ServesItsLease` needs that a reply with the
  number of the current round belongs to it, up to the first power cycle: only offers
  while main waits for an offer, and then an ACK for the requested address only from a
  server that has bound it (`LeaseInv`).  A power cycle breaks exactly this.
* `PacketProofs`, for every packet: `DecoderInside`, `ReplyBound`,
  `ParserInside`.  `ReplyFits` needs a budget: what the rest of the record
  can still add to the reply is covered by what it has yet to consume of the request.

Proved and not among the properties of a run: the types of every module that has a proof,
`RunningFill`, `AcceptedWriteHasRoom`, `InFlightBound`, `HoldArrivesInTime`,
`ProbeHearsBoard` and `OptionsInside`.

Only model-checked: the liveness properties, which are outside the prover's reach, and
what a computation over a whole input returns (`HelpersAgree` of `HostAlgorithms`,
`RequestsExact`, `LastWins`), which would need induction over the input.

## 5. Not modelled

* The 8008, its USART and the debug clock control: another repository.  `B8008Core` and
  `CoreBoot` model how they meet the logic here.
* The ROM image (generated), start-up assembly, vendor clocking.
* SoC assembly: structure only.  The dynamic address of the hardware Etherbone core
  belongs to it.
* The transmit slots of `udp.c` (line 174): whether a third frame overtakes one being
  sent depends on the time the MAC takes for a frame against the time the CPU takes to
  build one, and the sources give neither.
* ICMP, checksums, PHY diagnostics and the loopback test of the firmware; the three
  transaction numbers it takes at each boot only shift those of `dhcp_run`.
* The `ValueError` of `batches` for a size below 1: `HostAlgorithms` calls it with sizes from 1 on.
* `host_selftest.py --server`, which takes no lock; the RTT measurement of `status`;
  printing and argument parsing.
* Two console sessions at once, which S-WIRE-7 leaves unspecified.
