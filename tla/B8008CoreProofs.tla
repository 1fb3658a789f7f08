-------------------------- MODULE B8008CoreProofs ---------------------------
(***************************************************************************)
(* Proofs about the console bridge, for every depth, headroom, hysteresis  *)
(* and byte alphabet; and about the closed console path, for every frame   *)
(* length as well and every headroom of at least two bytes.                *)
(***************************************************************************)
EXTENDS B8008Core, SequenceTheorems, TLAPS

(* A sequence of length at most one is empty or a singleton.               *)
LEMMA ShortSeq ==
  ASSUME NEW S, NEW s \in Seq(S), Len(s) <= 1
  PROVE  \/ s = << >>
         \/ s # << >> /\ Head(s) \in S /\ s = << Head(s) >> /\ Len(s) = 1
<1>1. CASE s = << >>
  BY <1>1
<1>2. CASE s # << >>
  <2>1. Len(s) = 1
    <3> DEFINE n == Len(s)
    <3>1. n \in Nat \ {0} /\ n <= 1
      BY <1>2, EmptySeq
    <3> HIDE DEF n
    <3>2. n = 1
      BY <3>1
    <3>3. QED
      BY <3>2 DEF n
  <2>2. Head(s) \in S /\ Head(s) = s[1]
    BY <1>2, HeadTailProperties
  <2>3. << Head(s) >> \in Seq(S) /\ Len(<< Head(s) >>) = 1
    BY <2>2
  <2>4. s = << Head(s) >>
    BY <2>1, <2>2, <2>3, SeqEqual
  <2>5. QED
    BY <1>2, <2>1, <2>2, <2>4
<1>3. QED
  BY <1>1, <1>2

(* One clock edge of a FIFO keeps its type; what its two parts hold after. *)
LEMMA ClockedType ==
  ASSUME NEW S, NEW depth \in Nat, NEW f \in FIFOs(S), NEW re \in BOOLEAN,
         NEW in \in Seq(S)
  PROVE  Clocked(f, depth, in, re) \in FIFOs(S)
<1> DEFINE g == Clocked(f, depth, in, re)
<1>1. f.inner \in Seq(S) /\ f.out \in Seq(S) /\ Len(f.out) <= 1
  BY DEF FIFOs
<1>2. g.inner \in Seq(S)
  <2>1. CASE Fetch(f, re)
    <3>1. Tail(f.inner) \in Seq(S)
      BY <1>1, <2>1 DEF Fetch
    <3>2. QED
      BY <1>1, <2>1, <3>1, ConcatProperties DEF Clocked
  <2>2. CASE ~Fetch(f, re)
    BY <1>1, <2>2, ConcatProperties DEF Clocked
  <2>3. QED
    BY <2>1, <2>2
<1>3. g.out \in Seq(S) /\ Len(g.out) <= 1
  <2>1. CASE Fetch(f, re)
    BY <1>1, <2>1 DEF Clocked, Fetch
  <2>2. CASE ~Fetch(f, re)
    BY <1>1, <2>2 DEF Clocked
  <2>3. QED
    BY <2>1, <2>2
<1>4. QED
  BY <1>2, <1>3, Zenon DEF FIFOs, Clocked

(* One clock edge changes the level by what is stored and what is taken.   *)
Taken(re) == IF re THEN 1 ELSE 0
Stored(f, depth, in) == IF Writable(f, depth) THEN Len(in) ELSE 0

\* The level after the edge, and the bounds of both amounts.
LEMMA ClockedLevel ==
  ASSUME NEW S, NEW depth \in Nat, NEW f \in FIFOs(S), NEW re \in BOOLEAN,
         NEW in \in Seq(S), re => Valid(f)
  PROVE  /\ Level(f) \in Nat /\ Taken(re) \in 0 .. 1
         /\ Stored(f, depth, in) \in Nat /\ Stored(f, depth, in) <= Len(in)
         /\ Level(Clocked(f, depth, in, re)) =
              Level(f) - Taken(re) + Stored(f, depth, in)
<1> DEFINE g == Clocked(f, depth, in, re)
           new == IF Writable(f, depth) THEN in ELSE << >>
           kept == IF Fetch(f, re) THEN Tail(f.inner) ELSE f.inner
           i == Len(f.inner)
           o == Len(f.out)
           k == Len(kept)
           p == Len(g.out)
           n == Len(new)
<1>1. f.inner \in Seq(S) /\ f.out \in Seq(S) /\ Len(f.out) <= 1
  BY DEF FIFOs
<1>2. new \in Seq(S) /\ kept \in Seq(S) /\ g.out \in Seq(S)
  BY <1>1, ClockedType DEF Fetch, FIFOs
<1>3. Len(g.inner) = k + n
  <2>1. g.inner = kept \o new
    BY Zenon DEF Clocked
  <2>2. QED
    BY <1>2, <2>1, ConcatProperties
<1>4. /\ i \in Nat /\ o \in Nat /\ k \in Nat /\ n \in Nat /\ p \in Nat
      /\ Len(in) \in Nat
  BY <1>1, <1>2, LenProperties
<1>5. n = Stored(f, depth, in)
  BY DEF Stored
<1>6. re => o = 1
  BY <1>1, ShortSeq DEF Valid
<1>7. k + p = i + o - Taken(re)
  <2>1. CASE Fetch(f, re)
    <3>1. k = i - 1 /\ p = 1
      BY <1>1, <2>1 DEF Fetch, Clocked
    <3>2. ~re => o = 0
      BY <1>1, <2>1, EmptySeq DEF Fetch, Valid
    <3> HIDE DEF g, new, kept, i, o, k, p, n
    <3>3. QED
      BY <1>4, <1>6, <3>1, <3>2 DEF Taken
  <2>2. CASE ~Fetch(f, re)
    <3>1. k = i /\ p = IF re THEN 0 ELSE o
      BY <2>2 DEF Clocked
    <3> HIDE DEF g, new, kept, i, o, k, p, n
    <3>2. QED
      BY <1>4, <1>6, <3>1 DEF Taken
  <2>3. QED
    BY <2>1, <2>2, Zenon
<1>8. Stored(f, depth, in) <= Len(in)
  BY <1>4 DEF Stored
<1> HIDE DEF g, new, kept
<1>9. Level(f) = i + o /\ Level(g) = k + n + p
  BY <1>3, <1>4 DEF Level
<1> HIDE DEF i, o, k, p, n
<1>10. Level(g) = Level(f) - Taken(re) + Stored(f, depth, in)
  BY <1>4, <1>5, <1>7, <1>9, SMTT(60) DEF Taken
<1>11. QED
  BY <1>4, <1>5, <1>8, <1>9, <1>10 DEF g, Taken

(* Concatenation of sequences over any set is associative.                 *)
LEMMA SeqAssociative ==
  \A S : \A a, b, c \in Seq(S) : (a \o b) \o c = a \o (b \o c)
  BY ConcatAssociative, SMTT(60)

(* One clock edge removes the head if it is taken and appends the word     *)
(* that is stored: the FIFO is a FIFO.                                     *)
LEMMA ClockedContents ==
  ASSUME NEW S, NEW depth \in Nat, NEW f \in FIFOs(S), NEW re \in BOOLEAN,
         NEW in \in Seq(S), re => Valid(f)
  PROVE  Contents(Clocked(f, depth, in, re)) =
           (IF re THEN f.inner ELSE Contents(f))
             \o (IF Writable(f, depth) THEN in ELSE << >>)
<1> DEFINE g == Clocked(f, depth, in, re)
           new == IF Writable(f, depth) THEN in ELSE << >>
           kept == IF Fetch(f, re) THEN Tail(f.inner) ELSE f.inner
<1>1. f.inner \in Seq(S) /\ f.out \in Seq(S) /\ Len(f.out) <= 1
  BY DEF FIFOs
<1>2. new \in Seq(S) /\ kept \in Seq(S) /\ g.out \in Seq(S)
  BY <1>1, ClockedType DEF Fetch, FIFOs
<1>3. Contents(g) = (g.out \o kept) \o new
  <2>1. Contents(g) = g.out \o (kept \o new)
    BY Zenon DEF Contents, Clocked
  <2> HIDE DEF g, new, kept
  <2>2. \A a, b, c \in Seq(S) : (a \o b) \o c = a \o (b \o c)
    BY SeqAssociative, SMTT(60)
  <2>3. (g.out \o kept) \o new = g.out \o (kept \o new)
    BY <1>2, <2>2, ZenonT(60)
  <2>4. QED
    BY <2>1, <2>3, Zenon
<1>4. g.out \o kept = IF re THEN f.inner ELSE Contents(f)
  <2>1. CASE Fetch(f, re)
    <3>1. g.out = << Head(f.inner) >> /\ kept = Tail(f.inner)
      BY <2>1 DEF Clocked
    <3>2. << Head(f.inner) >> \o Tail(f.inner) = f.inner
      BY <1>1, <2>1, HeadTailProperties, SeqEqual, ConcatProperties DEF Fetch
    <3>3. ~re => f.out = << >>
      BY <2>1 DEF Fetch, Valid
    <3>4. Contents(f) = f.out \o f.inner
      BY DEF Contents
    <3> HIDE DEF g, kept
    <3>5. QED
      BY <1>1, <3>1, <3>2, <3>3, <3>4, ConcatEmptySeq, Zenon
  <2>2. CASE ~Fetch(f, re)
    <3>1. kept = f.inner /\ g.out = IF re THEN << >> ELSE f.out
      BY <2>2 DEF Clocked
    <3> HIDE DEF g, kept
    <3>2. QED
      BY <1>1, <3>1, ConcatEmptySeq, Zenon DEF Contents
  <2>3. QED
    BY <2>1, <2>2, Zenon
<1> HIDE DEF g, kept
<1>5. QED
  BY <1>3, <1>4 DEF g

(* A word in the output register stays there until it is taken.            *)
LEMMA OutputHeld ==
  ASSUME NEW f, Valid(f), NEW depth, NEW in
  PROVE  Clocked(f, depth, in, FALSE).out = f.out
  BY DEF Clocked, Fetch
-----------------------------------------------------------------------------
(* The parts of an access the bridge looks at.                             *)
LEMMA AccessParts ==
  ASSUME NEW csr \in Accesses
  PROVE  /\ csr.re = "console_tx_data" => csr.r \in Byte
         /\ csr.re = "console_err_clear" => csr.r \in SUBSET Errors
  BY DEF Accesses, Idle, ReadRx, PopRx, ReadTx, WriteTx, ClearErr

\* What an access drives: a pop only of a valid byte, no write when full.
LEMMA Wires ==
  ASSUME NEW csr \in Accesses
  PROVE  /\ rx_ready(csr) \in BOOLEAN
         /\ rx_ready(csr) => Valid(rx_fifo)
         /\ tx_sink(csr) \in Seq(Byte) /\ Len(tx_sink(csr)) <= 1
         /\ tx_full => tx_sink(csr) = << >>
         /\ Cleared(csr) \in SUBSET Errors
  BY AccessParts DEF rx_ready, tx_sink, Cleared

(* The two thresholds are in order.                                        *)
LEMMA Thresholds ==
  /\ hwm \in Nat /\ lwm \in Nat
  /\ lwm + RX_HYSTERESIS = hwm /\ hwm + RX_HEADROOM = RX_DEPTH
  /\ lwm < hwm
  BY DepthAssumption DEF hwm, lwm

(* The inductive invariant: no conjunct speaks of the serial side.         *)
BridgeInv ==
  /\ BridgeTypeOK
  /\ PopTakesWhatWasRead
  /\ AcceptedWriteHasRoom
  /\ RoomSeenIsRoom
  /\ RunningFill

\* The bridge starts in the invariant.
LEMMA BridgeInitially == BridgeInit => BridgeInv
<1>1. EmptyFIFO \in FIFOs(Byte) /\ Level(EmptyFIFO) = 0
  BY DEF EmptyFIFO, FIFOs, Level
<1>2. Writable(EmptyFIFO, TX_DEPTH)
  BY DepthAssumption DEF EmptyFIFO, Writable
<1> SUFFICES ASSUME BridgeInit PROVE BridgeInv
  OBVIOUS
<1>3. BridgeTypeOK
  <2>1. pushes \in 0 .. RX_HYSTERESIS
    BY DepthAssumption DEF BridgeInit
  <2>2. seen \in Seq(Byte)
    BY EmptySeq DEF BridgeInit
  <2>3. QED
    BY <1>1, <2>1, <2>2, Zenon DEF BridgeInit, BridgeTypeOK
<1>4. AcceptedWriteHasRoom
  BY <1>1, <1>2, DepthAssumption DEF BridgeInit, AcceptedWriteHasRoom
<1>5. RunningFill
  <2>1. Level(rx_fifo) = 0 /\ pushes = 0
    BY <1>1 DEF BridgeInit
  <2>2. QED
    BY <2>1, Thresholds DEF RunningFill
<1>6. QED
  BY <1>3, <1>4, <1>5
     DEF BridgeInit, BridgeInv, PopTakesWhatWasRead, RoomSeenIsRoom

\* A clock cycle with any access keeps it.
LEMMA BridgeSysCycle ==
  ASSUME BridgeInv,
         NEW byte \in Seq(Byte), Len(byte) <= 1, NEW csr \in Accesses,
         NEW taken \in BOOLEAN, SysCycle(byte, csr, taken)
  PROVE  BridgeInv'
<1> DEFINE sink == tx_sink(csr)
<1>0. PICK ready \in BOOLEAN : ready = rx_ready(csr)
  BY Wires
<1>1. rx_fifo \in FIFOs(Byte) /\ tx_fifo \in FIFOs(Byte)
  BY DEF BridgeInv, BridgeTypeOK
<1>2. /\ ready => Valid(rx_fifo)
      /\ sink \in Seq(Byte) /\ Len(sink) <= 1
      /\ tx_full => sink = << >>
      /\ Cleared(csr) \in SUBSET Errors
  BY <1>0, Wires
<1>3. /\ rx_fifo' = Clocked(rx_fifo, RX_DEPTH, byte, ready)
      /\ tx_fifo' = Clocked(tx_fifo, TX_DEPTH, sink, taken)
      /\ taken => Valid(tx_fifo)
  BY <1>0 DEF SysCycle
<1> HIDE DEF sink
<1>a. RX_DEPTH \in Nat /\ TX_DEPTH \in Nat
  BY DepthAssumption
<1>4. rx_fifo' \in FIFOs(Byte) /\ tx_fifo' \in FIFOs(Byte)
  <2>1. Clocked(rx_fifo, RX_DEPTH, byte, ready) \in FIFOs(Byte)
    BY <1>1, <1>2, <1>a, ClockedType
  <2>2. Clocked(tx_fifo, TX_DEPTH, sink, taken) \in FIFOs(Byte)
    BY <1>1, <1>2, <1>a, ClockedType
  <2>3. QED
    BY <1>3, <2>1, <2>2
<1>5. /\ Level(rx_fifo) \in Nat /\ Taken(ready) \in 0 .. 1
      /\ Stored(rx_fifo, RX_DEPTH, byte) \in Nat
      /\ Stored(rx_fifo, RX_DEPTH, byte) <= Len(byte)
      /\ Level(Clocked(rx_fifo, RX_DEPTH, byte, ready)) =
           Level(rx_fifo) - Taken(ready) + Stored(rx_fifo, RX_DEPTH, byte)
  <2>1. ready => Valid(rx_fifo)
    BY <1>2
  <2>2. QED
    BY <1>1, <1>a, <2>1, ClockedLevel, SMTT(60)
<1>6. /\ Level(tx_fifo) \in Nat /\ Taken(taken) \in 0 .. 1
      /\ Stored(tx_fifo, TX_DEPTH, sink) \in Nat
      /\ Stored(tx_fifo, TX_DEPTH, sink) <= Len(sink)
      /\ Level(Clocked(tx_fifo, TX_DEPTH, sink, taken)) =
           Level(tx_fifo) - Taken(taken) + Stored(tx_fifo, TX_DEPTH, sink)
  BY <1>1, <1>2, <1>3, <1>a, ClockedLevel
<1>7. BridgeTypeOK'
  <2>1. stall' \in BOOLEAN
    BY Zenon DEF SysCycle, NextStall, BridgeInv, BridgeTypeOK
  <2>2. sticky' \in SUBSET Errors
    BY <1>2 DEF SysCycle, Faults, BridgeInv, BridgeTypeOK
  <2>3. seen' \in Seq(Byte)
    BY <1>1, EmptySeq DEF SysCycle, console_rx, FIFOs, BridgeInv, BridgeTypeOK
  <2>4. room' \in BOOLEAN
    BY Zenon DEF SysCycle, tx_full, BridgeInv, BridgeTypeOK
  <2>5. pushes' \in 0 .. RX_HYSTERESIS
    <3> DEFINE n == Stored(rx_fifo, RX_DEPTH, byte)
    <3>1. n \in 0 .. 1
      BY <1>5, LenProperties
    <3>2. pushes' = CASE stall /\ ~NextStall           -> n
                      [] pushes + n > RX_HYSTERESIS -> RX_HYSTERESIS
                      [] OTHER                       -> pushes + n
      BY DEF SysCycle, Stored
    <3>3. pushes \in 0 .. RX_HYSTERESIS
      BY DEF BridgeInv, BridgeTypeOK
    <3> HIDE DEF n
    <3>4. QED
      BY <3>1, <3>2, <3>3, DepthAssumption
  <2>6. QED
    BY <1>4, <2>1, <2>2, <2>3, <2>4, <2>5 DEF BridgeTypeOK
<1>8. PopTakesWhatWasRead'
  <2>1. CASE csr.re = "console_rx_pop"
    BY <2>1 DEF SysCycle, PopTakesWhatWasRead
  <2>2. CASE csr.re # "console_rx_pop"
    <3>1. ready = FALSE
      BY <1>0, <2>2, Zenon DEF rx_ready
    <3>2. seen' # << >> => seen' = rx_fifo.out
      BY <2>2 DEF SysCycle, console_rx, BridgeInv, PopTakesWhatWasRead
    <3>3. Valid(rx_fifo) => rx_fifo'.out = rx_fifo.out
      BY <1>3, <3>1, OutputHeld, Zenon
    <3>4. QED
      BY <3>2, <3>3 DEF PopTakesWhatWasRead, Valid
  <2>3. QED
    BY <2>1, <2>2
<1>9. AcceptedWriteHasRoom'
  <2>1. Level(tx_fifo) <= TX_DEPTH
    BY DEF BridgeInv, AcceptedWriteHasRoom
  <2>2. tx_full => Stored(tx_fifo, TX_DEPTH, sink) = 0
    BY <1>2 DEF Stored
  <2>3. Len(sink) \in Nat
    BY <1>2, LenProperties
  <2>4. Level(tx_fifo') <= TX_DEPTH
    BY <1>2, <1>3, <1>6, <1>a, <2>1, <2>2, <2>3 DEF tx_full
  <2>5. /\ Level(tx_fifo') = Len(tx_fifo'.inner) + Len(tx_fifo'.out)
        /\ Len(tx_fifo'.inner) \in Nat /\ Len(tx_fifo'.out) \in Nat
    BY <1>4, LenProperties DEF Level, FIFOs
  <2>6. ~tx_full' => Writable(tx_fifo', TX_DEPTH)
    <3> DEFINE i == Len(tx_fifo'.inner)
               o == Len(tx_fifo'.out)
               v == Level(tx_fifo')
    <3>1. i \in Nat /\ o \in Nat /\ v = i + o /\ v <= TX_DEPTH
      BY <2>4, <2>5, Zenon
    <3> HIDE DEF i, o, v
    <3>2. v # TX_DEPTH => i < TX_DEPTH
      BY <1>a, <3>1
    <3>3. QED
      BY <3>2 DEF i, v, tx_full, Writable
  <2>7. QED
    BY <2>4, <2>6 DEF AcceptedWriteHasRoom
<1>10. RoomSeenIsRoom'
  <2>1. CASE csr.re = "console_tx_data"
    BY <2>1, Zenon DEF SysCycle, RoomSeenIsRoom
  <2>2. CASE csr.re # "console_tx_data"
    <3>1. sink = << >>
      BY <2>2 DEF sink, tx_sink
    <3>2. Stored(tx_fifo, TX_DEPTH, sink) = 0
      BY <3>1 DEF Stored
    <3>3. room' => ~tx_full
      BY <2>2, Zenon DEF SysCycle, BridgeInv, RoomSeenIsRoom
    <3>4. Level(tx_fifo) <= TX_DEPTH
      BY DEF BridgeInv, AcceptedWriteHasRoom
    <3>5. ~tx_full => ~tx_full'
      BY <1>3, <1>6, <1>a, <3>2, <3>4 DEF tx_full
    <3>6. QED
      BY <3>3, <3>5 DEF RoomSeenIsRoom
  <2>3. QED
    BY <2>1, <2>2
<1>11. RunningFill'
  <2> DEFINE n == Stored(rx_fifo, RX_DEPTH, byte)
             v == Level(rx_fifo)
             w == Level(rx_fifo')
  <2>1. n \in 0 .. 1 /\ v \in Nat /\ w \in Int /\ w <= v + n
    BY <1>3, <1>5, LenProperties
  <2>2. pushes' = CASE stall /\ ~NextStall           -> n
                    [] pushes + n > RX_HYSTERESIS -> RX_HYSTERESIS
                    [] OTHER                       -> pushes + n
    BY DEF SysCycle, Stored
  <2>3. pushes \in 0 .. RX_HYSTERESIS /\ (~stall => v <= lwm + pushes)
    BY DEF BridgeInv, BridgeTypeOK, RunningFill
  <2>4. /\ stall' = NextStall
        /\ ~NextStall => v < hwm
        /\ stall /\ ~NextStall => v <= lwm
    BY <2>1, Thresholds DEF SysCycle, NextStall
  <2> HIDE DEF n, v, w
  <2>5. ~NextStall => w <= lwm + pushes'
    <3> SUFFICES ASSUME ~NextStall PROVE w <= lwm + pushes'
      OBVIOUS
    <3>1. CASE stall
      BY <2>1, <2>2, <2>4, <3>1, Thresholds
    <3>2. CASE ~stall
      <4>1. w <= lwm + pushes + n /\ w <= lwm + RX_HYSTERESIS
        BY <2>1, <2>3, <2>4, <3>2, Thresholds, DepthAssumption
      <4>2. pushes' = IF pushes + n > RX_HYSTERESIS THEN RX_HYSTERESIS
                      ELSE pushes + n
        BY <2>2, <3>2
      <4>3. QED
        BY <2>1, <2>3, <4>1, <4>2, Thresholds, DepthAssumption
    <3>3. QED
      BY <3>1, <3>2
  <2>6. QED
    BY <2>4, <2>5 DEF w, RunningFill
<1>12. QED
  BY <1>7, <1>8, <1>9, <1>10, <1>11 DEF BridgeInv

\* A reset keeps it.
LEMMA BridgeReset == BridgeInv /\ SysReset => BridgeInv'
<1> SUFFICES ASSUME BridgeInv, SysReset PROVE BridgeInv'
  OBVIOUS
<1>1. EmptyFIFO \in FIFOs(Byte) /\ Level(EmptyFIFO) = 0
  BY DEF EmptyFIFO, FIFOs, Level
<1>2. Writable(EmptyFIFO, TX_DEPTH)
  BY DepthAssumption DEF EmptyFIFO, Writable
<1>3. BridgeTypeOK'
  <2>1. pushes' \in 0 .. RX_HYSTERESIS
    BY DepthAssumption DEF SysReset
  <2>2. seen' \in Seq(Byte)
    BY EmptySeq DEF SysReset
  <2>3. QED
    BY <1>1, <2>1, <2>2, Zenon DEF SysReset, BridgeTypeOK, BridgeInv
<1>4. AcceptedWriteHasRoom'
  BY <1>1, <1>2, DepthAssumption DEF SysReset, AcceptedWriteHasRoom
<1>5. RunningFill'
  <2>1. Level(rx_fifo') = 0 /\ pushes' = 0
    BY <1>1 DEF SysReset
  <2>2. QED
    BY <2>1, Thresholds DEF RunningFill
<1>6. QED
  BY <1>3, <1>4, <1>5
     DEF SysReset, BridgeInv, PopTakesWhatWasRead, RoomSeenIsRoom

\* A step that changes nothing keeps it.
LEMMA BridgeStutter == BridgeInv /\ UNCHANGED bridgeVars => BridgeInv'
  BY DEF BridgeInv, bridgeVars, BridgeTypeOK, PopTakesWhatWasRead, tx_full,
         AcceptedWriteHasRoom, RoomSeenIsRoom, RunningFill

(* The bridge keeps its invariant in every environment that presents one   *)
(* byte and one access per cycle.                                          *)
THEOREM BridgeInvariant == BridgeSpec => []BridgeInv
<1>1. BridgeInv /\ BridgeNext => BridgeInv'
  <2> SUFFICES ASSUME BridgeInv, BridgeNext PROVE BridgeInv'
    OBVIOUS
  <2>1. ASSUME NEW byte \in RxPins, NEW csr \in Requests,
               NEW taken \in BOOLEAN, SysCycle(byte, csr, taken)
        PROVE  BridgeInv'
    <3>1. byte \in Seq(Byte) /\ Len(byte) <= 1
      <4>1. CASE byte = << >>
        BY <4>1
      <4>2. CASE byte # << >>
        <5>1. PICK b \in Byte : byte = << b >>
          BY <4>2 DEF RxPins
        <5>2. QED
          BY <5>1
      <4>3. QED
        BY <4>1, <4>2
    <3>2. csr \in Accesses
      BY RequestsAssumption
    <3>3. QED
      BY <2>1, <3>1, <3>2, BridgeSysCycle
  <2>2. QED
    BY <2>1, BridgeReset DEF BridgeNext
<1>2. QED
  BY <1>1, BridgeInitially, BridgeStutter, PTL DEF BridgeSpec

(* S-RX-8: a pop consumes the byte the host read.                          *)
THEOREM PopSafety == BridgeSpec => []PopTakesWhatWasRead
  BY BridgeInvariant, PTL DEF BridgeInv

(* S-TX-1, S-TX-2: console_tx.full is exact, and seeing room is having it. *)
THEOREM TxSafety == BridgeSpec => [](AcceptedWriteHasRoom /\ RoomSeenIsRoom)
  BY BridgeInvariant, PTL DEF BridgeInv

(* S-RX-8: the console_rx word is never torn.                              *)
THEOREM SnapshotSafety == BridgeSpec => []SnapshotIsAtomic
<1>1. BridgeInv => SnapshotIsAtomic
  <2> SUFFICES ASSUME BridgeInv PROVE SnapshotIsAtomic
    OBVIOUS
  <2> DEFINE i == Len(rx_fifo.inner)
             o == Len(rx_fifo.out)
             v == Level(rx_fifo)
  <2>1. /\ rx_fifo.inner \in Seq(Byte) /\ rx_fifo.out \in Seq(Byte)
        /\ Len(rx_fifo.out) <= 1
    BY DEF BridgeInv, BridgeTypeOK, FIFOs
  <2>2. Valid(rx_fifo) <=> o = 1
    BY <2>1, ShortSeq DEF Valid
  <2>3. i \in Nat /\ o \in Nat /\ v = i + o
    BY <2>1, LenProperties DEF Level
  <2>4. /\ console_rx.valid <=> Valid(rx_fifo)
        /\ console_rx.data = rx_fifo.out
        /\ console_rx.level = IF ~Valid(rx_fifo) THEN 0
                              ELSE IF v > RX_DEPTH THEN RX_DEPTH ELSE v
    BY DEF console_rx
  <2>5. RX_DEPTH \in Nat /\ RX_DEPTH > 0
    BY Thresholds, DepthAssumption
  <2> HIDE DEF i, o, v
  <2>6. console_rx.valid <=> console_rx.level > 0
    BY <2>2, <2>3, <2>4, <2>5
  <2>7. console_rx.level <= RX_DEPTH
    BY <2>3, <2>4, <2>5
  <2>8. QED
    BY <2>2, <2>4, <2>6, <2>7 DEF o, SnapshotIsAtomic
<1>2. QED
  BY <1>1, BridgeInvariant, PTL

(* Type correctness of the bridge.                                         *)
THEOREM BridgeTypes == BridgeSpec => []BridgeTypeOK
  BY BridgeInvariant, PTL DEF BridgeInv

(* S-BP-5: while the core runs, the fill is bounded by the low-water mark  *)
(* and the bytes pushed since the stall fell.                              *)
THEOREM FillSafety == BridgeSpec => []RunningFill
  BY BridgeInvariant, PTL DEF BridgeInv

(* S-BP-5: two stalls are at least RX_HYSTERESIS bytes apart.              *)
THEOREM Hysteresis == BridgeSpec => NoOscillation
<1> DEFINE Step == ~stall /\ stall' => pushes = RX_HYSTERESIS
<1>1. BridgeInv /\ [BridgeNext]_bridgeVars => [Step]_bridgeVars
  <2> SUFFICES ASSUME BridgeInv, BridgeNext, ~stall, stall'
               PROVE  pushes = RX_HYSTERESIS
    OBVIOUS
  <2>1. NextStall
    BY Zenon DEF BridgeNext, SysCycle, SysReset
  <2>2. Level(rx_fifo) >= hwm
    BY <2>1 DEF NextStall
  <2>3. Level(rx_fifo) <= lwm + pushes /\ pushes \in 0 .. RX_HYSTERESIS
    BY DEF BridgeInv, RunningFill, BridgeTypeOK
  <2>4. Level(rx_fifo) \in Nat
    BY LenProperties DEF Level, BridgeInv, BridgeTypeOK, FIFOs
  <2>5. QED
    BY <2>2, <2>3, <2>4, Thresholds, DepthAssumption
<1>2. QED
  BY <1>1, BridgeInvariant, PTL DEF BridgeSpec, NoOscillation

-----------------------------------------------------------------------------
(* The closed path: core, PHY and USARTs around the bridge.                *)

CoreInv ==
  /\ TypeOK
  /\ BridgeInv
  /\ "rx_overflow" \notin sticky
  /\ HoldArrivesInTime

(* What the invariant says in numbers: level, bytes in the two shift       *)
(* registers.                                                              *)
LEMMA Numbers ==
  ASSUME CoreInv
  PROVE  /\ Level(rx_fifo) \in Nat /\ Len(rx_fifo.inner) \in Nat
         /\ Len(rx_fifo.inner) <= Level(rx_fifo)
         /\ Len(phy) \in 0 .. 1 /\ Len(usart.byte) \in 0 .. 1
         /\ usart.left \in 0 .. FRAME
<1>1. /\ rx_fifo.inner \in Seq(Byte) /\ rx_fifo.out \in Seq(Byte)
      /\ phy \in Seq(CoreBytes) /\ usart.byte \in Seq(CoreBytes)
  BY DEF CoreInv, TypeOK, BridgeTypeOK, FIFOs
<1>2. /\ Len(rx_fifo.inner) \in Nat /\ Len(rx_fifo.out) \in Nat
      /\ Len(phy) \in Nat /\ Len(usart.byte) \in Nat
  BY <1>1, LenProperties
<1>3. Len(phy) <= 1 /\ Len(usart.byte) <= 1 /\ usart.left \in 0 .. FRAME
  BY DEF CoreInv, TypeOK
<1> DEFINE i == Len(rx_fifo.inner)
           o == Len(rx_fifo.out)
           p == Len(phy)
           u == Len(usart.byte)
<1>4. /\ Level(rx_fifo) = i + o /\ i \in Nat /\ o \in Nat
      /\ p \in Nat /\ u \in Nat /\ p <= 1 /\ u <= 1
  BY <1>2, <1>3 DEF Level
<1> HIDE DEF i, o, p, u
<1>5. /\ Level(rx_fifo) \in Nat /\ i <= Level(rx_fifo)
      /\ p \in 0 .. 1 /\ u \in 0 .. 1
  BY <1>4
<1>6. QED
  BY <1>2, <1>3, <1>5 DEF i, p, u

(* The in-flight bound and the absence of overflow follow.                 *)
LEMMA InvImpliesBounds == CoreInv => InFlightBound /\ NoOverflow
<1> SUFFICES ASSUME CoreInv PROVE InFlightBound /\ NoOverflow
  OBVIOUS
<1> DEFINE v == Level(rx_fifo)
           i == Len(rx_fifo.inner)
           p == Len(phy)
           u == Len(usart.byte)
<1>1. v \in Nat /\ i \in Nat /\ i <= v /\ p \in 0 .. 1 /\ u \in 0 .. 1
  BY Numbers
<1>2. v >= hwm => v + p + u <= hwm + 2
  <2> DEFINE m == IF usart.left < EdgesToHold THEN 1 ELSE 0
  <2>1. m \in 0 .. 1
    OBVIOUS
  <2>2. v >= hwm => v + p + u + m <= hwm + 2
    BY DEF CoreInv, HoldArrivesInTime
  <2> HIDE DEF v, i, p, u, m
  <2>3. QED
    BY <1>1, <2>1, <2>2, Thresholds
<1>3. phy # << >> => p = 1
  BY ShortSeq DEF CoreInv, TypeOK
<1> HIDE DEF v, i, p, u
<1>4. v + p + u <= hwm + 2
  BY <1>1, <1>2, Thresholds
<1>5. p = 1 => i < RX_DEPTH
  BY <1>1, <1>4, Thresholds, HeadroomAssumption, DepthAssumption
<1>6. QED
  BY <1>3, <1>4, <1>5
     DEF v, i, p, u, InFlightBound, NoOverflow, Writable, CoreInv

(* How the way of the hold shortens.                                       *)
LEMMA EdgesShorten ==
  ASSUME TypeOK, ticked, Synchronize, ~ticked', stall' = stall
  PROVE  /\ EdgesToHold \in 0 .. 4 /\ EdgesToHold' \in 0 .. 3
         /\ EdgesToHold' = 0 \/ EdgesToHold' + 1 <= EdgesToHold
         /\ ~stall_b => EdgesToHold > 0
<1>1. CASE ~stall
  BY <1>1 DEF EdgesToHold, TypeOK, BridgeTypeOK
<1>2. CASE stall
  <2>1. CASE ~sync0
    BY <1>2, <2>1 DEF EdgesToHold, Synchronize, TypeOK
  <2>2. CASE sync0
    <3>1. sync0' /\ sync1' /\ stall_b' = sync1
      BY <1>2, <2>2, Zenon DEF Synchronize, TypeOK, BridgeTypeOK
    <3>2. QED
      BY <1>2, <2>2, <3>1 DEF EdgesToHold, TypeOK
  <2>3. QED
    BY <2>1, <2>2
<1>3. QED
  BY <1>1, <1>2 DEF TypeOK, BridgeTypeOK

\* While the stall stays up the hold only comes closer.
LEMMA EdgesStalled ==
  ASSUME TypeOK, stall', UNCHANGED crossing
  PROVE  EdgesToHold \in 0 .. 4 /\ EdgesToHold' \in 0 .. 4
         /\ EdgesToHold' <= EdgesToHold
<1>1. CASE ~stall
  BY <1>1 DEF EdgesToHold, crossing, TypeOK, BridgeTypeOK
<1>2. CASE stall
  BY <1>2 DEF EdgesToHold, crossing, TypeOK, BridgeTypeOK
<1>3. QED
  BY <1>1, <1>2 DEF TypeOK, BridgeTypeOK
-----------------------------------------------------------------------------
\* A FIFO after reset is empty.
LEMMA EmptyLevel == Level(EmptyFIFO) = 0 /\ EmptyFIFO \in FIFOs(Byte)
  BY DEF EmptyFIFO, Level, FIFOs

\* An idle USART has no byte and no edge left.
LEMMA IdleType ==
  /\ idle \in [left : 0 .. FRAME, byte : Seq(CoreBytes)]
  /\ Len(idle.byte) <= 1
  /\ idle.left = 0 <=> idle.byte = << >>
  BY FrameAssumption DEF idle

\* A port stays a port when it shows bytes.
LEMMA PortType ==
  ASSUME NEW p \in Ports, NEW s \in Seq(Byte)
  PROVE  Port(p, s) \in Ports
  BY DEF Ports, Port

(* Below the high-water mark there is nothing to show.                     *)
LEMMA EmptyBound ==
  ASSUME rx_fifo = EmptyFIFO
  PROVE  HoldArrivesInTime
<1>1. ~(Level(rx_fifo) >= hwm)
  BY EmptyLevel, Thresholds
<1>2. QED
  BY <1>1 DEF HoldArrivesInTime

\* The closed path starts in the invariant.
LEMMA CoreInitially == Init => CoreInv
<1> SUFFICES ASSUME Init PROVE CoreInv
  OBVIOUS
<1>1. BridgeInv
  BY BridgeInitially DEF Init
<1>2. HoldArrivesInTime
  BY EmptyBound DEF Init, BridgeInit
<1>3. NewEnds \in Ends
  BY EmptySeq DEF NewEnds, NoPort, Ends, Ports
<1>4. phy \in Seq(CoreBytes) /\ Len(phy) <= 1
  BY EmptySeq DEF Init
<1>5. TypeOK
  BY <1>1, <1>3, <1>4, IdleType, Zenon DEF Init, TypeOK, BridgeInv
<1>6. QED
  BY <1>1, <1>2, <1>5 DEF CoreInv, Init, BridgeInit

\* A reset of the system side keeps it: the core is held with it.
LEMMA CoreReset == CoreInv /\ Reset => CoreInv'
<1> SUFFICES ASSUME CoreInv, Reset PROVE CoreInv'
  OBVIOUS
<1>1. BridgeInv'
  BY BridgeReset DEF CoreInv, Reset
<1>2. HoldArrivesInTime'
  <2>1. Level(rx_fifo') = 0
    BY EmptyLevel DEF Reset, SysReset
  <2>2. ~(Level(rx_fifo') >= hwm)
    BY <2>1, Thresholds
  <2>3. QED
    BY <2>2 DEF HoldArrivesInTime
<1>3. up' \in Ends /\ down' \in Ends
  BY DEF CoreInv, TypeOK, Reset, Ends
<1>4. phy' \in Seq(CoreBytes) /\ Len(phy') <= 1
  BY EmptySeq DEF Reset
<1>5. TypeOK'
  BY <1>1, <1>3, <1>4, IdleType DEF Reset, crossing, TypeOK, CoreInv, BridgeInv
<1>6. QED
  BY <1>1, <1>2, <1>5 DEF CoreInv, Reset, SysReset

(* A core edge leaves the bridge alone and moves the crossing.             *)
LEMMA CoreEdgeTypes ==
  ASSUME CoreInv, UNCHANGED bridgeVars, Synchronize, ticked' = FALSE
  PROVE  /\ BridgeInv'
         /\ "rx_overflow" \notin sticky'
         /\ sync0' \in BOOLEAN /\ sync1' \in BOOLEAN /\ stall_b' \in BOOLEAN
         /\ stall' = stall /\ rx_fifo' = rx_fifo
<1>1. BridgeInv'
  BY BridgeStutter DEF CoreInv
<1>2. stall \in BOOLEAN /\ sync0 \in BOOLEAN /\ sync1 \in BOOLEAN
  BY DEF CoreInv, TypeOK, BridgeTypeOK
<1>3. QED
  BY <1>1, <1>2 DEF CoreInv, Synchronize, bridgeVars

\* The core starts a frame: there is room for what can still follow.
LEMMA CorePrintStep ==
  ASSUME CoreInv, NEW b \in CoreBytes, CorePrint(b)
  PROVE  CoreInv'
<1> DEFINE v == Level(rx_fifo)
           p == Len(phy)
           u == Len(usart.byte)
           e == EdgesToHold
           f == EdgesToHold'
<1>1. /\ BridgeInv'
      /\ "rx_overflow" \notin sticky'
      /\ sync0' \in BOOLEAN /\ sync1' \in BOOLEAN /\ stall_b' \in BOOLEAN
      /\ stall' = stall /\ rx_fifo' = rx_fifo
  BY CoreEdgeTypes, Zenon DEF CorePrint
<1>2. usart' = [left |-> FRAME, byte |-> << b >>] /\ phy' = phy
  BY DEF CorePrint
<1>3. v \in Nat /\ p \in 0 .. 1 /\ u = 0
  <2>1. usart.byte = << >>
    BY DEF CoreInv, TypeOK, CorePrint
  <2>2. QED
    BY <2>1, Numbers
<1>4. e \in 0 .. 4 /\ f \in 0 .. 3 /\ e > 0
  BY <1>1, EdgesShorten DEF CoreInv, CorePrint, run_enable
<1>5. HoldArrivesInTime'
  <2>1. v >= hwm => v + p + u + 1 <= hwm + 2
    <3>1. usart.left = 0
      BY DEF CorePrint
    <3>2. usart.left < EdgesToHold
      BY <1>4, <3>1
    <3>3. QED
      BY <3>2 DEF CoreInv, HoldArrivesInTime
  <2>2. Len(phy') = p /\ Len(usart'.byte) = 1 /\ Level(rx_fifo') = v
    BY <1>1, <1>2
  <2>3. ~(usart'.left < f)
    BY <1>2, <1>4, FrameAssumption
  <2> DEFINE w == Level(rx_fifo')
             q == Len(phy')
             t == Len(usart'.byte)
  <2>4. (w >= hwm => w + q + t + 0 <= hwm + 2) => HoldArrivesInTime'
    BY <2>3 DEF HoldArrivesInTime
  <2>5. w = v /\ q = p /\ t = 1
    BY <2>2
  <2> HIDE DEF v, p, u, w, q, t
  <2>6. w >= hwm => w + q + t + 0 <= hwm + 2
    BY <1>3, <2>1, <2>5, Thresholds
  <2>7. QED
    BY <2>4, <2>6
<1>6. usart' \in [left : 0 .. FRAME, byte : Seq(CoreBytes)]
  BY <1>2, FrameAssumption
<1>7. Len(usart'.byte) <= 1 /\ (usart'.left = 0 <=> usart'.byte = << >>)
  BY <1>2, FrameAssumption
<1>8. up' \in Ends
  <2>1. << b >> \in Seq(Byte)
    BY CoreBytesAssumption
  <2>2. up.in \in Ports
    BY DEF CoreInv, TypeOK, Ends
  <2>3. Port(up.in, << b >>) \in Ports
    BY <2>1, <2>2, PortType
  <2>4. QED
    BY <2>3 DEF CorePrint, CoreInv, TypeOK, Ends
<1>9. TypeOK'
  BY <1>1, <1>2, <1>6, <1>7, <1>8, Zenon
     DEF CorePrint, TypeOK, CoreInv, BridgeInv
<1>10. QED
  BY <1>1, <1>5, <1>9 DEF CoreInv

\* An edge of the core clock, the last of a frame included.
LEMMA CoreShiftStep ==
  ASSUME CoreInv, CoreShift
  PROVE  CoreInv'
<1> DEFINE v == Level(rx_fifo)
           p == Len(phy)
           u == Len(usart.byte)
           q == Len(phy')
           t == Len(usart'.byte)
           e == EdgesToHold
           f == EdgesToHold'
           l == usart.left
           k == usart'.left
<1>1. /\ BridgeInv'
      /\ "rx_overflow" \notin sticky'
      /\ sync0' \in BOOLEAN /\ sync1' \in BOOLEAN /\ stall_b' \in BOOLEAN
      /\ stall' = stall /\ rx_fifo' = rx_fifo
  BY CoreEdgeTypes, Zenon DEF CoreShift
<1>2. v \in Nat /\ p \in 0 .. 1 /\ u \in 0 .. 1 /\ l \in 0 .. FRAME
  BY Numbers
<1>3. e \in 0 .. 4 /\ f \in 0 .. 3 /\ (f = 0 \/ f + 1 <= e)
  BY <1>1, EdgesShorten DEF CoreInv, CoreShift
<1>4. /\ usart' \in [left : 0 .. FRAME, byte : Seq(CoreBytes)]
      /\ Len(usart'.byte) <= 1
      /\ usart'.left = 0 <=> usart'.byte = << >>
      /\ phy' \in Seq(CoreBytes) /\ Len(phy') <= 1
      /\ q + t = p + u
      /\ k = IF l = 0 THEN 0 ELSE l - 1
  <2>1. CASE l = 1
    <3>1. phy = << >> /\ phy' = usart.byte /\ usart' = idle
      BY <2>1 DEF CoreShift
    <3>2. q = u /\ t = 0 /\ p = 0 /\ k = 0
      BY <3>1 DEF idle
    <3>3. q + t = p + u
      BY <1>2, <3>2
    <3>4. QED
      BY <2>1, <3>1, <3>2, <3>3, IdleType DEF CoreInv, TypeOK
  <2>2. CASE l # 1
    <3>1. phy' = phy /\ usart' = [usart EXCEPT !.left = IF @ = 0 THEN 0 ELSE @ - 1]
      BY <2>2 DEF CoreShift
    <3>2. /\ usart \in [left : 0 .. FRAME, byte : Seq(CoreBytes)]
          /\ usart.left = 0 <=> usart.byte = << >>
          /\ Len(usart.byte) <= 1
          /\ phy \in Seq(CoreBytes) /\ Len(phy) <= 1
      BY DEF CoreInv, TypeOK
    <3>3. /\ usart'.byte = usart.byte
          /\ usart'.left = IF usart.left = 0 THEN 0 ELSE usart.left - 1
          /\ usart' \in [left : 0 .. FRAME, byte : Seq(CoreBytes)]
      BY <3>1, <3>2, FrameAssumption
    <3>4. usart'.left = 0 <=> usart.left = 0
      BY <1>2, <2>2, <3>3, FrameAssumption
    <3>5. q + t = p + u
      BY <3>1, <3>3
    <3>6. QED
      BY <3>1, <3>2, <3>3, <3>4, <3>5
  <2>3. QED
    BY <2>1, <2>2
<1>5. HoldArrivesInTime'
  <2> DEFINE m == IF usart.left < EdgesToHold THEN 1 ELSE 0
             n == IF usart'.left < EdgesToHold' THEN 1 ELSE 0
             w == Level(rx_fifo')
  <2>1. m \in 0 .. 1 /\ n \in 0 .. 1 /\ n <= m
    <3>1. k = IF l = 0 THEN 0 ELSE l - 1
      BY <1>4
    <3> HIDE DEF k, l, e, f
    <3>2. k < f => l < e
      BY <1>2, <1>3, <3>1, FrameAssumption
    <3>3. QED
      BY <3>2 DEF k, l, e, f
  <2>2. v >= hwm => v + p + u + m <= hwm + 2
    BY DEF CoreInv, HoldArrivesInTime
  <2>3. w = v
    BY <1>1
  <2>4. q \in Nat /\ t \in Nat /\ q + t = p + u
    BY <1>4, LenProperties
  <2>5. (w >= hwm => w + q + t + n <= hwm + 2) => HoldArrivesInTime'
    BY DEF HoldArrivesInTime
  <2> HIDE DEF v, p, u, q, t, w, m, n
  <2>6. w >= hwm => w + q + t + n <= hwm + 2
    BY <1>2, <2>1, <2>2, <2>3, <2>4, Thresholds
  <2>7. QED
    BY <2>5, <2>6
<1>6. TypeOK'
  BY <1>1, <1>4, Zenon DEF CoreShift, TypeOK, CoreInv, BridgeInv
<1>7. QED
  BY <1>1, <1>5, <1>6 DEF CoreInv

(* A cd_sys edge: `byte' leaves the PHY receiver, if it is not empty.      *)
LEMMA SysStep ==
  ASSUME CoreInv, NEW csr \in Requests, NEW taken \in BOOLEAN,
         SysQuiet(csr, taken) \/ SysReceive(csr, taken)
  PROVE  CoreInv'
<1>1. PICK byte \in {<< >>, phy} :
        /\ Sys(byte, csr, taken)
        /\ byte = << >> => phy' = phy
        /\ byte # << >> => phy' = << >>
  BY DEF SysQuiet, SysReceive
<1>2. /\ phy \in Seq(CoreBytes) /\ Len(phy) <= 1
      /\ byte \in Seq(Byte) /\ Len(byte) <= 1
      /\ phy' \in Seq(CoreBytes) /\ Len(phy') <= 1
  <2>1. phy \in Seq(CoreBytes) /\ Len(phy) <= 1 /\ phy \in Seq(Byte)
    BY CoreBytesAssumption, SeqMonotonic DEF CoreInv, TypeOK
  <2>2. << >> \in Seq(Byte) /\ << >> \in Seq(CoreBytes) /\ Len(<< >>) <= 1
    BY EmptySeq
  <2>3. QED
    BY <1>1, <2>1, <2>2, Zenon
<1>3. csr \in Accesses /\ SysCycle(byte, csr, taken) /\ UNCHANGED <<usart, crossing>>
  BY <1>1, RequestsAssumption DEF Sys
<1>4. BridgeInv'
  BY <1>2, <1>3, BridgeSysCycle DEF CoreInv
<1>5. "rx_overflow" \notin sticky'
  <2>1. byte # << >> => Writable(rx_fifo, RX_DEPTH)
    BY <1>1, InvImpliesBounds DEF NoOverflow
  <2>2. QED
    BY <1>3, <2>1 DEF SysCycle, Faults, CoreInv
<1>6. HoldArrivesInTime'
  <2> DEFINE v == Level(rx_fifo)
             w == Level(rx_fifo')
             p == Len(phy)
             q == Len(phy')
             u == Len(usart.byte)
             c == Len(byte)
             m == IF usart.left < EdgesToHold THEN 1 ELSE 0
             n == IF usart'.left < EdgesToHold' THEN 1 ELSE 0
  <2>1. v \in Nat /\ p \in 0 .. 1 /\ u \in 0 .. 1
    BY Numbers
  <2>2. c \in 0 .. 1 /\ q = p - c
    <3>1. CASE byte = << >>
      <4>1. c = 0 /\ q = p
        BY <1>1, <3>1
      <4>2. QED
        BY <2>1, <4>1
    <3>2. CASE byte # << >>
      <4>1. c = p /\ q = 0
        BY <1>1, <3>2
      <4>2. QED
        BY <2>1, <4>1
    <3>3. QED
      BY <3>1, <3>2
  <2>3. w \in Nat /\ w <= v + c
    <3>1. PICK ready \in BOOLEAN : ready = rx_ready(csr)
      BY <1>3, Wires
    <3>2. rx_fifo \in FIFOs(Byte) /\ RX_DEPTH \in Nat
      BY DepthAssumption DEF CoreInv, BridgeInv, BridgeTypeOK
    <3>3. ready => Valid(rx_fifo)
      BY <1>3, <3>1, Wires, Zenon
    <3>4. rx_fifo' = Clocked(rx_fifo, RX_DEPTH, byte, ready)
      BY <1>3, <3>1 DEF SysCycle
    <3>5. /\ Taken(ready) \in 0 .. 1
          /\ Stored(rx_fifo, RX_DEPTH, byte) \in Nat
          /\ Stored(rx_fifo, RX_DEPTH, byte) <= Len(byte)
          /\ Level(Clocked(rx_fifo, RX_DEPTH, byte, ready)) =
               Level(rx_fifo) - Taken(ready) + Stored(rx_fifo, RX_DEPTH, byte)
      BY <1>2, <3>2, <3>3, ClockedLevel
    <3>6. rx_fifo' \in FIFOs(Byte)
      BY <1>4 DEF BridgeInv, BridgeTypeOK
    <3>7. w \in Nat
      BY <3>6, LenProperties DEF Level, FIFOs
    <3>8. w = v - Taken(ready) + Stored(rx_fifo, RX_DEPTH, byte)
      BY <3>4, <3>5
    <3>9. Stored(rx_fifo, RX_DEPTH, byte) <= c
      BY <3>5
    <3> HIDE DEF v, w, c
    <3>10. QED
      BY <2>1, <2>2, <3>5, <3>7, <3>8, <3>9
  <2>4. m \in 0 .. 1 /\ n \in 0 .. 1
    OBVIOUS
  <2>5. v >= hwm => n <= m
    <3> SUFFICES ASSUME v >= hwm PROVE n <= m
      OBVIOUS
    <3>1. stall'
      BY <1>3 DEF SysCycle, NextStall
    <3>2. /\ EdgesToHold \in 0 .. 4 /\ EdgesToHold' \in 0 .. 4
          /\ EdgesToHold' <= EdgesToHold
      BY <1>3, <3>1, EdgesStalled DEF CoreInv
    <3>3. usart'.left = usart.left /\ usart.left \in 0 .. FRAME
      BY <1>3, Numbers
    <3> DEFINE l == usart.left
               e == EdgesToHold
               f == EdgesToHold'
    <3>4. l \in Nat /\ e \in Nat /\ f \in Nat /\ f <= e
      BY <3>2, <3>3, FrameAssumption
    <3>5. m = (IF l < e THEN 1 ELSE 0) /\ n = (IF l < f THEN 1 ELSE 0)
      BY <3>3
    <3> HIDE DEF l, e, f, m, n
    <3>6. QED
      BY <3>4, <3>5
  <2>6. v >= hwm => v + p + u + m <= hwm + 2
    BY DEF CoreInv, HoldArrivesInTime
  <2>7. (w >= hwm => w + q + u + n <= hwm + 2) => HoldArrivesInTime'
    BY <1>3 DEF HoldArrivesInTime
  <2> HIDE DEF v, w, p, q, u, c, m, n
  <2>8. w >= hwm => w + q + u + n <= hwm + 2
    BY <2>1, <2>2, <2>3, <2>4, <2>5, <2>6, Thresholds
  <2>9. QED
    BY <2>7, <2>8
<1>7. up' \in Ends /\ down' \in Ends
  <2>1. /\ up.out \in Ports /\ down.in \in Ports /\ down.out \in Ports
        /\ up \in Ends /\ down \in Ends
    BY DEF CoreInv, TypeOK, Ends
  <2>2. /\ rx_fifo.out \in Seq(Byte) /\ tx_fifo.out \in Seq(Byte)
        /\ tx_sink(csr) \in Seq(Byte)
    BY <1>3, Wires DEF CoreInv, BridgeInv, BridgeTypeOK, FIFOs
  <2>3. /\ Port(up.out, rx_fifo.out) \in Ports
        /\ Port(down.out, tx_fifo.out) \in Ports
        /\ Port(down.in, tx_sink(csr)) \in Ports
    BY <2>1, <2>2, PortType
  <2>4. QED
    BY <1>1, <2>1, <2>3, Zenon DEF Sys, Ends
<1>8. TypeOK'
  BY <1>1, <1>2, <1>3, <1>4, <1>7 DEF Sys, TypeOK, CoreInv, BridgeInv, crossing
<1>9. QED
  BY <1>4, <1>5, <1>6, <1>8 DEF CoreInv

\* A step that changes nothing keeps the invariant.
LEMMA CoreStutter == CoreInv /\ UNCHANGED vars => CoreInv'
<1> SUFFICES ASSUME CoreInv, UNCHANGED vars PROVE CoreInv'
  OBVIOUS
<1>1. BridgeInv'
  BY BridgeStutter DEF CoreInv, vars
<1>2. QED
  BY <1>1 DEF CoreInv, TypeOK, HoldArrivesInTime, EdgesToHold, vars, crossing,
              bridgeVars, BridgeInv

(* The closed console path keeps its invariant.                            *)
THEOREM CoreInvariant == Spec => []CoreInv
<1>1. CoreInv /\ Next => CoreInv'
  BY SysStep, CorePrintStep, CoreShiftStep, CoreReset DEF Next
<1>2. QED
  BY <1>1, CoreInitially, CoreStutter, PTL DEF Spec

(* Type correctness of the closed console path.                            *)
THEOREM TypeCorrect == Spec => []TypeOK
  BY CoreInvariant, PTL DEF CoreInv

(* S-BP-8, the product's central safety claim: with at least two bytes of  *)
(* headroom and a frame of at least three core cycles, rx_fifo never       *)
(* overflows, whatever the host does.                                      *)
THEOREM BackpressureSafety == Spec => []NoOverflow
  BY CoreInvariant, InvImpliesBounds, PTL

(* S-BP-6: two bytes of headroom are what backpressure needs.              *)
THEOREM InFlightSafety == Spec => []InFlightBound
  BY CoreInvariant, InvImpliesBounds, PTL

(* Above the high-water mark the hold reaches the core before a second     *)
(* frame can begin.                                                        *)
THEOREM HoldSafety == Spec => []HoldArrivesInTime
  BY CoreInvariant, PTL DEF CoreInv

-----------------------------------------------------------------------------
(***************************************************************************)
(* The closed console path implements the promise of ByteStream in both    *)
(* directions, for every value of the constants.                           *)
(***************************************************************************)

\* Streams are joined in any grouping.
LEMMA Associative ==
  \A a, b, c \in Seq(Byte) : (a \o b) \o c = a \o (b \o c)
  BY ConcatAssociative, SMTT(60)

\* A byte appended is a stream of one byte joined.
LEMMA AppendConcat ==
  ASSUME NEW S, NEW s \in Seq(S), NEW x \in S
  PROVE  Append(s, x) = s \o << x >>
  BY AppendIsConcat, Zenon

\* A byte in front of a stream is its head.
LEMMA ConsProperties ==
  ASSUME NEW S, NEW x \in S, NEW s \in Seq(S)
  PROVE  /\ << x >> \o s \in Seq(S)
         /\ << x >> \o s # << >>
         /\ Head(<< x >> \o s) = x
         /\ Tail(<< x >> \o s) = s
<1> DEFINE t == << x >> \o s
<1>1. /\ t \in Seq(S) /\ Len(t) = 1 + Len(s)
      /\ \A i \in 1 .. 1 + Len(s) : t[i] = IF i <= 1 THEN x ELSE s[i - 1]
  BY ConcatProperties
<1>2. Len(s) \in Nat
  BY LenProperties
<1> HIDE DEF t
<1>3. t # << >>
  BY <1>1, <1>2, EmptySeq
<1>4. Head(t) = x
  BY <1>1, <1>2, <1>3
<1>5. /\ Tail(t) \in Seq(S) /\ Len(Tail(t)) = Len(s)
      /\ \A i \in 1 .. Len(Tail(t)) : Tail(t)[i] = t[i + 1]
  <2>1. /\ Tail(t) \in Seq(S) /\ Len(Tail(t)) = Len(t) - 1
        /\ \A i \in 1 .. Len(Tail(t)) : Tail(t)[i] = t[i + 1]
    BY <1>1, <1>3, HeadTailProperties
  <2>2. QED
    BY <1>1, <1>2, <2>1
<1>6. \A i \in 1 .. Len(s) : Tail(t)[i] = s[i]
  BY <1>1, <1>2, <1>5
<1>7. Tail(t) = s
  BY <1>5, <1>6, SeqEqual
<1>8. QED
  BY <1>1, <1>3, <1>4, <1>7 DEF t

(* A FIFO whose output register is full starts with that word.             *)
LEMMA HeadOfFIFO ==
  ASSUME NEW f \in FIFOs(Byte), Valid(f), NEW s \in Seq(Byte)
  PROVE  /\ Contents(f) \o s # << >>
         /\ << Head(Contents(f) \o s) >> = f.out
         /\ Tail(Contents(f) \o s) = f.inner \o s
<1>1. f.inner \in Seq(Byte) /\ f.out \in Seq(Byte) /\ Len(f.out) <= 1
  BY DEF FIFOs
<1>2. PICK x \in Byte : f.out = << x >>
  BY <1>1, ShortSeq DEF Valid
<1>3. f.inner \o s \in Seq(Byte)
  BY <1>1, ConcatProperties
<1>4. Contents(f) \o s = << x >> \o (f.inner \o s)
  <2>1. (f.out \o f.inner) \o s = f.out \o (f.inner \o s)
    BY <1>1, Associative, ZenonT(60)
  <2>2. QED
    BY <1>2, <2>1, Zenon DEF Contents
<1>5. QED
  <2> DEFINE t == f.inner \o s
  <2>1. t \in Seq(Byte) /\ Contents(f) \o s = << x >> \o t
    BY <1>3, <1>4
  <2> HIDE DEF t
  <2>2. /\ << x >> \o t # << >>
        /\ Head(<< x >> \o t) = x /\ Tail(<< x >> \o t) = t
    BY <1>2, <2>1, ConsProperties
  <2>3. QED
    BY <1>2, <2>1, <2>2, SMTT(60) DEF t

(* Down: the transmit FIFO alone is the queue.                             *)
LEMMA DownInit == Init => Down!Init
  BY DEF Init, BridgeInit, Down!Init, Down!Quiet, NewEnds, NoPort, EmptyFIFO, Contents

\* A system clock cycle is a step of the host-to-core stream.
LEMMA DownSys ==
  ASSUME CoreInv, NEW csr \in Requests, NEW taken \in BOOLEAN,
         NEW byte, Sys(byte, csr, taken)
  PROVE  [Down!Next]_(Down!streamVars)
<1> DEFINE sink == tx_sink(csr)
           queue == Contents(tx_fifo)
<1>1. /\ tx_fifo \in FIFOs(Byte) /\ TX_DEPTH \in Nat
      /\ taken => Valid(tx_fifo)
      /\ down \in Ends
  BY DepthAssumption DEF CoreInv, BridgeInv, BridgeTypeOK, TypeOK, Sys, SysCycle
<1>2. /\ sink \in Seq(Byte) /\ Len(sink) <= 1
      /\ tx_full => sink = << >>
  BY RequestsAssumption, Wires
<1>3. tx_fifo' = Clocked(tx_fifo, TX_DEPTH, sink, taken)
  BY DEF Sys, SysCycle
<1>4. /\ down'.in = IF sink # << >> THEN Port(down.in, sink) ELSE down.in
      /\ down'.out = IF taken THEN Port(down.out, tx_fifo.out) ELSE down.out
      /\ down'.epoch = down.epoch
  BY <1>1 DEF Sys, Ends
<1>5. ~tx_full => Writable(tx_fifo, TX_DEPTH)
  BY DEF CoreInv, BridgeInv, AcceptedWriteHasRoom
<1> HIDE DEF sink
<1>6. /\ tx_fifo.inner \in Seq(Byte) /\ tx_fifo.out \in Seq(Byte)
      /\ queue \in Seq(Byte)
  BY <1>1, ConcatProperties DEF FIFOs, Contents
<1>7. queue' = (IF taken THEN tx_fifo.inner ELSE queue) \o sink
  <2>1. Contents(Clocked(tx_fifo, TX_DEPTH, sink, taken)) =
          (IF taken THEN tx_fifo.inner ELSE Contents(tx_fifo))
             \o (IF Writable(tx_fifo, TX_DEPTH) THEN sink ELSE << >>)
    BY <1>1, <1>2, ClockedContents, ZenonT(60)
  <2>2. (IF Writable(tx_fifo, TX_DEPTH) THEN sink ELSE << >>) = sink
    BY <1>2, <1>5
  <2>3. QED
    BY <1>3, <2>1, <2>2, Zenon
<1>8. taken => /\ queue # << >>
               /\ << Head(queue) >> = tx_fifo.out
               /\ Tail(queue) = tx_fifo.inner
  <2>1. queue \o << >> = queue /\ tx_fifo.inner \o << >> = tx_fifo.inner
    BY <1>6, ConcatEmptySeq
  <2>2. QED
    BY <1>1, <2>1, EmptySeq, HeadOfFIFO, ZenonT(60)
<1> HIDE DEF queue
<1>9. CASE sink = << >>
  <2>1. queue' = IF taken THEN tx_fifo.inner ELSE queue
    BY <1>6, <1>7, <1>9, ConcatEmptySeq
  <2>2. down'.in = down.in
    BY <1>4, <1>9
  <2>3. CASE taken
    <3>1. Down!Deliver
      BY <1>4, <1>8, <2>1, <2>2, <2>3
         DEF Down!Deliver, Down!Shown, Port, queue
    <3>2. QED
      BY <3>1 DEF Down!Next
  <2>4. CASE ~taken
    BY <1>4, <2>1, <2>2, <2>4 DEF Down!streamVars, queue
  <2>5. QED
    BY <2>3, <2>4
<1>10. CASE sink # << >>
  <2>1. PICK b \in Byte : sink = << b >>
    BY <1>2, <1>10, ShortSeq
  <2>2. queue' = Append(IF taken THEN tx_fifo.inner ELSE queue, b)
    BY <1>6, <1>7, <2>1, AppendConcat
  <2>3. down'.in = Down!Shown(down.in, b)
    BY <1>4, <1>10, <2>1 DEF Down!Shown, Port
  <2>4. CASE taken
    <3>1. Down!AcceptAndDeliver(b)
      BY <1>4, <1>8, <2>2, <2>3, <2>4, Zenon
         DEF Down!AcceptAndDeliver, Down!Shown, Port, queue
    <3>2. QED
      BY <3>1 DEF Down!Next
  <2>5. CASE ~taken
    <3>1. Down!Accept(b)
      BY <1>4, <2>2, <2>3, <2>5 DEF Down!Accept, queue
    <3>2. QED
      BY <3>1 DEF Down!Next
  <2>6. QED
    BY <2>4, <2>5
<1>11. QED
  BY <1>9, <1>10

(* S-PROD-3 and S-TX-2, host to core: every byte the bridge accepts leaves *)
(* for the core exactly once and in order.                                 *)
THEOREM DownRefinement == Spec => DownStream
<1>1. CoreInv /\ [Next]_vars => [Down!Next]_(Down!streamVars)
  <2> SUFFICES ASSUME CoreInv, [Next]_vars
               PROVE  [Down!Next]_(Down!streamVars)
    OBVIOUS
  <2>1. ASSUME NEW csr \in Requests, NEW taken \in BOOLEAN,
               SysQuiet(csr, taken) \/ SysReceive(csr, taken)
        PROVE  [Down!Next]_(Down!streamVars)
    BY <2>1, DownSys DEF SysQuiet, SysReceive
  <2>2. ASSUME UNCHANGED <<tx_fifo, down>>
        PROVE  [Down!Next]_(Down!streamVars)
    BY <2>2 DEF Down!streamVars
  <2>3. CASE Reset
    <3>1. /\ Contents(tx_fifo') = << >>
          /\ down' = [down EXCEPT !.epoch = 1 - @] /\ down \in Ends
      BY <2>3, EmptySeq DEF Reset, SysReset, EmptyFIFO, Contents, CoreInv, TypeOK
    <3>2. Down!Flush
      BY <3>1 DEF Down!Flush, Ends
    <3>3. QED
      BY <3>2 DEF Down!Next
  <2>4. QED
    BY <2>1, <2>2, <2>3, Zenon
       DEF Next, CorePrint, CoreShift, vars, bridgeVars
<1>2. QED
  BY <1>1, CoreInvariant, DownInit, PTL DEF Spec, DownStream, Down!Spec

(* Up: the queue runs from the output register of rx_fifo through the PHY  *)
(* receiver to the USART.                                                  *)
UpQueue == Contents(rx_fifo) \o phy \o usart.byte

\* The core-to-host stream starts empty.
LEMMA UpInit == Init => Up!Init
<1> SUFFICES ASSUME Init PROVE Up!Init
  OBVIOUS
<1>1. UpQueue = << >>
  BY DEF Init, BridgeInit, idle, EmptyFIFO, Contents, UpQueue
<1>2. QED
  BY <1>1 DEF Init, Up!Init, Up!Quiet, NewEnds, NoPort, UpQueue

\* The three places of the core-to-host queue hold bytes.
LEMMA UpTypes ==
  ASSUME CoreInv
  PROVE  /\ rx_fifo \in FIFOs(Byte)
         /\ rx_fifo.inner \in Seq(Byte) /\ rx_fifo.out \in Seq(Byte)
         /\ Contents(rx_fifo) \in Seq(Byte)
         /\ phy \in Seq(Byte) /\ usart.byte \in Seq(Byte)
         /\ phy \o usart.byte \in Seq(Byte)
         /\ Contents(rx_fifo) \o phy \in Seq(Byte)
         /\ up \in Ends
<1>1. /\ rx_fifo \in FIFOs(Byte) /\ up \in Ends
      /\ phy \in Seq(CoreBytes) /\ usart.byte \in Seq(CoreBytes)
  BY DEF CoreInv, TypeOK, BridgeTypeOK
<1>2. phy \in Seq(Byte) /\ usart.byte \in Seq(Byte)
  BY <1>1, CoreBytesAssumption, SeqMonotonic
<1>3. rx_fifo.inner \in Seq(Byte) /\ rx_fifo.out \in Seq(Byte)
  BY <1>1 DEF FIFOs
<1>4. Contents(rx_fifo) \in Seq(Byte)
  BY <1>3, ConcatProperties DEF Contents
<1>5. QED
  BY <1>1, <1>2, <1>3, <1>4, ConcatProperties

\* A system clock cycle is a step of the core-to-host stream.
LEMMA UpSys ==
  ASSUME CoreInv, NEW csr \in Requests, NEW taken \in BOOLEAN,
         SysQuiet(csr, taken) \/ SysReceive(csr, taken)
  PROVE  [Up!Next]_(Up!streamVars)
<1> DEFINE rest == phy \o usart.byte
           kept == IF rx_ready(csr) THEN rx_fifo.inner ELSE Contents(rx_fifo)
<1>0. /\ Contents(rx_fifo) \in Seq(Byte)
      /\ phy \in Seq(Byte) /\ usart.byte \in Seq(Byte)
  BY UpTypes
<1>1. PICK byte \in {<< >>, phy} :
        /\ Sys(byte, csr, taken)
        /\ byte = << >> => phy' = phy
        /\ byte # << >> => phy' = << >>
  BY DEF SysQuiet, SysReceive
<1>2. PICK ready \in BOOLEAN : ready = rx_ready(csr)
  BY RequestsAssumption, Wires
<1>3. /\ ready => Valid(rx_fifo)
      /\ RX_DEPTH \in Nat
      /\ byte \in Seq(Byte) /\ kept \in Seq(Byte)
  BY <1>1, <1>2, RequestsAssumption, DepthAssumption, Wires, UpTypes, EmptySeq, Zenon
<1>4. Contents(rx_fifo') = kept \o byte
  <2>1. rx_fifo' = Clocked(rx_fifo, RX_DEPTH, byte, ready)
    BY <1>1, <1>2 DEF Sys, SysCycle
  <2>2. Contents(Clocked(rx_fifo, RX_DEPTH, byte, ready)) =
          (IF ready THEN rx_fifo.inner ELSE Contents(rx_fifo))
             \o (IF Writable(rx_fifo, RX_DEPTH) THEN byte ELSE << >>)
    <3>1. /\ rx_fifo \in FIFOs(Byte) /\ RX_DEPTH \in Nat
          /\ byte \in Seq(Byte) /\ (ready => Valid(rx_fifo))
      BY <1>3, UpTypes
    <3> HIDE DEF kept, rest
    <3>2. QED
      BY <3>1, ClockedContents, ZenonT(60)
  <2>3. (IF Writable(rx_fifo, RX_DEPTH) THEN byte ELSE << >>) = byte
    BY <1>1, InvImpliesBounds DEF NoOverflow
  <2>4. QED
    BY <1>2, <2>1, <2>2, <2>3, Zenon
<1>5. UpQueue' = kept \o rest
  <2>1. UpQueue' = (Contents(rx_fifo') \o phy') \o usart.byte
    BY <1>1 DEF UpQueue, Sys
  <2>2. byte \o phy' = phy /\ phy' \in Seq(Byte)
    <3>1. phy \o << >> = phy /\ << >> \o phy = phy
      BY UpTypes, ConcatEmptySeq
    <3>2. QED
      BY <1>1, <3>1, UpTypes, EmptySeq, Zenon
  <2>3. (kept \o byte) \o phy' = kept \o (byte \o phy')
    BY <1>3, <2>2, Associative, ZenonT(60)
  <2> HIDE DEF kept
  <2>4. (kept \o phy) \o usart.byte = kept \o rest
    <3>1. kept \in Seq(Byte) /\ phy \in Seq(Byte) /\ usart.byte \in Seq(Byte)
      BY <1>0, <1>3
    <3>2. (kept \o phy) \o usart.byte = kept \o (phy \o usart.byte)
      BY <3>1, Associative, Zenon
    <3>3. QED
      BY <3>2
  <2> HIDE DEF rest
  <2>5. QED
    BY <1>4, <2>1, <2>2, <2>3, <2>4
<1>6. UpQueue = Contents(rx_fifo) \o rest
  BY <1>0, Associative, ZenonT(60) DEF UpQueue
<1>7. /\ up'.in = up.in /\ up'.epoch = up.epoch
      /\ up'.out = IF ready THEN Port(up.out, rx_fifo.out) ELSE up.out
  BY <1>1, <1>2, UpTypes DEF Sys, Ends
<1>8. CASE ready
  <2>1. /\ UpQueue # << >>
        /\ << Head(UpQueue) >> = rx_fifo.out
        /\ Tail(UpQueue) = rx_fifo.inner \o rest
    BY <1>3, <1>6, <1>8, UpTypes, HeadOfFIFO, Zenon
  <2>2. UpQueue' = Tail(UpQueue)
    BY <1>2, <1>5, <1>8, <2>1, Zenon
  <2>3. Up!Deliver
    BY <1>7, <1>8, <2>1, <2>2, ZenonT(60) DEF Up!Deliver, Up!Shown, Port, UpQueue
  <2>4. QED
    BY <2>3 DEF Up!Next
<1>9. CASE ~ready
  <2>1. UpQueue' = UpQueue
    BY <1>2, <1>5, <1>6, <1>9
  <2>2. QED
    BY <1>7, <1>9, <2>1 DEF Up!streamVars, UpQueue
<1>10. QED
  BY <1>8, <1>9

\* A byte the core prints is accepted by the stream.
LEMMA UpPrint ==
  ASSUME CoreInv, NEW b \in CoreBytes, CorePrint(b)
  PROVE  Up!Accept(b)
<1>1. usart.byte = << >> /\ usart'.byte = << b >> /\ phy' = phy /\ rx_fifo' = rx_fifo
  BY DEF CoreInv, TypeOK, CorePrint, bridgeVars
<1>2. /\ Contents(rx_fifo) \o phy \in Seq(Byte)
      /\ up \in Ends /\ b \in Byte
  BY UpTypes, CoreBytesAssumption
<1>3. UpQueue = Contents(rx_fifo) \o phy
  BY <1>1, <1>2, ConcatEmptySeq DEF UpQueue
<1>4. UpQueue' = (Contents(rx_fifo) \o phy) \o << b >>
  BY <1>1 DEF UpQueue
<1>5. UpQueue' = Append(UpQueue, b)
  BY <1>2, <1>3, <1>4, AppendConcat
<1>6. up'.in = Up!Shown(up.in, b) /\ up'.out = up.out /\ up'.epoch = up.epoch
  BY <1>2 DEF CorePrint, Up!Shown, Port, Ends
<1>7. QED
  BY <1>5, <1>6 DEF Up!Accept, UpQueue

\* A byte that moves from the USART to the receiver stays in its place.
LEMMA UpShift ==
  ASSUME CoreInv, CoreShift
  PROVE  UNCHANGED Up!streamVars
<1>1. up' = up /\ rx_fifo' = rx_fifo
  BY DEF CoreShift, bridgeVars
<1>2. UpQueue' = UpQueue
  <2>1. CASE usart.left = 1
    <3>1. /\ phy = << >> /\ phy' = usart.byte
          /\ usart'.byte = << >>
      BY <2>1 DEF CoreShift, idle
    <3> DEFINE c == Contents(rx_fifo)
               u == usart.byte
    <3>2. c \in Seq(Byte) /\ u \in Seq(Byte) /\ c \o u \in Seq(Byte)
      BY UpTypes, ConcatProperties
    <3>3. UpQueue = (c \o << >>) \o u /\ UpQueue' = (c \o u) \o << >>
      BY <1>1, <3>1 DEF UpQueue
    <3> HIDE DEF c, u
    <3>4. QED
      BY <3>2, <3>3, ConcatEmptySeq
  <2>2. CASE usart.left # 1
    BY <1>1, <2>2, SMTT(60) DEF CoreShift, UpQueue, CoreInv, TypeOK
  <2>3. QED
    BY <2>1, <2>2
<1>3. QED
  BY <1>1, <1>2 DEF Up!streamVars, UpQueue

(* S-PROD-3, core to host: every byte the core prints is popped by the     *)
(* host exactly once and in order; nothing is lost, reordered, duplicated. *)
THEOREM UpRefinement == Spec => UpStream
<1>1. CoreInv /\ [Next]_vars => [Up!Next]_(Up!streamVars)
  <2> SUFFICES ASSUME CoreInv, [Next]_vars
               PROVE  [Up!Next]_(Up!streamVars)
    OBVIOUS
  <2>1. ASSUME NEW csr \in Requests, NEW taken \in BOOLEAN,
               SysQuiet(csr, taken) \/ SysReceive(csr, taken)
        PROVE  [Up!Next]_(Up!streamVars)
    BY <2>1, UpSys
  <2>2. ASSUME NEW b \in CoreBytes, CorePrint(b)
        PROVE  [Up!Next]_(Up!streamVars)
    BY <2>2, UpPrint, CoreBytesAssumption DEF Up!Next
  <2>3. CASE CoreShift
    BY <2>3, UpShift
  <2>4. CASE Reset
    <3>1. /\ UpQueue' = << >>
          /\ up' = [up EXCEPT !.epoch = 1 - @] /\ up \in Ends
      BY <2>4, UpTypes
         DEF Reset, SysReset, EmptyFIFO, Contents, idle, UpQueue
    <3>2. Up!Flush
      BY <3>1 DEF Up!Flush, Ends, UpQueue
    <3>3. QED
      BY <3>2 DEF Up!Next
  <2>5. CASE UNCHANGED vars
    BY <2>5 DEF vars, bridgeVars, Up!streamVars
  <2>6. QED
    BY <2>1, <2>2, <2>3, <2>4, <2>5 DEF Next
<1>2. QED
  BY <1>1, CoreInvariant, UpInit, PTL DEF Spec, UpStream, Up!Spec
=============================================================================
