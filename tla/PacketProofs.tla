--------------------------- MODULE PacketProofs ----------------------------
(***************************************************************************)
(* The bounds of the firmware's two packet parsers: the Etherbone decoder, *)
(* for every packet and every count, and the DHCP option loop, for every   *)
(* datagram and every option length.                                       *)
(***************************************************************************)
EXTENDS EtherboneCodec, DhcpOptions, TLAPS

\* What the length checks leave for the loops: the words still to consume
\* are there, and the reply has grown by no more than was consumed.
Budget ==
  /\ pc = "writing" => wcount > 0 /\ p + wcount <= Len(req)
  /\ pc = "reading" => rcount > 0 /\ p + rcount <= Len(req)
  /\ pc \in {"write", "writing", "read"} => p >= 1 /\ (resp_len = 0 \/ resp_len <= 1 + p)
  /\ pc \in {"record", "reading"} => resp_len = 0 \/ resp_len <= 2 + p
  /\ pc = "header" => resp_len = 0
  /\ pc = "done" => resp_len = 0 \/ resp_len <= 2 + p \/ (kind = "probe" /\ resp_len = 3)

CodecInv == TypeOK /\ Budget

\* Initially nothing is consumed and nothing is written.
LEMMA CodecInit == Init => CodecInv
  BY CodecConstants, SMTT(60) DEF Init, CodecInv, TypeOK, Budget

\* Every step of the decoder keeps its budget.
LEMMA CodecStep == CodecInv /\ [Next]_vars => CodecInv'
  <1> SUFFICES ASSUME CodecInv, [Next]_vars PROVE CodecInv'
    OBVIOUS
  <1> USE CodecConstants DEF CodecInv, TypeOK, Budget
  <1>1. CASE Header
    BY <1>1, SMTT(60) DEF Header
  <1>2. CASE Record
    <2>1. CASE p + 1 <= Len(req)
      <3>1. req[p + 1] \in Nat
        BY <2>1
      <3>2. (req[p + 1] \div K) % K \in Nat /\ req[p + 1] % K \in Nat
        BY <3>1, CodecConstants, SMTT(60)
      <3> QED BY <1>2, <2>1, <3>2, SMTT(60) DEF Record
    <2>2. CASE p + 1 > Len(req)
      BY <1>2, <2>2, SMTT(60) DEF Record
    <2> QED BY <2>1, <2>2, SMTT(60)
  <1>3. CASE WriteHead
    BY <1>3, SMTT(60) DEF WriteHead, Short
  <1>4. CASE WriteWord
    BY <1>4, SMTT(60) DEF WriteWord
  <1>5. CASE ReadHead
    <2>1. pc = "read" /\ UNCHANGED <<kind, req, wcount, rcount>>
      BY <1>5 DEF ReadHead
    <2>2. CASE pc' \in {"record", "done"} /\ UNCHANGED <<p, resp_len>>
      BY <2>1, <2>2, SMTT(60)
    <2>3. CASE /\ rcount > 0 /\ ~Short(rcount) /\ p' = p + 1 /\ pc' = "reading"
               /\ resp_len' = (IF resp_len = 0 THEN 2 ELSE resp_len) + 2
      <3>1. p' \in Nat /\ p' + rcount <= Len(req)
        BY <2>3 DEF Short
      <3>2. resp_len' \in Nat /\ resp_len' <= 2 + p'
        BY <2>1, <2>3, SMTT(60)
      <3> QED BY <2>1, <2>3, <3>1, <3>2, SMTT(60)
    <2> QED BY <1>5, <2>2, <2>3, SMTT(60) DEF ReadHead
  <1>6. CASE ReadWord
    BY <1>6, SMTT(60) DEF ReadWord
  <1>7. CASE UNCHANGED vars
    BY <1>7 DEF vars
  <1> QED BY <1>1, <1>2, <1>3, <1>4, <1>5, <1>6, <1>7, ZenonT(60) DEF Next

\* The budget holds throughout.
THEOREM CodecInvariant == Spec => []CodecInv
  <1> QED BY CodecInit, CodecStep, PTL DEF Spec

\* For every packet: eb8008_handle never reads past the datagram.
THEOREM DecoderInside == Spec => []ReadsInside
  <1>1. CodecInv => ReadsInside
    BY SMTT(60) DEF CodecInv, TypeOK, Budget, ReadsInside
  <1> QED BY <1>1, CodecInvariant, PTL

\* For every packet: the reply fits the buffer eb_serve.c gives it.
THEOREM ReplyBound == Spec => []ReplyFits
  <1>1. CodecInv => ReplyFits
    BY DEF CodecInv, TypeOK, Budget, ReplyFits
  <1> QED BY <1>1, CodecInvariant, PTL

-----------------------------------------------------------------------------
OptionInv == OptionsTypeOK /\ OptionsInside

\* The loop starts at the first option, with nothing read.
LEMMA OptionInit == OptionsInit => OptionInv
  BY DEF OptionsInit, OptionInv, OptionsTypeOK, OptionsInside

\* A turn that takes an option has seen that its value is whole, and a value
\* is taken only from an option at least as long.
LEMMA OptionStep == OptionInv /\ [OptionsNext]_optionVars => OptionInv'
  <1> SUFFICES ASSUME OptionInv, [OptionsNext]_optionVars PROVE OptionInv'
    OBVIOUS
  <1> USE OptionConstants DEF OptionInv, OptionsTypeOK, OptionsInside
  <1>1. CASE Stop
    BY <1>1, SMTT(60) DEF Stop, Further
  <1>2. CASE Pad
    BY <1>2, SMTT(60) DEF Pad, Further
  <1>3. CASE Option
    <2>1. buf[off + 1] \in Nat /\ buf[off + 2] \in Nat
      <3>1. off + 1 \in 1 .. Len(buf) /\ off + 2 \in 1 .. Len(buf)
        BY <1>3, SMTT(60) DEF Option
      <3>2. \A i \in 1 .. Len(buf) : buf[i] \in Nat
        OBVIOUS
      <3> QED BY <3>1, <3>2
    <2>2. Reads \in Nat /\ Reads <= off + 2 + buf[off + 2]
      BY <2>1, SMTT(60) DEF Reads, Known, Width
    <2>3. off' = off + 2 + buf[off + 2] /\ off' <= Len(buf) /\ buf' = buf /\ at' = at
      BY <1>3, SMTT(60) DEF Option
    <2>4. reach' \in Nat /\ reach' <= Len(buf)
      BY <1>3, <2>1, <2>2, <2>3, SMTT(60) DEF Option, Further
    <2> QED BY <2>1, <2>3, <2>4, SMTT(60)
  <1>4. CASE UNCHANGED optionVars
    BY <1>4 DEF optionVars
  <1> QED BY <1>1, <1>2, <1>3, <1>4, SMTT(60) DEF OptionsNext

\* For every datagram: parse_reply never reads past its end.
THEOREM ParserInside == OptionsSpec => []OptionsInside
  <1>1. OptionInv => OptionsInside
    BY DEF OptionInv
  <1> QED BY <1>1, OptionInit, OptionStep, PTL DEF OptionsSpec
=============================================================================
