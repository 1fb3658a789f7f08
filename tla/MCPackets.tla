----------------------------- MODULE MCPackets -----------------------------
(***************************************************************************)
(* A datagram is received.  udp.c hands it to the one callback that is     *)
(* installed: while the board acquires, dhcp_parse_offer or dhcp_parse_ack *)
(* scans its options; while it serves, eb8008_handle decodes it.  The      *)
(* other decoder is between calls.                                         *)
(***************************************************************************)
EXTENDS EtherboneCodec, DhcpOptions

MCWords == {0, 1, 3, 4, 8}
MCBytes == 0 .. 4

\* eb8008_handle and parse_reply when they are not running.
CodecAtRest ==
  /\ kind = "bad" /\ req = <<>> /\ sent = <<>>
  /\ pc = "done" /\ p = 0 /\ wcount = 0 /\ rcount = 0 /\ addr = 0
  /\ mem = Zero /\ resp = <<>> /\ resp_len = 0
OptionsAtRest ==
  /\ buf = <<>> /\ options = <<>> /\ off = 0 /\ at = "done" /\ reach = 0
  /\ msg_type = <<>> /\ got_server = <<>> /\ got_lease = <<>>

PacketsInit == (Init /\ OptionsAtRest) \/ (OptionsInit /\ CodecAtRest)

PacketsNext == (Next /\ UNCHANGED optionVars) \/ (OptionsNext /\ UNCHANGED vars)

PacketsSpec == PacketsInit /\ [][PacketsNext]_<<vars, optionVars>>
=============================================================================
