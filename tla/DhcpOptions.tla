----------------------------- MODULE DhcpOptions -----------------------------
(***************************************************************************)
(* The option loop of parse_reply (dhcp8008.c): the type, the server and   *)
(* the lease time of a reply whose fixed header has been accepted.  buf is *)
(* what follows the magic cookie; one step is one turn of the loop.        *)
(***************************************************************************)
EXTENDS Integers, SequencesExt

CONSTANTS OPT_PAD, OPT_MSG_TYPE, OPT_SERVER_ID, OPT_LEASE_TIME, OPT_END,   \* option codes
          Bytes, MaxBytes,
          Wide,                            \* width of an address or a time (4)
          MaxOptions

ASSUME OptionConstants ==
  /\ Bytes \subseteq Nat /\ MaxBytes \in Nat /\ MaxOptions \in Nat
  /\ Wide \in Nat \ {0}
  /\ OPT_PAD \in Nat /\ OPT_MSG_TYPE \in Nat /\ OPT_SERVER_ID \in Nat
  /\ OPT_LEASE_TIME \in Nat /\ OPT_END \in Nat

VARIABLES buf,
          options,    \* the options buf encodes, or <<>> for any other bytes
          off, at,
          msg_type, got_server, got_lease,   \* the bytes taken, <<>> if none
          reach       \* history: the furthest byte read

optionVars == <<buf, options, off, at, msg_type, got_server, got_lease, reach>>

Width(code) == IF code = OPT_MSG_TYPE THEN 1 ELSE Wide

\* Well-formed options a server may send, one-byte padding between them.
Options == [code : {OPT_MSG_TYPE, OPT_SERVER_ID, OPT_LEASE_TIME}, data : SeqOf({0, 1}, Wide)]
EncodeOption(o) == <<o.code, Len(o.data)>> \o o.data \o <<OPT_PAD>>

OptionsTypeOK ==
  /\ buf \in Seq(Nat) /\ off \in Nat /\ off <= Len(buf) /\ at \in {"loop", "done"}
  /\ reach \in Nat

OptionsInit ==
  /\ \/ options = <<>> /\ buf \in SeqOf(Bytes, MaxBytes)
     \/ /\ options \in SeqOf(Options, MaxOptions) \ {<<>>}
        /\ buf = FlattenSeq([i \in DOMAIN options |-> EncodeOption(options[i])]) \o <<OPT_END>>
  /\ buf \in Seq(Nat)
  /\ off = 0 /\ at = "loop" /\ reach = 0
  /\ msg_type = <<>> /\ got_server = <<>> /\ got_lease = <<>>

\* The value an option's case of the switch takes, or the one there was.
Taken_First(code, old) ==
  IF buf[off + 1] = code /\ buf[off + 2] >= Width(code) /\ old = <<>>
  THEN SubSeq(buf, off + 3, off + 2 + Width(code)) ELSE old
Taken(code, old) ==
  IF buf[off + 1] = code /\ buf[off + 2] >= Width(code)
  THEN SubSeq(buf, off + 3, off + 2 + Width(code)) ELSE old

\* How far this turn reads: the value is read only where it is taken.
Known == {OPT_MSG_TYPE, OPT_SERVER_ID, OPT_LEASE_TIME}
Reads ==
  off + 2 + (IF buf[off + 1] \in Known /\ buf[off + 2] >= Width(buf[off + 1])
             THEN Width(buf[off + 1]) ELSE 0)

Further(n) == reach' = IF n > reach THEN n ELSE reach

\* The end of the options, a code without a length, or a value that is cut.
Stop ==
  /\ at = "loop" /\ at' = "done"
  /\ \/ off >= Len(buf) /\ UNCHANGED reach
     \/ off < Len(buf) /\ buf[off + 1] = OPT_END /\ Further(off + 1)
     \/ /\ off < Len(buf) /\ buf[off + 1] \notin {OPT_END, OPT_PAD}
        /\ off + 1 >= Len(buf) /\ Further(off + 1)
     \/ /\ off + 1 < Len(buf) /\ buf[off + 1] \notin {OPT_END, OPT_PAD}
        /\ off + 2 + buf[off + 2] > Len(buf) /\ Further(off + 2)
  /\ UNCHANGED <<buf, options, off, msg_type, got_server, got_lease>>

Pad ==
  /\ at = "loop" /\ off < Len(buf) /\ buf[off + 1] = OPT_PAD /\ OPT_PAD # OPT_END
  /\ off' = off + 1 /\ Further(off + 1)
  /\ UNCHANGED <<buf, options, at, msg_type, got_server, got_lease>>

Option ==
  /\ at = "loop" /\ off + 1 < Len(buf) /\ buf[off + 1] \notin {OPT_END, OPT_PAD}
  /\ off + 2 + buf[off + 2] <= Len(buf)
  /\ off' = off + 2 + buf[off + 2] /\ Further(Reads)
  /\ msg_type' = Taken(OPT_MSG_TYPE, msg_type)
  /\ got_server' = Taken(OPT_SERVER_ID, got_server)
  /\ got_lease' = Taken(OPT_LEASE_TIME, got_lease)
  /\ UNCHANGED <<buf, options, at>>

OptionsNext == Stop \/ Pad \/ Option

OptionsSpec == OptionsInit /\ [][OptionsNext]_optionVars

-----------------------------------------------------------------------------
\* No option length makes the parser read past the datagram (dhcp8008.c:187).
OptionsInside == reach <= Len(buf)

\* Of the options of one kind the last that is long enough counts, whatever
\* stands between them (dhcp8008.c:190-205).
LastWins ==
  at = "done" /\ options # <<>> =>
    \A c \in Known :
      LET good == {i \in DOMAIN options : options[i].code = c /\ Len(options[i].data) >= Width(c)}
          got == CASE c = OPT_MSG_TYPE -> msg_type
                   [] c = OPT_SERVER_ID -> got_server
                   [] OTHER -> got_lease
      IN got = IF good = {} THEN <<>> ELSE SubSeq(options[Max(good)].data, 1, Width(c))
=============================================================================
