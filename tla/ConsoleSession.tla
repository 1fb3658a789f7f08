--------------------------- MODULE ConsoleSession ---------------------------
(***************************************************************************)
(* One console session: console_pump (host/b8008net/console.py) over the   *)
(* broadcast Etherbone bridge (eb_server.py), a UDP network, the firmware's *)
(* single request slot (firmware/eb_serve.c, polled by main.c) and the     *)
(* console registers.                                                      *)
(*                                                                         *)
(* Bytes are numbered in the order in which the core prints them and the   *)
(* user types them, so a loss, a repeat or a reordering shows.  The        *)
(* registers are those of ConsoleBridge seen one access at a time; a byte  *)
(* is printed here when it becomes valid in console_rx.  read_counter is   *)
(* only ever compared with the base_ret_addr of a reply, so a message      *)
(* carries the outcome: `current' while read_counter has not moved on.     *)
(***************************************************************************)
EXTENDS Naturals, Sequences, FiniteSets

CONSTANTS
  TX_DEPTH,               \* console_bridge.py
  DRAIN_MAX_BYTES,        \* console.py
  FULL_POLLS,             \* TX_FULL_TIMEOUT_S / TX_FULL_POLL_S
  TRIES,                  \* attempts of CommUDPBroadcast.read
  Scenarios               \* bounds on the bytes printed and typed, on what the
                          \* network does to datagrams, and on lease renewals

ASSUME SessionAssumption ==
  /\ TX_DEPTH \in Nat \ {0} /\ TRIES \in Nat \ {0}
  /\ DRAIN_MAX_BYTES \in Nat \ {0}
  /\ FULL_POLLS \in Nat
  /\ Scenarios \subseteq [print : Nat, type : Nat, lose : Nat, copy : Nat,
                          swap : Nat, renew : Nat]

VARIABLES
  pc,        \* where console_pump is: in one of its reads, at stdin, or over
  tries,     \* attempts made by the current read, 0 before the first
  got,       \* drain's bytearray
  todo,      \* what send has not written yet of the chunk read from stdin
  waited,    \* polls of console_tx.full for the current byte
  leaving,   \* the chunk ended in Ctrl-]
  req, rep,  \* datagrams under way to the board and to the host
  scenario,  \* the bounds of this behaviour
  faults,    \* what the network and the lease have done so far
  loop,      \* where the firmware's main loop is
  slot,      \* eb_req while eb_pending, as a sequence of length 0 or 1
  rx, tx, err,     \* the bridge: readable bytes, tx_fifo, sticky bits
  printed, typed,  \* bytes printed by the core and typed by the user so far
  stdout,    \* the transcript
  claimed,   \* bytes send has counted as accepted
  consumed,  \* bytes that left on the core's uart_rx
  unseen     \* history: error kinds that occurred, while no clear of their bit
             \* was under way, and were not announced since

client == <<pc, tries, got, todo, waited, leaving>>
board  == <<loop, slot>>
regs   == <<rx, tx, err, consumed>>
said   == <<stdout, claimed, unseen>>
vars   == <<client, req, rep, faults, board, regs, printed, typed, said>>

Init ==
  /\ pc = "check_errors" /\ tries = 0
  /\ got = << >> /\ todo = << >> /\ waited = 0 /\ leaving = FALSE
  /\ req = << >> /\ rep = << >>
  /\ scenario \in Scenarios
  /\ faults = [lose |-> 0, copy |-> 0, swap |-> 0, renew |-> 0]
  /\ loop = "service" /\ slot = << >>
  /\ rx = << >> /\ tx = << >> /\ err = {} /\ consumed = << >>
  /\ printed = 0 /\ typed = 0
  /\ stdout = << >> /\ claimed = << >> /\ unseen = {}
-----------------------------------------------------------------------------
(* The host's Etherbone bridge: reads are repeated with a new read_counter *)
(* until a reply carries it, writes are sent once.                         *)
Reading == [check_errors |-> "console_err", drain |-> "console_rx",
            send |-> "console_tx"]

Read(reg)       == [op |-> "read", reg |-> reg, val |-> 0, current |-> TRUE]
Write(reg, val) == [op |-> "write", reg |-> reg, val |-> val,
                    current |-> FALSE]

Aged(q) == [i \in DOMAIN q |-> [q[i] EXCEPT !.current = FALSE]]

(* Faulty variant: a read that is not repeated.                            *)
Attempt_NoRetry ==
  /\ pc \in DOMAIN Reading /\ tries = 0
  /\ tries' = 1
  /\ req' = Append(Aged(req), Read(Reading[pc]))
  /\ rep' = Aged(rep) /\ slot' = Aged(slot)
  /\ UNCHANGED <<pc, got, todo, waited, leaving, faults, loop, regs,
                 printed, typed, said>>

(* The first attempt of a read, or the next one after a socket timeout.    *)
Attempt ==
  /\ pc \in DOMAIN Reading /\ tries < TRIES
  /\ tries' = tries + 1
  /\ req' = Append(Aged(req), Read(Reading[pc]))
  /\ rep' = Aged(rep) /\ slot' = Aged(slot)
  /\ UNCHANGED <<pc, got, todo, waited, leaving, faults, loop, regs,
                 printed, typed, said>>

(* The last attempt times out as well: read raises, the session is over.   *)
GiveUp ==
  /\ pc \in DOMAIN Reading /\ tries = TRIES
  /\ pc' = "failed" /\ tries' = 0
  /\ UNCHANGED <<got, todo, waited, leaving, req, rep, faults, board, regs,
                 printed, typed, said>>
-----------------------------------------------------------------------------
(* Faulty variants: a blanket clear, a drain without its bound, one that   *)
(* puts the newest byte first, and a send that repeats its write.          *)
CheckErrors_Blanket(val) ==
  /\ pc = "check_errors"
  /\ pc' = "drain"
  /\ unseen' = unseen \ val
  /\ req' = Append(req, Write("console_err_clear",
                              {"tx_write_when_full", "rx_pop_when_empty"}))
  /\ UNCHANGED <<got, todo, waited, leaving, stdout, claimed>>
Drain_Unbounded(val) ==
  /\ pc = "drain"
  /\ IF val # << >>
     THEN /\ req' = Append(req, Write("console_rx_pop", 1))
          /\ got' = got \o val /\ UNCHANGED <<pc, stdout>>
     ELSE /\ got' = << >> /\ stdout' = stdout \o got /\ pc' = "stdin"
          /\ UNCHANGED req
  /\ UNCHANGED <<todo, waited, leaving, claimed, unseen>>
Drain_NewestFirst(val) ==
  /\ pc = "drain"
  /\ req' = IF val = << >> THEN req ELSE Append(req, Write("console_rx_pop", 1))
  /\ IF val # << >> /\ Len(got) + 1 < DRAIN_MAX_BYTES
     THEN got' = val \o got /\ UNCHANGED <<pc, stdout>>
     ELSE got' = << >> /\ stdout' = stdout \o val \o got /\ pc' = "stdin"
  /\ UNCHANGED <<todo, waited, leaving, claimed, unseen>>
Send_Times(n) ==
  /\ pc = "send"
  /\ req' = req \o [i \in 1 .. n |-> Write("console_tx_data", Head(todo))]
  /\ claimed' = Append(claimed, Head(todo))
  /\ todo' = Tail(todo)
  /\ pc' = IF Tail(todo) = << >> THEN "check_errors" ELSE pc
  /\ UNCHANGED <<waited, got, leaving, stdout, unseen>>
Send_Twice(full) == ~full /\ Send_Times(2)

(* console_pump continues with the value of the register it read.          *)
CheckErrors(val) ==
  /\ pc = "check_errors"
  /\ pc' = "drain"
  /\ unseen' = unseen \ val
  /\ req' = IF val = {} THEN req
            ELSE Append(req, Write("console_err_clear", val))
  /\ UNCHANGED <<got, todo, waited, leaving, stdout, claimed>>

Drain(val) ==
  /\ pc = "drain"
  /\ req' = IF val = << >> THEN req ELSE Append(req, Write("console_rx_pop", 1))
  /\ IF val # << >> /\ Len(got) + 1 < DRAIN_MAX_BYTES
     THEN got' = got \o val /\ UNCHANGED <<pc, stdout>>
     ELSE got' = << >> /\ stdout' = stdout \o got \o val /\ pc' = "stdin"
  /\ UNCHANGED <<todo, waited, leaving, claimed, unseen>>

AfterSend == IF leaving THEN "exited" ELSE "check_errors"

Send(full) ==
  /\ pc = "send"
  /\ \/ /\ full /\ waited < FULL_POLLS
        /\ waited' = waited + 1
        /\ UNCHANGED <<pc, todo, req, claimed>>
     \/ /\ full /\ waited = FULL_POLLS
        /\ pc' = AfterSend /\ todo' = << >> /\ waited' = 0
        /\ UNCHANGED <<req, claimed>>
     \/ /\ ~full
        /\ req' = Append(req, Write("console_tx_data", Head(todo)))
        /\ claimed' = Append(claimed, Head(todo))
        /\ todo' = Tail(todo) /\ waited' = 0
        /\ pc' = IF Tail(todo) = << >> THEN AfterSend ELSE pc
  /\ UNCHANGED <<got, leaving, stdout, unseen>>

(* Faulty variant: any reply is taken.                                     *)
Receive_AnyReply ==
  /\ rep # << >> /\ rep' = Tail(rep)
  /\ IF pc \in DOMAIN Reading /\ tries > 0
     THEN /\ tries' = 0
          /\ \/ CheckErrors(Head(rep).val.err)
             \/ Drain(Head(rep).val.byte)
             \/ Send(Head(rep).val.full)
     ELSE UNCHANGED <<client, req, said>>
  /\ UNCHANGED <<faults, board, regs, printed, typed>>

(* A datagram reaches the socket: a reply to an earlier attempt is skipped. *)
Receive ==
  /\ rep # << >> /\ rep' = Tail(rep)
  /\ IF pc \in DOMAIN Reading /\ tries > 0 /\ Head(rep).current
     THEN /\ tries' = 0
          /\ \/ CheckErrors(Head(rep).val.err)
             \/ Drain(Head(rep).val.byte)
             \/ Send(Head(rep).val.full)
     ELSE UNCHANGED <<client, req, said>>
  /\ UNCHANGED <<faults, board, regs, printed, typed>>

(* stdin is not ready; or it is at its end; or it yields a chunk, up to a  *)
(* Ctrl-] if there is one.                                                 *)
Stdin ==
  /\ pc = "stdin"
  /\ \/ pc' = "check_errors" /\ UNCHANGED <<todo, leaving, typed>>
     \/ pc' = "exited" /\ UNCHANGED <<todo, leaving, typed>>
     \/ \E n \in 1 .. scenario.type - typed :
          /\ pc' = "send" /\ leaving' \in BOOLEAN
          /\ todo' = [i \in 1 .. n |-> typed + i]
          /\ typed' = typed + n
  /\ UNCHANGED <<tries, got, waited, req, rep, faults, board, regs, printed,
                 said>>
(* console_loop leaves its loop on KeyboardInterrupt, wherever it is.      *)
Interrupt ==
  /\ pc \in DOMAIN Reading \cup {"stdin"}
  /\ pc' = "exited" /\ tries' = 0
  /\ UNCHANGED <<got, todo, waited, leaving, req, rep, faults, board, regs,
                 printed, typed, said>>
-----------------------------------------------------------------------------
(* The firmware.  udp_service hands one frame to eb_rx_callback, which     *)
(* drops it while a request is pending.  (Faulty variant: it overwrites.)  *)
eb_rx_callback_Overwrites(m) == slot' = << m >>

eb_rx_callback(m) == slot' = IF slot = << >> THEN << m >> ELSE slot

udp_service ==
  \/ UNCHANGED <<req, slot>>
  \/ req # << >> /\ req' = Tail(req) /\ eb_rx_callback(Head(req))

Service ==
  /\ loop = "service" /\ udp_service /\ loop' = "serve"
  /\ UNCHANGED <<client, rep, faults, regs, printed, typed, said>>

(* udp_arp_refresh polls for its own reply, and serves nothing meanwhile.  *)
ArpRefresh ==
  /\ loop = "arp" /\ udp_service /\ loop' \in {"arp", "service"}
  /\ UNCHANGED <<client, rep, faults, regs, printed, typed, said>>

(* dhcp_run: with the receive filter at 255.255.255.255 and the DHCP       *)
(* callback installed, an Etherbone request is discarded.                  *)
Renew ==
  /\ loop = "renew" /\ loop' \in {"renew", "service"}
  /\ req' \in {req} \cup {Tail(q) : q \in {req} \ {<< >>}}
  /\ UNCHANGED <<client, rep, faults, slot, regs, printed, typed, said>>

(* The registers: the word a read returns has a field per register, the    *)
(* others being 0.                                                         *)
Value(reg) ==
  [byte |-> IF reg = "console_rx" /\ rx # << >> THEN << Head(rx) >> ELSE << >>,
   full |-> reg = "console_tx" /\ Len(tx) = TX_DEPTH,
   err  |-> IF reg = "console_err" THEN err ELSE {}]

(* A clear of bit e has been sent and has not been served.                 *)
Clearing(e) ==
  \E q \in {slot, req} : \E i \in DOMAIN q :
    q[i].reg = "console_err_clear" /\ e \in q[i].val

Fault(e) ==
  /\ err' = err \cup {e}
  /\ unseen' = IF Clearing(e) THEN unseen ELSE unseen \cup {e}
  /\ UNCHANGED <<rx, tx>>

(* Faulty variant: reading console_rx consumes the byte.                   *)
Access_DestructiveRead(m) ==
  CASE m.op = "read" /\ m.reg = "console_rx" /\ rx # << >> ->
         rx' = Tail(rx) /\ UNCHANGED <<tx, err, unseen>>
    [] m.reg = "console_tx_data" ->
         IF Len(tx) = TX_DEPTH THEN Fault("tx_write_when_full")
         ELSE tx' = Append(tx, m.val) /\ UNCHANGED <<rx, err, unseen>>
    [] OTHER -> UNCHANGED <<rx, tx, err, unseen>>

Access(m) ==
  CASE m.op = "read" -> UNCHANGED <<rx, tx, err, unseen>>
    [] m.reg = "console_rx_pop" ->
         IF rx = << >> THEN Fault("rx_pop_when_empty")
         ELSE rx' = Tail(rx) /\ UNCHANGED <<tx, err, unseen>>
    [] m.reg = "console_tx_data" ->
         IF Len(tx) = TX_DEPTH THEN Fault("tx_write_when_full")
         ELSE tx' = Append(tx, m.val) /\ UNCHANGED <<rx, err, unseen>>
    [] m.reg = "console_err_clear" ->
         err' = err \ m.val /\ UNCHANGED <<rx, tx, unseen>>

(* eb8008_handle answers reads and not writes.                             *)
Answer(m) == IF m.op = "read"
             THEN << [val |-> Value(m.reg), current |-> m.current] >>
             ELSE << >>

(* eb_serve_pending, then back to the loop: polled again, interrupted by   *)
(* the ARP refresh of a new tick, or by the renewal of the lease.          *)
eb_serve_pending ==
  /\ loop = "serve"
  /\ IF slot = << >> THEN UNCHANGED <<rep, slot, rx, tx, err, unseen>>
     ELSE /\ Access(Head(slot))
          /\ rep' = rep \o Answer(Head(slot))
          /\ slot' = << >>
  /\ \/ loop' \in {"service", "arp"} /\ UNCHANGED faults
     \/ /\ faults.renew < scenario.renew /\ loop' = "renew"
        /\ faults' = [faults EXCEPT !.renew = @ + 1]
  /\ UNCHANGED <<client, req, consumed, printed, typed, stdout, claimed>>

(* The other side of the bridge.                                           *)
CorePrints ==
  /\ printed < scenario.print
  /\ printed' = printed + 1 /\ rx' = Append(rx, printed + 1)
  /\ UNCHANGED <<client, req, rep, faults, board, tx, err, consumed,
                 typed, said>>

Transmit ==
  /\ tx # << >>
  /\ tx' = Tail(tx) /\ consumed' = Append(consumed, Head(tx))
  /\ UNCHANGED <<client, req, rep, faults, board, rx, err, printed, typed,
                 said>>
-----------------------------------------------------------------------------
(* What UDP may do to the datagrams in one direction.                      *)
Lost(q, i)   == SubSeq(q, 1, i - 1) \o SubSeq(q, i + 1, Len(q))
Copied(q, i) == SubSeq(q, 1, i) \o SubSeq(q, i, Len(q))

Disturbed(q, q2) ==
  \/ /\ faults.lose < scenario.lose /\ faults' = [faults EXCEPT !.lose = @ + 1]
     /\ \E i \in DOMAIN q : q2 = Lost(q, i)
  \/ /\ faults.copy < scenario.copy /\ faults' = [faults EXCEPT !.copy = @ + 1]
     /\ \E i \in DOMAIN q : q2 = Copied(q, i)
  \/ /\ faults.swap < scenario.swap /\ faults' = [faults EXCEPT !.swap = @ + 1]
     /\ \E i \in DOMAIN q : i > 1
          /\ q2 = [q EXCEPT ![i - 1] = q[i], ![i] = q[i - 1]]

Disturb ==
  /\ \/ Disturbed(req, req') /\ UNCHANGED rep
     \/ Disturbed(rep, rep') /\ UNCHANGED req
  /\ UNCHANGED <<client, board, regs, printed, typed, said>>

Step ==
  \/ Attempt \/ GiveUp \/ Receive \/ Stdin \/ Interrupt
  \/ Service \/ ArpRefresh \/ Renew \/ eb_serve_pending
  \/ CorePrints \/ Transmit
  \/ Disturb

Next == Step /\ UNCHANGED scenario

Spec == Init /\ [][Next]_<<vars, scenario>>

(* The clocks, the loop and the network go on: the client takes its next   *)
(* step, sockets time out, frames arrive, an ARP refresh and a DHCP        *)
(* exchange end, the transmitter empties tx_fifo.                          *)
Fairness ==
  /\ WF_vars(Attempt) /\ WF_vars(GiveUp) /\ WF_vars(Receive)
  /\ WF_vars(Stdin)
  /\ WF_vars(Service)
  /\ SF_vars(Service /\ req' # req)
  /\ WF_vars(ArpRefresh /\ loop' = "service")
  /\ WF_vars(Renew /\ loop' = "service")
  /\ WF_vars(eb_serve_pending)
  /\ WF_vars(Transmit)

FairSpec == Spec /\ Fairness
-----------------------------------------------------------------------------
Increasing(s) == \A i \in DOMAIN s : i > 1 => s[i - 1] < s[i]

(* The bytes the client has read, and the writes still on their way.       *)
Transcript == stdout \o got
Written ==
  LET under  == slot \o req
      writes == {i \in DOMAIN under : under[i].reg = "console_tx_data"}
      nth(k) == CHOOSE i \in writes : Cardinality({j \in writes : j <= i}) = k
  IN  [k \in 1 .. Cardinality(writes) |-> under[nth(k)].val]

(* The slot is only occupied between udp_service and eb_serve_pending or   *)
(* during an ARP refresh, and the client is in one place at a time.        *)
SessionTypeOK ==
  /\ pc \in DOMAIN Reading \cup {"stdin", "exited", "failed"}
  /\ tries \in 0 .. TRIES /\ waited \in 0 .. FULL_POLLS
  /\ tries > 0 => pc \in DOMAIN Reading
  /\ pc = "send" => todo # << >>
  /\ todo # << >> => pc \in {"send", "failed", "exited"}
  /\ Len(got) < DRAIN_MAX_BYTES
  /\ got # << >> => pc \in {"drain", "failed", "exited"}
  /\ Len(slot) <= 1 /\ (loop = "renew" => slot = << >>)
  /\ Len(tx) <= TX_DEPTH

(* README.md:16, SPEC.md S-PROD-3, core to host: the transcript is what    *)
(* the core printed, each byte once and in order.                          *)
TranscriptExact == Transcript = [i \in 1 .. Len(Transcript) |-> i]

(* console.py:131, host to core: what send counted as accepted is on its   *)
(* way, queued or transmitted, each byte once and in order.                *)
AcceptedLands == consumed \o tx \o Written = claimed

(* Nothing has happened to a datagram but delay, and no lease was renewed. *)
Undisturbed == \A k \in DOMAIN faults : faults[k] = 0

(* Until the first loss, copy, reordering or renewal drain keeps the       *)
(* promise, although reads are retried and the request slot drops frames.  *)
QuietTranscript == Undisturbed => TranscriptExact

(* So long send keeps it too: no write finds the request slot occupied,    *)
(* because between two writes the client waits for the reply to a read.    *)
QuietWrites == Undisturbed => AcceptedLands

(* The network has kept the order of datagrams and copied none.            *)
Sequenced == faults.copy = 0 /\ faults.swap = 0

(* S-RX-5: a lost datagram or a renewal may make the client read a byte    *)
(* twice, and never makes it miss one.                                     *)
NothingMissing ==
  Sequenced => \A i \in DOMAIN Transcript :
    Transcript[i] \in IF i = 1 THEN {1}
                      ELSE {Transcript[i - 1], Transcript[i - 1] + 1}

(* S-RX-6: writes are not retried, so on a network that keeps their order  *)
(* no typed byte reaches the core twice, or out of order.                  *)
TypedAtMostOnce == Sequenced => Increasing(consumed \o tx \o Written)

(* read_counter: whatever the network does, no old reply is taken for the  *)
(* current one, so the transcript never goes backwards.                    *)
TranscriptInOrder ==
  \A i \in DOMAIN Transcript : i > 1 => Transcript[i - 1] <= Transcript[i]

(* check_errors: it clears only what it saw, so every fault keeps its bit  *)
(* set until it is announced.  A fault that repeats one whose clear is     *)
(* still under way is the exception: that clear takes both.                *)
FaultsReported == unseen \subseteq err

(* A printed byte reaches the transcript, unless the session ends.         *)
SessionDelivers ==
  \A n \in UNION {1 .. s.print : s \in Scenarios} :
    printed >= n ~> \/ n \in {stdout[i] : i \in DOMAIN stdout}
                    \/ pc \in {"exited", "failed"}
=============================================================================
