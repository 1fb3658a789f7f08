------------------------ MODULE ConsoleSessionProofs ------------------------
(***************************************************************************)
(* What holds of a console session for every depth, number of attempts and *)
(* polls, chunk, and network (delay, loss, copies, reordering and lease    *)
(* renewals in any number): its types, the order of what it prints, and    *)
(* the order of the datagrams.                                             *)
(***************************************************************************)
EXTENDS ConsoleSession, SequenceTheorems, TLAPS

Errors == {"tx_write_when_full", "rx_pop_when_empty"}

\* The datagrams of a session.  A clear names no fault that was not announced.
Reads  == [op : {"read"}, reg : {"console_err", "console_rx", "console_tx"},
           val : {0}, current : BOOLEAN]
Pops   == [op : {"write"}, reg : {"console_rx_pop"}, val : {1}, current : {FALSE}]
Bytes  == [op : {"write"}, reg : {"console_tx_data"}, val : Nat, current : {FALSE}]
Clears == [op : {"write"}, reg : {"console_err_clear"}, val : SUBSET (Errors \ unseen),
           current : {FALSE}]
Requests == Reads \cup Pops \cup Bytes \cup Clears
Words    == [byte : {<< >>} \cup {<< b >> : b \in 1 .. printed}, full : BOOLEAN,
             err : SUBSET Errors]
Answers  == [val : Words, current : BOOLEAN]

\* Bytes that were popped.  The next one is the one a read of console_rx shows.
Popped == printed - Len(rx)

HostOK ==
  /\ pc \in {"check_errors", "drain", "send", "stdin", "exited", "failed"}
  /\ tries \in 0 .. TRIES /\ waited \in 0 .. FULL_POLLS /\ leaving \in BOOLEAN
  /\ tries > 0 => pc \in {"check_errors", "drain", "send"}
  /\ todo \in Seq(Nat) /\ got \in Seq(Nat) /\ stdout \in Seq(Nat) /\ claimed \in Seq(Nat)
  /\ pc = "send" => todo # << >>
  /\ todo # << >> => pc \in {"send", "failed", "exited"}
  /\ Len(got) < DRAIN_MAX_BYTES
  /\ got # << >> => pc \in {"drain", "failed", "exited"}
  /\ typed \in Nat

BoardOK ==
  /\ loop \in {"service", "serve", "arp", "renew"}
  /\ loop = "renew" => slot = << >> /\ faults.renew > 0
  /\ Len(slot) <= 1
  /\ faults \in [lose : Nat, copy : Nat, swap : Nat, renew : Nat]
  /\ tx \in Seq(Nat) /\ Len(tx) <= TX_DEPTH /\ consumed \in Seq(Nat)
  /\ err \subseteq Errors /\ unseen \subseteq err

RxOK ==
  /\ printed \in Nat /\ rx \in Seq(Nat) /\ Len(rx) <= printed
  /\ \A i \in 1 .. Len(rx) : rx[i] = Popped + i

MsgOK == req \in Seq(Requests) /\ slot \in Seq(Requests) /\ rep \in Seq(Answers)

TypeInv == HostOK /\ BoardOK /\ RxOK /\ MsgOK

-----------------------------------------------------------------------------
\* No current reply (while a read waits) shows a byte older than the
\* transcript, or newer than the bridge.
Readable == {b \in 1 .. printed : b <= Popped + 1 /\ \A j \in DOMAIN Transcript : Transcript[j] <= b}
Fresh == {r \in Answers : tries > 0 /\ r.current => r.val.byte \in {<< >>} \cup {<< b >> : b \in Readable}}
OrderInv ==
  /\ Transcript \in Seq(1 .. printed)
  /\ \A i \in DOMAIN Transcript : Transcript[i] <= Popped + 1
  /\ TranscriptInOrder
  /\ rep \in Seq(Fresh)

-----------------------------------------------------------------------------
\* Only the first request under way is a write, only the last one is current,
\* and with a current reply under way there is none.
Lined(q, s, p) ==
  /\ \A i \in 1 .. Len(q) : q[i].op = "write" => i = 1 /\ s = << >>
  /\ \A i \in 1 .. Len(q) : q[i].current => i = Len(q) /\ q[i].op = "read"
  /\ \A i \in 1 .. Len(s) : s[i].current => q = << >> /\ s[i].op = "read"
  /\ \A i \in 1 .. Len(p) : p[i].current => i = Len(p) /\ q = << >> /\ s = << >>
NoneCurrent(q, s, p) ==
  /\ \A i \in 1 .. Len(q) : ~q[i].current
  /\ \A i \in 1 .. Len(s) : ~s[i].current
  /\ \A i \in 1 .. Len(p) : ~p[i].current
CurrentFor(q, s, reg) ==
  /\ \A i \in 1 .. Len(q) : q[i].current => q[i].reg = reg
  /\ \A i \in 1 .. Len(s) : s[i].current => s[i].reg = reg
\* Between reads nothing under way is current; in a read it is for its register.
InStep ==
  /\ tries = 0 /\ pc \in {"check_errors", "drain", "send", "stdin"} => NoneCurrent(req, slot, rep)
  /\ tries > 0 => CurrentFor(req, slot, Reading[pc])
LineInv == Sequenced => Lined(req, slot, rep) /\ InStep

-----------------------------------------------------------------------------
(* Sequences: what the network and the firmware do to datagrams.           *)

\* Sequences are joined in any grouping.
LEMMA Joined == \A s, t, u \in Seq(Nat) : (s \o t) \o u = s \o (t \o u)
  <1> DEFINE Associates(S) == \A s, t, u \in Seq(S) : (s \o t) \o u = s \o (t \o u)
  <1>1. \A S : Associates(S)
    BY ConcatAssociative, Zenon
  <1> HIDE DEF Associates
  <1>2. Associates(Nat)
    BY <1>1, Zenon
  <1> QED BY <1>2, Zenon DEF Associates

\* A dropped datagram leaves the others, in their order.
LEMMA LostFacts ==
  \A S : \A q \in Seq(S) : \A i \in DOMAIN q :
    /\ Lost(q, i) \in Seq(S)
    /\ Len(Lost(q, i)) = Len(q) - 1
    /\ \A j \in 1 .. Len(q) - 1 : Lost(q, i)[j] = IF j < i THEN q[j] ELSE q[j + 1]
  <1> TAKE S
  <1> TAKE q \in Seq(S)
  <1> TAKE i \in DOMAIN q
  <1>1. Len(q) \in Nat /\ i \in 1 .. Len(q) /\ \A j \in 1 .. Len(q) : q[j] \in S
    BY LenProperties, ElementOfSeq
  <1> DEFINE a == SubSeq(q, 1, i - 1)
             b == SubSeq(q, i + 1, Len(q))
  <1>2. a \in Seq(S) /\ Len(a) = i - 1 /\ \A j \in 1 .. i - 1 : a[j] = q[j]
    <2>1. \A j \in 1 .. i - 1 : q[j] \in S
      BY <1>1
    <2> QED BY <1>1, <2>1, SubSeqProperties
  <1>3. b \in Seq(S) /\ Len(b) = Len(q) - i /\ \A j \in 1 .. Len(q) - i : b[j] = q[i + j]
    <2>1. \A j \in i + 1 .. Len(q) : q[j] \in S
      BY <1>1
    <2> QED BY <1>1, <2>1, SubSeqProperties
  <1>4. Lost(q, i) = a \o b
    BY DEF Lost
  <1> HIDE DEF a, b
  <1>5. /\ a \o b \in Seq(S) /\ Len(a \o b) = Len(a) + Len(b)
        /\ \A j \in 1 .. Len(a) + Len(b) : (a \o b)[j] = IF j <= Len(a) THEN a[j] ELSE b[j - Len(a)]
    BY <1>2, <1>3, ConcatProperties, Zenon
  <1>6. Len(a \o b) = Len(q) - 1
    BY <1>1, <1>2, <1>3, <1>5
  <1>7. ASSUME NEW j \in 1 .. Len(q) - 1
        PROVE  (a \o b)[j] = IF j < i THEN q[j] ELSE q[j + 1]
    <2>1. (a \o b)[j] = IF j <= i - 1 THEN a[j] ELSE b[j - (i - 1)]
      <3>1. j \in 1 .. Len(a) + Len(b)
        BY <1>1, <1>2, <1>3, SMTT(60)
      <3>2. (a \o b)[j] = IF j <= Len(a) THEN a[j] ELSE b[j - Len(a)]
        BY <1>5, <3>1, Zenon
      <3> QED BY <1>2, <3>2, Zenon
    <2>2. CASE j < i
      BY <1>1, <1>2, <2>1, <2>2
    <2>3. CASE ~(j < i)
      <3>1. b[j - (i - 1)] = q[i + (j - (i - 1))] /\ i + (j - (i - 1)) = j + 1
        BY <1>1, <1>3, <2>3, SMTT(60)
      <3>2. ~(j <= i - 1)
        BY <1>1, <2>3
      <3>3. (a \o b)[j] = b[j - (i - 1)]
        BY <2>1, <3>2, Zenon
      <3>4. b[j - (i - 1)] = q[j + 1]
        BY <3>1, Zenon
      <3> QED BY <2>3, <3>3, <3>4, Zenon
    <2> QED BY <2>2, <2>3, Zenon
  <1> QED BY <1>4, <1>5, <1>6, <1>7

\* A copied datagram is one that was under way.
LEMMA CopiedFacts ==
  \A S : \A q \in Seq(S) : \A i \in DOMAIN q : Copied(q, i) \in Seq(S)
  <1> TAKE S
  <1> TAKE q \in Seq(S)
  <1> TAKE i \in DOMAIN q
  <1>1. Len(q) \in Nat /\ i \in 1 .. Len(q) /\ \A j \in 1 .. Len(q) : q[j] \in S
    BY LenProperties, ElementOfSeq
  <1>2. SubSeq(q, 1, i) \in Seq(S)
    <2>1. \A j \in 1 .. i : q[j] \in S
      BY <1>1
    <2> QED BY <1>1, <2>1, SubSeqProperties
  <1>3. SubSeq(q, i, Len(q)) \in Seq(S)
    <2>1. \A j \in i .. Len(q) : q[j] \in S
      BY <1>1
    <2> QED BY <1>1, <2>1, SubSeqProperties
  <1> QED BY <1>2, <1>3, ConcatProperties DEF Copied

\* Two neighbours change places.
LEMMA SwapFacts ==
  \A S : \A q \in Seq(S) : \A i \in DOMAIN q :
    i > 1 => [q EXCEPT ![i - 1] = q[i], ![i] = q[i - 1]] \in Seq(S)
  <1> TAKE S
  <1> TAKE q \in Seq(S)
  <1> TAKE i \in DOMAIN q
  <1> HAVE i > 1
  <1>1. Len(q) \in Nat /\ i \in 1 .. Len(q) /\ i - 1 \in 1 .. Len(q) /\ q[i] \in S /\ q[i - 1] \in S
    <2>1. Len(q) \in Nat /\ i \in 1 .. Len(q)
      BY LenProperties
    <2>2. i - 1 \in 1 .. Len(q)
      BY <2>1
    <2> QED BY <2>1, <2>2, ElementOfSeq
  <1> DEFINE a == [q EXCEPT ![i - 1] = q[i]]
  <1>2. a \in Seq(S) /\ Len(a) = Len(q)
    BY <1>1, ExceptSeq
  <1>3. [a EXCEPT ![i] = q[i - 1]] \in Seq(S)
    <2> HIDE DEF a
    <2> QED BY <1>1, <1>2, ExceptSeq
  <1> QED BY <1>3

-----------------------------------------------------------------------------
(* Datagrams.                                                              *)

\* Which register the client reads where.
LEMMA ReadingFacts ==
  /\ DOMAIN Reading = {"check_errors", "drain", "send"}
  /\ Reading["check_errors"] = "console_err" /\ Reading["drain"] = "console_rx"
  /\ Reading["send"] = "console_tx"
  BY DEF Reading

\* What the client sends is a request.
LEMMA SentFacts ==
  /\ \A p \in DOMAIN Reading : Read(Reading[p]) \in Reads
  /\ Write("console_rx_pop", 1) \in Pops
  /\ \A n \in Nat : Write("console_tx_data", n) \in Bytes
  /\ \A E \in SUBSET (Errors \ unseen) : Write("console_err_clear", E) \in Clears
  <1>1. \A p \in DOMAIN Reading : Read(Reading[p]) \in Reads
    BY ReadingFacts DEF Read, Reads
  <1>2. Write("console_rx_pop", 1) \in Pops
    BY DEF Write, Pops
  <1>3. \A n \in Nat : Write("console_tx_data", n) \in Bytes
    BY DEF Write, Bytes
  <1>4. \A E \in SUBSET (Errors \ unseen) : Write("console_err_clear", E) \in Clears
    BY DEF Write, Clears
  <1> QED BY <1>1, <1>2, <1>3, <1>4, Zenon

\* A newer attempt changes nothing of an older datagram but its `current'.
LEMMA AgedFacts ==
  \A S : \A q \in Seq(S) :
    /\ Len(Aged(q)) = Len(q) /\ DOMAIN Aged(q) = 1 .. Len(q) /\ Len(q) \in Nat
    /\ \A i \in 1 .. Len(q) : Aged(q)[i] = [q[i] EXCEPT !.current = FALSE]
    /\ q = << >> => Aged(q) = << >>
    /\ (\A m \in S : [m EXCEPT !.current = FALSE] \in S) => Aged(q) \in Seq(S)
  <1> SUFFICES ASSUME NEW S, NEW q \in Seq(S)
               PROVE  /\ Len(Aged(q)) = Len(q) /\ DOMAIN Aged(q) = 1 .. Len(q) /\ Len(q) \in Nat
                      /\ \A i \in 1 .. Len(q) : Aged(q)[i] = [q[i] EXCEPT !.current = FALSE]
                      /\ q = << >> => Aged(q) = << >>
                      /\ (\A m \in S : [m EXCEPT !.current = FALSE] \in S) => Aged(q) \in Seq(S)
    BY Zenon
  <1>1. Len(q) \in Nat /\ DOMAIN q = 1 .. Len(q) /\ \A i \in 1 .. Len(q) : q[i] \in S
    BY LenProperties, ElementOfSeq
  <1>2. Aged(q) = [i \in 1 .. Len(q) |-> [q[i] EXCEPT !.current = FALSE]]
    BY <1>1 DEF Aged
  <1>3. Len(Aged(q)) = Len(q) /\ DOMAIN Aged(q) = 1 .. Len(q)
    BY <1>1, <1>2
  <1>4. \A i \in 1 .. Len(q) : Aged(q)[i] = [q[i] EXCEPT !.current = FALSE]
    BY <1>2
  <1>5. q = << >> => Aged(q) = << >>
    BY <1>2
  <1>6. ASSUME \A m \in S : [m EXCEPT !.current = FALSE] \in S PROVE Aged(q) \in Seq(S)
    <2>1. \A i \in 1 .. Len(q) : [q[i] EXCEPT !.current = FALSE] \in S
      BY <1>1, <1>6
    <2> QED BY <1>1, <1>2, <2>1, IsASeq
  <1> QED BY <1>1, <1>3, <1>4, <1>5, <1>6

\* An older request is a request, an older answer an answer.
LEMMA AgedTypes ==
  /\ \A m \in Requests : [m EXCEPT !.current = FALSE] \in Requests
  /\ \A r \in Answers : [r EXCEPT !.current = FALSE] \in Answers
  <1>1. \A m \in Reads : [m EXCEPT !.current = FALSE] \in Reads
    BY Zenon DEF Reads
  <1>2. \A m \in Pops : [m EXCEPT !.current = FALSE] \in Pops
    BY Zenon DEF Pops
  <1>3. \A m \in Bytes : [m EXCEPT !.current = FALSE] \in Bytes
    BY Zenon DEF Bytes
  <1>4. \A m \in Clears : [m EXCEPT !.current = FALSE] \in Clears
    BY Zenon DEF Clears
  <1>5. \A r \in Answers : [r EXCEPT !.current = FALSE] \in Answers
    BY Zenon DEF Answers
  <1> QED BY <1>1, <1>2, <1>3, <1>4, <1>5 DEF Requests

\* The registers' answers are words of the printed bytes.
LEMMA AnswerTypes ==
  ASSUME RxOK, err \subseteq Errors, NEW m \in Requests
  PROVE  /\ Value(m.reg) \in Words
         /\ Answer(m) = << >> \/ (m.op = "read" /\ Answer(m) = << [val |-> Value(m.reg), current |-> m.current] >>)
         /\ Answer(m) \in Seq(Answers)
  <1>1. m.current \in BOOLEAN
    BY Zenon DEF Requests, Reads, Pops, Bytes, Clears
  <1>2. rx # << >> => Head(rx) \in 1 .. printed
    <2> SUFFICES ASSUME rx # << >> PROVE Head(rx) \in 1 .. printed
      OBVIOUS
    <2>1. Len(rx) \in Nat /\ Len(rx) >= 1
      BY EmptySeq DEF RxOK
    <2>2. Head(rx) = rx[1]
      BY DEF RxOK
    <2>3. rx[1] = printed - Len(rx) + 1
      BY <2>1 DEF RxOK, Popped
    <2> QED BY <2>1, <2>2, <2>3 DEF RxOK
  <1>3. Value(m.reg) \in Words
    BY <1>2 DEF Value, Words
  <1>4. Answer(m) = << >> \/ (m.op = "read" /\ Answer(m) = << [val |-> Value(m.reg), current |-> m.current] >>)
    BY DEF Answer
  <1>5. [val |-> Value(m.reg), current |-> m.current] \in Answers
    BY <1>1, <1>3 DEF Answers
  <1>6. << >> \in Seq(Answers) /\ \A r \in Answers : << r >> \in Seq(Answers)
    OBVIOUS
  <1>7. Answer(m) \in Seq(Answers)
    BY <1>4, <1>5, <1>6, Zenon
  <1> QED BY <1>3, <1>4, <1>7, Zenon

-----------------------------------------------------------------------------
(* Types, and the announced faults.                                        *)

\* Announcing more faults, or printing more bytes, keeps what is under way.
LEMMA StillTyped ==
  /\ unseen' \subseteq unseen => Requests \subseteq Requests'
  /\ printed \in Nat /\ printed' \in Nat /\ printed <= printed' => Answers \subseteq Answers'
  <1>1. unseen' \subseteq unseen => Requests \subseteq Requests'
    BY Zenon DEF Requests, Reads, Pops, Bytes, Clears
  <1>2. ASSUME printed \in Nat, printed' \in Nat, printed <= printed' PROVE Answers \subseteq Answers'
    <2>1. 1 .. printed \subseteq 1 .. printed'
      BY <1>2
    <2>2. Words \subseteq Words'
      BY <2>1 DEF Words
    <2> QED BY <2>2 DEF Answers
  <1> QED BY <1>1, <1>2

\* Messages stay typed when printed grows and unseen shrinks.
LEMMA MsgGrows ==
  ASSUME printed \in Nat, printed' \in Nat, printed <= printed', unseen' \subseteq unseen,
         req' \in Seq(Requests), slot' \in Seq(Requests), rep' \in Seq(Answers)
  PROVE  MsgOK'
  <1>1. Requests \subseteq Requests' /\ Answers \subseteq Answers'
    BY StillTyped
  <1>2. \A S, T : S \subseteq T => \A q \in Seq(S) : q \in Seq(T)
    BY SeqMonotonic
  <1>3. req' \in Seq(Requests') /\ slot' \in Seq(Requests') /\ rep' \in Seq(Answers')
    BY <1>1, <1>2, Zenon
  <1> QED BY <1>3 DEF MsgOK

\* The session starts typed, with nothing under way.
LEMMA TypeInit == Init => TypeInv
  <1> SUFFICES ASSUME Init PROVE TypeInv
    OBVIOUS
  <1>1. HostOK
    <2>1. << >> \in Seq(Nat) /\ Len(<< >>) = 0 /\ 0 \in 0 .. TRIES /\ 0 \in 0 .. FULL_POLLS /\ 0 < DRAIN_MAX_BYTES
      BY SessionAssumption, EmptySeq
    <2> QED BY <2>1, Zenon DEF Init, HostOK
  <1>2. BoardOK
    BY SessionAssumption DEF Init, BoardOK
  <1>3. RxOK
    BY DEF Init, RxOK, Popped
  <1>4. MsgOK
    BY EmptySeq DEF Init, MsgOK
  <1> QED BY <1>1, <1>2, <1>3, <1>4 DEF TypeInv

\* A new attempt.
LEMMA AttemptType == TypeInv /\ Attempt => TypeInv'
  <1> SUFFICES ASSUME TypeInv, Attempt PROVE TypeInv'
    OBVIOUS
  <1> USE DEF TypeInv
  <1>1. HostOK'
    BY SessionAssumption, ReadingFacts DEF HostOK, Attempt, said
  <1>2. Len(Aged(slot)) = Len(slot) /\ (slot = << >> => Aged(slot) = << >>)
    BY AgedFacts DEF MsgOK
  <1>3. BoardOK' /\ RxOK'
    BY <1>2 DEF BoardOK, RxOK, Popped, Attempt, regs, said
  <1>4. Aged(req) \in Seq(Requests) /\ Aged(slot) \in Seq(Requests) /\ Aged(rep) \in Seq(Answers)
    BY AgedFacts, AgedTypes, ZenonT(60) DEF MsgOK
  <1>5. Read(Reading[pc]) \in Requests
    BY SentFacts, Zenon DEF Attempt, Requests
  <1>6. Append(Aged(req), Read(Reading[pc])) \in Seq(Requests)
    BY <1>4, <1>5, AppendProperties
  <1>7. MsgOK'
    <2>1. printed \in Nat /\ printed' \in Nat /\ printed <= printed' /\ unseen' \subseteq unseen
      BY DEF Attempt, said, RxOK
    <2>2. req' \in Seq(Requests) /\ slot' \in Seq(Requests) /\ rep' \in Seq(Answers)
      BY <1>4, <1>6, Zenon DEF Attempt
    <2> QED BY <2>1, <2>2, MsgGrows, Zenon
  <1> QED BY <1>1, <1>3, <1>7

\* Giving up, leaving, and reading stdin move no message.
LEMMA StillType ==
  TypeInv /\ (GiveUp \/ Stdin \/ Interrupt \/ Transmit \/ CorePrints) => TypeInv'
  <1> SUFFICES ASSUME TypeInv, GiveUp \/ Stdin \/ Interrupt \/ Transmit \/ CorePrints PROVE TypeInv'
    OBVIOUS
  <1> USE SessionAssumption, ReadingFacts DEF TypeInv
  <1>1. MsgOK'
    <2>1. UNCHANGED <<req, slot, rep, unseen>>
      BY DEF GiveUp, Stdin, Interrupt, Transmit, CorePrints, board, said
    <2>2. printed \in Nat /\ printed' \in Nat /\ printed <= printed'
      BY DEF GiveUp, Stdin, Interrupt, Transmit, CorePrints, RxOK
    <2>3. req' \in Seq(Requests) /\ slot' \in Seq(Requests) /\ rep' \in Seq(Answers)
      BY <2>1, Zenon DEF MsgOK
    <2> QED BY <2>1, <2>2, <2>3, MsgGrows, SMTT(60)
  <1>2. CASE GiveUp \/ Interrupt
    <2>1. pc' \in {"failed", "exited"} /\ tries' = 0 /\ UNCHANGED <<got, todo, waited, leaving, typed, said>>
      BY <1>2 DEF GiveUp, Interrupt
    <2>2. 0 \in 0 .. TRIES
      OBVIOUS
    <2>3. HostOK'
      BY <2>1, <2>2 DEF HostOK, said
    <2>4. BoardOK' /\ RxOK'
      BY <1>2, Zenon DEF GiveUp, Interrupt, BoardOK, RxOK, Popped, board, regs, said
    <2> QED BY <1>1, <2>3, <2>4
  <1>3. CASE Stdin
    <2>1. BoardOK' /\ RxOK'
      BY <1>3, SMTT(60) DEF Stdin, BoardOK, RxOK, Popped, board, regs, said
    <2>2. CASE UNCHANGED <<todo, leaving, typed>>
      BY <1>1, <1>3, <2>1, <2>2, SMTT(60) DEF Stdin, HostOK, said
    <2>3. CASE \E n \in 1 .. scenario.type - typed :
                 /\ pc' = "send" /\ leaving' \in BOOLEAN
                 /\ todo' = [i \in 1 .. n |-> typed + i]
                 /\ typed' = typed + n
      <3>1. PICK n \in 1 .. scenario.type - typed :
                 /\ pc' = "send" /\ leaving' \in BOOLEAN
                 /\ todo' = [i \in 1 .. n |-> typed + i]
                 /\ typed' = typed + n
        BY <2>3
      <3>2. n \in Nat /\ n >= 1 /\ typed \in Nat
        BY DEF HostOK
      <3>3. todo' \in Seq(Nat) /\ todo' # << >> /\ typed' \in Nat
        <4>1. \A i \in 1 .. n : typed + i \in Nat
          BY <3>2
        <4>2. todo' \in Seq(Nat)
          BY <3>1, <3>2, <4>1, IsASeq
        <4>3. Len(todo') = n
          BY <3>1, <3>2
        <4>4. Len(todo') # Len(<< >>) /\ typed' \in Nat
          BY <3>1, <3>2, <4>3, EmptySeq
        <4> QED BY <4>2, <4>4, Zenon
      <3> QED BY <1>1, <1>3, <2>1, <3>1, <3>3, Zenon DEF Stdin, HostOK, said
    <2> QED BY <1>3, <2>2, <2>3 DEF Stdin
  <1>4. CASE Transmit
    <2>1. Tail(tx) \in Seq(Nat) /\ Len(Tail(tx)) = Len(tx) - 1 /\ Head(tx) \in Nat /\ Len(tx) \in Nat
      BY <1>4, HeadTailProperties, LenProperties, SMTT(60) DEF Transmit, BoardOK
    <2>2. Append(consumed, Head(tx)) \in Seq(Nat)
      BY <2>1, AppendProperties DEF BoardOK
    <2>3. HostOK' /\ RxOK'
      BY <1>4 DEF Transmit, HostOK, RxOK, Popped, client, said
    <2>4. BoardOK'
      BY <1>4, <2>1, <2>2, SMTT(60) DEF Transmit, BoardOK, board, said
    <2> QED BY <1>1, <2>3, <2>4
  <1>5. CASE CorePrints
    <2>1. printed \in Nat /\ Len(rx) \in Nat /\ rx' = Append(rx, printed + 1) /\ printed' = printed + 1
      BY <1>5, LenProperties DEF CorePrints, RxOK
    <2>2. rx' \in Seq(Nat) /\ Len(rx') = Len(rx) + 1
      BY <2>1 DEF RxOK
    <2>3. \A i \in 1 .. Len(rx) : rx'[i] = rx[i]
      BY <2>1, AppendProperties DEF RxOK
    <2>4. rx'[Len(rx) + 1] = printed + 1
      BY <2>1, AppendProperties DEF RxOK
    <2>5. RxOK'
      BY <2>1, <2>2, <2>3, <2>4, SMTT(60) DEF RxOK, Popped
    <2>6. HostOK' /\ BoardOK'
      BY <1>5, Zenon DEF CorePrints, HostOK, BoardOK, client, board, said
    <2> QED BY <1>1, <2>5, <2>6
  <1> QED BY <1>2, <1>3, <1>4, <1>5

\* A datagram of the board is skipped, or the pump continues with its value.
LEMMA ReceiveCases ==
  ASSUME TypeInv, Receive
  PROVE  /\ rep # << >> /\ rep' = Tail(rep) /\ Head(rep) \in Answers /\ Tail(rep) \in Seq(Answers)
         /\ UNCHANGED <<faults, board, regs, printed, typed>>
         /\ \/ UNCHANGED <<client, req, said>>
            \/ /\ pc \in DOMAIN Reading /\ tries > 0 /\ Head(rep).current /\ tries' = 0
               /\ \/ CheckErrors(Head(rep).val.err)
                  \/ Drain(Head(rep).val.byte)
                  \/ Send(Head(rep).val.full)
  <1>1. Head(rep) \in Answers /\ Tail(rep) \in Seq(Answers)
    BY HeadTailProperties DEF TypeInv, MsgOK, Receive
  <1> QED BY <1>1, ZenonT(60) DEF Receive

\* check_errors: what is cleared has been announced.
LEMMA CheckErrorsType ==
  ASSUME TypeInv, Receive, NEW val \in SUBSET Errors, CheckErrors(val), tries' = 0
  PROVE  TypeInv'
  <1> USE SessionAssumption DEF TypeInv
  <1>1. UNCHANGED <<faults, board, regs, printed, typed>> /\ rep' = Tail(rep) /\ Tail(rep) \in Seq(Answers)
    BY ReceiveCases
  <1>2. HostOK'
    <2>1. 0 \in 0 .. TRIES
      OBVIOUS
    <2>2. pc' = "drain" /\ pc = "check_errors" /\ UNCHANGED <<got, todo, waited, leaving, stdout, claimed>>
      BY DEF CheckErrors, HostOK
    <2> QED BY <1>1, <2>1, <2>2 DEF HostOK
  <1>3. unseen' \subseteq unseen
    BY DEF CheckErrors
  <1>4. BoardOK' /\ RxOK'
    BY <1>1, <1>3, SMTT(60) DEF BoardOK, RxOK, Popped, board, regs
  <1>5. MsgOK'
    <2>1. Requests \subseteq Requests'
      BY <1>3, StillTyped
    <2>2. req \in Seq(Requests') /\ slot \in Seq(Requests')
      BY <2>1, SeqMonotonic DEF MsgOK
    <2>3. Write("console_err_clear", val) \in Requests'
      <3>1. val \in SUBSET (Errors \ unseen')
        BY DEF CheckErrors
      <3> QED BY <3>1 DEF Requests, Clears, Write
    <2>4. Append(req, Write("console_err_clear", val)) \in Seq(Requests')
      BY <2>2, <2>3, AppendProperties
    <2>5. req' \in Seq(Requests')
      BY <2>2, <2>4, Zenon DEF CheckErrors
    <2>6. Answers' = Answers
      BY <1>1 DEF Answers, Words
    <2> QED BY <1>1, <2>2, <2>5, <2>6 DEF MsgOK, board
  <1> QED BY <1>2, <1>4, <1>5

\* drain: never more than its bound between two looks at stdin.
LEMMA DrainType ==
  ASSUME TypeInv, Receive, NEW b \in {<< >>} \cup {<< x >> : x \in 1 .. printed}, Drain(b), tries' = 0
  PROVE  TypeInv'
  <1> USE SessionAssumption DEF TypeInv
  <1>1. UNCHANGED <<faults, board, regs, printed, typed>> /\ rep' = Tail(rep) /\ Tail(rep) \in Seq(Answers)
    BY ReceiveCases, Zenon
  <1>2. b \in Seq(Nat) /\ (b # << >> => Len(b) = 1) /\ printed \in Nat
    <2>1. printed \in Nat
      BY DEF RxOK
    <2>2. \A x \in 1 .. printed : << x >> \in Seq(Nat) /\ Len(<< x >>) = 1
      BY <2>1
    <2>3. << >> \in Seq(Nat)
      BY EmptySeq
    <2> QED BY <2>1, <2>2, <2>3, Zenon
  <1>3. UNCHANGED <<todo, waited, leaving, claimed, unseen>> /\ pc = "drain"
    BY DEF Drain
  <1>4. got \o b \in Seq(Nat) /\ Len(got \o b) = Len(got) + Len(b) /\ stdout \o got \in Seq(Nat)
    BY <1>2, ConcatProperties DEF HostOK
  <1>5. (stdout \o got) \o b \in Seq(Nat)
    BY <1>2, <1>4, ConcatProperties
  <1>6. HostOK'
    <2>1. 0 \in 0 .. TRIES /\ << >> \in Seq(Nat) /\ Len(<< >>) = 0 /\ 0 < DRAIN_MAX_BYTES
      BY EmptySeq, SMTT(60)
    <2>2. CASE b # << >> /\ Len(got) + 1 < DRAIN_MAX_BYTES
      <3>1. got' = got \o b /\ UNCHANGED <<pc, stdout>>
        BY <2>2, Zenon DEF Drain
      <3> QED BY <1>1, <1>2, <1>3, <1>4, <2>1, <2>2, <3>1, Zenon DEF HostOK
    <2>3. CASE ~(b # << >> /\ Len(got) + 1 < DRAIN_MAX_BYTES)
      <3>1. got' = << >> /\ stdout' = (stdout \o got) \o b /\ pc' = "stdin"
        BY <2>3, Zenon DEF Drain
      <3> QED BY <1>1, <1>3, <1>5, <2>1, <3>1 DEF HostOK
    <2> QED BY <2>2, <2>3, Zenon
  <1>7. BoardOK' /\ RxOK'
    BY <1>1, <1>3, SMTT(60) DEF BoardOK, RxOK, Popped, board, regs
  <1>8. MsgOK'
    <2>1. Write("console_rx_pop", 1) \in Requests
      BY SentFacts DEF Requests
    <2>2. Append(req, Write("console_rx_pop", 1)) \in Seq(Requests)
      BY <2>1, AppendProperties DEF MsgOK
    <2>3. req' \in Seq(Requests) /\ slot' \in Seq(Requests) /\ rep' \in Seq(Answers)
      BY <1>1, <2>2, Zenon DEF Drain, MsgOK, board
    <2>4. printed' \in Nat /\ printed <= printed' /\ unseen' \subseteq unseen
      BY <1>1, <1>2, <1>3
    <2> QED BY <1>2, <2>3, <2>4, MsgGrows
  <1> QED BY <1>6, <1>7, <1>8, SMTT(60)

\* send: a byte is counted with its write, or given up with the chunk.
LEMMA SendType ==
  ASSUME TypeInv, Receive, NEW full \in BOOLEAN, Send(full), tries' = 0
  PROVE  TypeInv'
  <1> USE SessionAssumption DEF TypeInv
  <1>1. UNCHANGED <<faults, board, regs, printed, typed>> /\ rep' = Tail(rep) /\ Tail(rep) \in Seq(Answers)
    BY ReceiveCases
  <1>2. UNCHANGED <<got, leaving, stdout, unseen>> /\ pc = "send" /\ todo # << >>
    BY DEF Send, HostOK
  <1>3. Head(todo) \in Nat /\ Tail(todo) \in Seq(Nat)
    BY <1>2, HeadTailProperties, SMTT(60) DEF HostOK
  <1>4. got = << >>
    BY <1>2 DEF HostOK
  <1>5. AfterSend \in {"exited", "check_errors"}
    BY DEF AfterSend
  <1>6. HostOK'
    <2>1. 0 \in 0 .. TRIES /\ << >> \in Seq(Nat) /\ 0 \in 0 .. FULL_POLLS
      BY EmptySeq, SMTT(60)
    <2>2. CASE full /\ waited < FULL_POLLS /\ waited' = waited + 1 /\ UNCHANGED <<pc, todo, req, claimed>>
      BY <1>1, <1>2, <2>1, <2>2, SMTT(60) DEF HostOK
    <2>3. CASE pc' = AfterSend /\ todo' = << >> /\ waited' = 0 /\ UNCHANGED <<req, claimed>>
      BY <1>1, <1>2, <1>4, <1>5, <2>1, <2>3, SMTT(60) DEF HostOK
    <2>4. CASE /\ claimed' = Append(claimed, Head(todo)) /\ todo' = Tail(todo) /\ waited' = 0
               /\ pc' = IF Tail(todo) = << >> THEN AfterSend ELSE pc
      <3>1. claimed' \in Seq(Nat)
        BY <1>3, <2>4, AppendProperties DEF HostOK
      <3> QED BY <1>1, <1>2, <1>3, <1>4, <1>5, <2>1, <2>4, <3>1, SMTT(60) DEF HostOK
    <2> QED BY <2>2, <2>3, <2>4, Zenon DEF Send
  <1>7. BoardOK' /\ RxOK'
    BY <1>1, <1>2, SMTT(60) DEF BoardOK, RxOK, Popped, board, regs
  <1>8. MsgOK'
    <2>1. Write("console_tx_data", Head(todo)) \in Requests
      BY <1>3, SentFacts, SMTT(60) DEF Requests
    <2>2. Append(req, Write("console_tx_data", Head(todo))) \in Seq(Requests)
      BY <2>1, AppendProperties DEF MsgOK
    <2>3. req' = req \/ req' = Append(req, Write("console_tx_data", Head(todo)))
      BY Zenon DEF Send
    <2>4. req' \in Seq(Requests) /\ slot' \in Seq(Requests) /\ rep' \in Seq(Answers)
      BY <1>1, <2>2, <2>3, Zenon DEF MsgOK, board
    <2>5. printed \in Nat /\ printed' \in Nat /\ printed <= printed' /\ unseen' \subseteq unseen
      BY <1>1, <1>2 DEF RxOK
    <2> QED BY <2>4, <2>5, MsgGrows
  <1> QED BY <1>6, <1>7, <1>8, SMTT(60)

\* Whatever arrives.
LEMMA ReceiveType == TypeInv /\ Receive => TypeInv'
  <1> SUFFICES ASSUME TypeInv, Receive PROVE TypeInv'
    OBVIOUS
  <1>1. Head(rep).val \in Words
    BY ReceiveCases DEF Answers
  <1>2. /\ Head(rep).val.err \in SUBSET Errors /\ Head(rep).val.full \in BOOLEAN
        /\ Head(rep).val.byte \in {<< >>} \cup {<< x >> : x \in 1 .. printed}
    BY <1>1 DEF Words
  <1>3. CASE UNCHANGED <<client, req, said>>
    <2>1. HostOK' /\ BoardOK' /\ RxOK'
      BY <1>3, ReceiveCases, Zenon DEF TypeInv, HostOK, BoardOK, RxOK, Popped, client, board, regs, said
    <2>2. req' \in Seq(Requests) /\ slot' \in Seq(Requests) /\ rep' \in Seq(Answers)
      BY <1>3, ReceiveCases, SMTT(60) DEF TypeInv, MsgOK, board
    <2>3. printed \in Nat /\ printed' \in Nat /\ printed <= printed' /\ unseen' \subseteq unseen
      BY <1>3, ReceiveCases DEF TypeInv, RxOK, said
    <2> QED BY <2>1, <2>2, <2>3, MsgGrows, SMTT(60) DEF TypeInv
  <1>4. CASE /\ tries' = 0
             /\ \/ CheckErrors(Head(rep).val.err)
                \/ Drain(Head(rep).val.byte)
                \/ Send(Head(rep).val.full)
    BY <1>2, <1>4, CheckErrorsType, DrainType, SendType
  <1> QED BY <1>3, <1>4, ReceiveCases

\* A frame is taken into an empty slot, dropped, or left.
LEMMA ServiceCases ==
  ASSUME TypeInv, udp_service
  PROVE  \/ req' = req /\ slot' = slot
         \/ req # << >> /\ req' = Tail(req) /\ slot = << >> /\ slot' = << Head(req) >>
         \/ req # << >> /\ req' = Tail(req) /\ slot # << >> /\ slot' = slot
  BY Zenon DEF udp_service, eb_rx_callback

\* The firmware receives, and serves nothing yet.
LEMMA ServiceType == TypeInv /\ (Service \/ ArpRefresh \/ Renew) => TypeInv'
  <1> SUFFICES ASSUME TypeInv, Service \/ ArpRefresh \/ Renew PROVE TypeInv'
    OBVIOUS
  <1>1. UNCHANGED <<client, rep, faults, regs, printed, typed, said>> /\ loop' \in {"serve", "arp", "service", "renew"}
        /\ (loop' = "renew" => loop = "renew" /\ slot' = slot)
    BY DEF Service, ArpRefresh, Renew
  <1>2. req # << >> => Head(req) \in Requests /\ Tail(req) \in Seq(Requests) /\ << Head(req) >> \in Seq(Requests)
        /\ Len(<< Head(req) >>) = 1
    <2> SUFFICES ASSUME req # << >>
                 PROVE  Head(req) \in Requests /\ Tail(req) \in Seq(Requests) /\ << Head(req) >> \in Seq(Requests)
                        /\ Len(<< Head(req) >>) = 1
      OBVIOUS
    <2>1. Head(req) \in Requests /\ Tail(req) \in Seq(Requests)
      BY HeadTailProperties DEF TypeInv, MsgOK
    <2>2. \A m \in Requests : << m >> \in Seq(Requests) /\ Len(<< m >>) = 1
      OBVIOUS
    <2> QED BY <2>1, <2>2, Zenon
  <1>3. req' \in Seq(Requests) /\ slot' \in Seq(Requests) /\ Len(slot') <= 1
    <2>1. req \in Seq(Requests) /\ slot \in Seq(Requests) /\ Len(slot) <= 1 /\ 1 <= 1
      BY DEF TypeInv, MsgOK, BoardOK
    <2>2. CASE udp_service
      BY <1>2, <2>1, <2>2, ServiceCases, Zenon
    <2>3. CASE slot' = slot /\ (req' = req \/ (req # << >> /\ req' = Tail(req)))
      BY <1>2, <2>1, <2>3, Zenon
    <2> QED BY <2>2, <2>3 DEF Service, ArpRefresh, Renew
  <1>4. HostOK' /\ RxOK'
    BY <1>1 DEF TypeInv, HostOK, RxOK, Popped, client, regs, said
  <1>5. BoardOK'
    BY <1>1, <1>3 DEF TypeInv, BoardOK, regs, said
  <1>6. MsgOK'
    <2>1. printed \in Nat /\ printed' \in Nat /\ printed <= printed' /\ unseen' \subseteq unseen /\ rep' \in Seq(Answers)
      BY <1>1, SMTT(60) DEF TypeInv, RxOK, said, MsgOK
    <2> QED BY <1>3, <2>1, MsgGrows
  <1> QED BY <1>4, <1>5, <1>6 DEF TypeInv

\* The four accesses.
LEMMA AccessCases ==
  ASSUME NEW m \in Requests, Access(m)
  PROVE  \/ m \in Reads /\ UNCHANGED <<rx, tx, err, unseen>>
         \/ m \in Pops /\ rx # << >> /\ rx' = Tail(rx) /\ UNCHANGED <<tx, err, unseen>>
         \/ m \in Pops /\ rx = << >> /\ Fault("rx_pop_when_empty")
         \/ m \in Bytes /\ Len(tx) # TX_DEPTH /\ tx' = Append(tx, m.val) /\ UNCHANGED <<rx, err, unseen>>
         \/ m \in Bytes /\ Len(tx) = TX_DEPTH /\ Fault("tx_write_when_full")
         \/ m \in Clears /\ err' = err \ m.val /\ UNCHANGED <<rx, tx, unseen>>
  <1>1. CASE m \in Reads
    BY <1>1, Zenon DEF Access, Reads
  <1>2. CASE m \in Pops
    BY <1>2, Zenon DEF Access, Pops
  <1>3. CASE m \in Bytes
    BY <1>3, Zenon DEF Access, Bytes
  <1>4. CASE m \in Clears
    BY <1>4, Zenon DEF Access, Clears
  <1> QED BY <1>1, <1>2, <1>3, <1>4 DEF Requests

\* A popped byte leaves the others.
LEMMA TailRx ==
  ASSUME RxOK, rx # << >>, rx' = Tail(rx), printed' = printed
  PROVE  RxOK' /\ Popped' = Popped + 1 /\ Popped \in Nat
  <1>1. Len(rx) \in Nat /\ Len(rx) >= 1 /\ rx' \in Seq(Nat) /\ Len(rx') = Len(rx) - 1
        /\ \A i \in 1 .. Len(rx') : rx'[i] = rx[i + 1]
    BY EmptySeq, HeadTailProperties DEF RxOK
  <1>2. Popped' = Popped + 1 /\ Popped \in Nat
    BY <1>1 DEF RxOK, Popped
  <1>3. ASSUME NEW i \in 1 .. Len(rx') PROVE rx'[i] = Popped' + i
    <2>1. rx'[i] = rx[i + 1] /\ i + 1 \in 1 .. Len(rx)
      BY <1>1
    <2>2. rx[i + 1] = Popped + (i + 1)
      BY <2>1 DEF RxOK
    <2> QED BY <1>2, <2>1, <2>2
  <1> QED BY <1>1, <1>2, <1>3 DEF RxOK

\* eb_serve_pending, in parts.
LEMMA ServeCases ==
  ASSUME TypeInv, eb_serve_pending
  PROVE  /\ slot' = << >> /\ loop' \in {"service", "arp", "renew"}
         /\ UNCHANGED <<client, req, consumed, printed, typed, stdout, claimed>>
         /\ \/ slot = << >> /\ UNCHANGED <<rep, rx, tx, err, unseen>>
            \/ /\ slot # << >> /\ slot = << slot[1] >> /\ slot[1] \in Requests
               /\ Access(slot[1]) /\ rep' = rep \o Answer(slot[1])
         /\ \/ loop' # "renew" /\ UNCHANGED faults
            \/ loop' = "renew" /\ faults' = [faults EXCEPT !.renew = @ + 1]
  <1>1. slot # << >> => Len(slot) = 1 /\ Head(slot) = slot[1] /\ slot[1] \in Requests
    <2> SUFFICES ASSUME slot # << >> PROVE Len(slot) = 1 /\ Head(slot) = slot[1] /\ slot[1] \in Requests
      OBVIOUS
    <2>1. slot \in Seq(Requests) /\ Len(slot) <= 1
      BY DEF TypeInv, BoardOK, MsgOK
    <2>2. Len(slot) = 1
      <3>1. Len(slot) \in Nat \ {0}
        BY <2>1, EmptySeq, Zenon
      <3> QED BY <2>1, <3>1, SMTT(60)
    <2>3. slot[1] \in Requests
      BY <2>1, <2>2, ElementOfSeq
    <2>4. Head(slot) = slot[1]
      BY <2>1
    <2> QED BY <2>2, <2>3, <2>4
  <1>2. slot # << >> => slot = << slot[1] >>
    <2> SUFFICES ASSUME slot # << >> PROVE slot = << slot[1] >>
      OBVIOUS
    <2>1. slot \in Seq(Requests)
      BY DEF TypeInv, MsgOK
    <2>2. << slot[1] >> \in Seq(Requests) /\ Len(<< slot[1] >>) = Len(slot)
      BY <1>1
    <2>3. \A i \in 1 .. Len(slot) : slot[i] = << slot[1] >>[i]
      BY <1>1
    <2> QED BY <2>1, <2>2, <2>3, SeqEqual
  <1>3. slot = << >> => UNCHANGED <<rep, slot, rx, tx, err, unseen>>
    BY DEF eb_serve_pending
  <1>4. slot # << >> => Access(slot[1]) /\ rep' = rep \o Answer(slot[1]) /\ slot' = << >>
    BY <1>1 DEF eb_serve_pending
  <1>5. /\ loop' \in {"service", "arp", "renew"} /\ UNCHANGED <<client, req, consumed, printed, typed, stdout, claimed>>
        /\ \/ loop' # "renew" /\ UNCHANGED faults
           \/ loop' = "renew" /\ faults' = [faults EXCEPT !.renew = @ + 1]
    BY DEF eb_serve_pending
  <1> QED BY <1>1, <1>2, <1>3, <1>4, <1>5, Zenon

\* A fault joins the ones not announced only when no clear under way names it,
\* so what is under way stays typed.
LEMMA FaultTyped ==
  ASSUME TypeInv, NEW e \in Errors, Fault(e)
  PROVE  req \in Seq(Requests')
  <1>1. UNCHANGED unseen \/ (unseen' = unseen \cup {e} /\ ~Clearing(e))
    BY Zenon DEF Fault
  <1>2. req \in Seq(Requests) /\ Len(req) \in Nat /\ DOMAIN req = 1 .. Len(req)
    BY LenProperties DEF TypeInv, MsgOK
  <1>3. CASE UNCHANGED unseen
    <2>1. Requests' = Requests
      BY <1>3, Zenon DEF Requests, Reads, Pops, Bytes, Clears
    <2> QED BY <1>2, <2>1, Zenon
  <1>4. CASE unseen' = unseen \cup {e} /\ ~Clearing(e)
    <2>1. ASSUME NEW i \in 1 .. Len(req) PROVE req[i] \in Requests'
      <3>1. req[i] \in Requests
        BY <1>2, ElementOfSeq
      <3>2. CASE req[i] \in Clears
        <4>1. e \notin req[i].val
          BY <1>2, <1>4, <3>2, Zenon DEF Clearing, Clears
        <4>2. req[i].val \in SUBSET (Errors \ unseen')
          <5>1. req[i].val \in SUBSET (Errors \ unseen)
            BY <3>2, Zenon DEF Clears
          <5> QED BY <1>4, <4>1, <5>1, Zenon
        <4>3. req[i] \in Clears'
          BY <3>2, <4>2 DEF Clears
        <4> QED BY <4>3, Zenon DEF Requests
      <3>3. CASE req[i] \in Reads \cup Pops \cup Bytes
        BY <3>3, Zenon DEF Requests, Reads, Pops, Bytes
      <3> QED BY <3>1, <3>2, <3>3, Zenon DEF Requests
    <2>2. \A S : (\A i \in 1 .. Len(req) : req[i] \in S) => req \in Seq(S)
      BY <1>2
    <2> QED BY <2>1, <2>2, Zenon
  <1> QED BY <1>1, <1>3, <1>4, Zenon

\* The firmware serves the slot: an access and, for a read, its answer.
LEMMA ServeType == TypeInv /\ eb_serve_pending => TypeInv'
  <1> SUFFICES ASSUME TypeInv, eb_serve_pending PROVE TypeInv'
    OBVIOUS
  <1>1. UNCHANGED <<client, req, consumed, printed, typed, stdout, claimed>> /\ slot' = << >>
    BY ServeCases
  <1>2. HostOK'
    BY <1>1 DEF TypeInv, HostOK, client, said
  <1>3. /\ faults' \in [lose : Nat, copy : Nat, swap : Nat, renew : Nat]
        /\ loop' \in {"service", "arp", "renew"} /\ (loop' = "renew" => faults'.renew > 0)
    <2>1. faults \in [lose : Nat, copy : Nat, swap : Nat, renew : Nat]
      BY DEF TypeInv, BoardOK
    <2>2. /\ loop' \in {"service", "arp", "renew"}
          /\ \/ loop' # "renew" /\ UNCHANGED faults
             \/ loop' = "renew" /\ faults' = [faults EXCEPT !.renew = @ + 1]
      BY ServeCases, Zenon
    <2> QED BY <2>1, <2>2
  <1>4. rep' \in Seq(Answers)
    <2>1. rep \in Seq(Answers) /\ RxOK /\ err \subseteq Errors
      BY DEF TypeInv, MsgOK, BoardOK
    <2>2. CASE slot # << >>
      <3>1. slot[1] \in Requests /\ rep' = rep \o Answer(slot[1])
        BY <2>2, ServeCases, Zenon
      <3>2. Answer(slot[1]) \in Seq(Answers)
        BY <2>1, <3>1, AnswerTypes
      <3> QED BY <2>1, <3>1, <3>2, ConcatProperties
    <2>3. CASE slot = << >>
      BY <2>1, <2>3, ServeCases, Zenon
    <2> QED BY <2>2, <2>3, Zenon
  <1>5. slot # << >> =>
          \/ slot[1] \in Reads /\ UNCHANGED <<rx, tx, err, unseen>>
          \/ rx # << >> /\ rx' = Tail(rx) /\ UNCHANGED <<tx, err, unseen>>
          \/ \E e \in Errors : Fault(e)
          \/ /\ slot[1] \in Bytes /\ Len(tx) # TX_DEPTH /\ tx' = Append(tx, slot[1].val)
             /\ UNCHANGED <<rx, err, unseen>>
          \/ slot[1] \in Clears /\ err' = err \ slot[1].val /\ UNCHANGED <<rx, tx, unseen>>
    <2>1. slot # << >> => slot[1] \in Requests /\ Access(slot[1])
      BY ServeCases, Zenon
    <2>2. "rx_pop_when_empty" \in Errors /\ "tx_write_when_full" \in Errors
      BY DEF Errors
    <2> QED BY <2>1, <2>2, AccessCases, ZenonT(60)
  <1>8. MsgOK'
    <2>1. req \in Seq(Requests) /\ req' = req /\ printed' = printed
      BY <1>1, Zenon DEF TypeInv, MsgOK
    <2>2. CASE UNCHANGED unseen
      <3>1. Requests' = Requests
        BY <2>2, Zenon DEF Requests, Reads, Pops, Bytes, Clears
      <3> QED BY <2>1, <3>1, <1>4, <1>1, EmptySeq DEF MsgOK, Answers, Words
    <2>3. CASE \E e \in Errors : Fault(e)
      <3>1. req' \in Seq(Requests')
        BY <2>1, <2>3, FaultTyped, Zenon
      <3>2. slot' \in Seq(Requests') /\ rep' \in Seq(Answers')
        BY <1>1, <1>4, <2>1, EmptySeq DEF Answers, Words
      <3> QED BY <3>1, <3>2 DEF MsgOK
    <2>4. slot = << >> => UNCHANGED unseen
      BY ServeCases, Zenon
    <2> QED BY <1>5, <2>2, <2>3, <2>4, Zenon
  <1>6. /\ tx' \in Seq(Nat) /\ Len(tx') <= TX_DEPTH /\ err' \subseteq Errors
        /\ unseen' \subseteq err' /\ RxOK'
    <2>1. /\ tx \in Seq(Nat) /\ Len(tx) <= TX_DEPTH /\ err \subseteq Errors
          /\ unseen \subseteq err /\ RxOK /\ printed' = printed
      BY <1>1 DEF TypeInv, BoardOK
    <2>2. rx' = rx => RxOK'
      BY <2>1 DEF RxOK, Popped
    <2>3. CASE slot = << >> \/ (slot[1] \in Reads /\ UNCHANGED <<rx, tx, err, unseen>>)
      BY <2>1, <2>2, <2>3, ServeCases
    <2>4. CASE rx # << >> /\ rx' = Tail(rx) /\ UNCHANGED <<tx, err, unseen>>
      BY <2>1, <2>4, TailRx
    <2>5. ASSUME NEW e \in Errors, Fault(e)
          PROVE  /\ tx' \in Seq(Nat) /\ Len(tx') <= TX_DEPTH /\ err' \subseteq Errors
                 /\ unseen' \subseteq err' /\ RxOK'
      BY <2>1, <2>2, <2>5, Zenon DEF Fault
    <2>6. CASE slot[1] \in Bytes /\ Len(tx) # TX_DEPTH /\ tx' = Append(tx, slot[1].val) /\ UNCHANGED <<rx, err, unseen>>
      <3>1. slot[1].val \in Nat
        BY <2>6, Zenon DEF Bytes
      <3>2. tx' \in Seq(Nat) /\ Len(tx') = Len(tx) + 1 /\ Len(tx) \in Nat
        BY <2>1, <2>6, <3>1, AppendProperties
      <3> QED BY <2>1, <2>2, <2>6, <3>2, SessionAssumption
    <2>7. CASE slot[1] \in Clears /\ err' = err \ slot[1].val /\ UNCHANGED <<rx, tx, unseen>>
      <3>1. slot[1].val \subseteq Errors \ unseen
        BY <2>7, Zenon DEF Clears
      <3> QED BY <2>1, <2>2, <2>7, <3>1
    <2> QED BY <1>5, <2>3, <2>4, <2>5, <2>6, <2>7, ZenonT(60)
  <1>7. BoardOK'
    <2>1. consumed' \in Seq(Nat) /\ Len(slot') = 0
      BY <1>1, EmptySeq DEF TypeInv, BoardOK
    <2> QED BY <1>1, <1>3, <1>6, <2>1 DEF BoardOK
  <1> QED BY <1>2, <1>6, <1>7, <1>8 DEF TypeInv

\* What the network does to a queue it does to its own counters.
LEMMA DisturbedCases ==
  ASSUME TypeInv, NEW S, NEW q \in Seq(S), NEW q2, Disturbed(q, q2)
  PROVE  /\ q2 \in Seq(S)
         /\ faults' \in [lose : Nat, copy : Nat, swap : Nat, renew : Nat]
         /\ faults'.renew = faults.renew
         /\ Sequenced' => Sequenced /\ \E i \in DOMAIN q : q2 = Lost(q, i)
         /\ ~Undisturbed'
  <1>1. faults \in [lose : Nat, copy : Nat, swap : Nat, renew : Nat]
    BY DEF TypeInv, BoardOK
  <1>2. faults' = [faults EXCEPT !.lose = @ + 1] => faults'.lose # 0 /\ UNCHANGED <<faults.copy, faults.swap, faults.renew>>
    BY <1>1
  <1>3. faults' = [faults EXCEPT !.copy = @ + 1] => faults'.copy # 0 /\ faults'.renew = faults.renew
    BY <1>1
  <1>4. faults' = [faults EXCEPT !.swap = @ + 1] => faults'.swap # 0 /\ faults'.renew = faults.renew
    BY <1>1
  <1>5. \/ faults' = [faults EXCEPT !.lose = @ + 1] /\ \E i \in DOMAIN q : q2 = Lost(q, i)
        \/ faults' = [faults EXCEPT !.copy = @ + 1] /\ \E i \in DOMAIN q : q2 = Copied(q, i)
        \/ /\ faults' = [faults EXCEPT !.swap = @ + 1]
           /\ \E i \in DOMAIN q : i > 1 /\ q2 = [q EXCEPT ![i - 1] = q[i], ![i] = q[i - 1]]
    BY Zenon DEF Disturbed
  <1>6. q2 \in Seq(S)
    <2>1. CASE \E i \in DOMAIN q : q2 = Lost(q, i)
      BY <2>1, LostFacts, Zenon
    <2>2. CASE \E i \in DOMAIN q : q2 = Copied(q, i)
      BY <2>2, CopiedFacts, Zenon
    <2>3. CASE \E i \in DOMAIN q : i > 1 /\ q2 = [q EXCEPT ![i - 1] = q[i], ![i] = q[i - 1]]
      BY <2>3, SwapFacts
    <2> QED BY <1>5, <2>1, <2>2, <2>3, Zenon
  <1>7. faults' \in [lose : Nat, copy : Nat, swap : Nat, renew : Nat]
    <2>1. CASE faults' = [faults EXCEPT !.lose = @ + 1]
      BY <1>1, <2>1
    <2>2. CASE faults' = [faults EXCEPT !.copy = @ + 1]
      BY <1>1, <2>2
    <2>3. CASE faults' = [faults EXCEPT !.swap = @ + 1]
      BY <1>1, <2>3
    <2> QED BY <1>5, <2>1, <2>2, <2>3, Zenon
  <1>8. ~Undisturbed'
    <2>1. DOMAIN faults' = {"lose", "copy", "swap", "renew"}
      BY <1>7
    <2> QED BY <1>2, <1>3, <1>4, <1>5, <2>1, Zenon DEF Undisturbed
  <1>9. Sequenced' => Sequenced /\ \E i \in DOMAIN q : q2 = Lost(q, i)
    BY <1>2, <1>3, <1>4, <1>5, Zenon DEF Sequenced
  <1> QED BY <1>2, <1>3, <1>4, <1>5, <1>6, <1>7, <1>8, <1>9, Zenon

\* A disturbed network keeps the types.
LEMMA DisturbType == TypeInv /\ Disturb => TypeInv'
  <1> SUFFICES ASSUME TypeInv, Disturb PROVE TypeInv'
    OBVIOUS
  <1>1. UNCHANGED <<client, board, regs, printed, typed, said>>
    BY DEF Disturb
  <1>2. HostOK' /\ RxOK'
    BY <1>1 DEF TypeInv, HostOK, RxOK, Popped, client, regs, said
  <1>3. req \in Seq(Requests) /\ slot \in Seq(Requests) /\ rep \in Seq(Answers)
    BY DEF TypeInv, MsgOK
  <1>4. /\ req' \in Seq(Requests) /\ rep' \in Seq(Answers) /\ faults'.renew = faults.renew
        /\ faults' \in [lose : Nat, copy : Nat, swap : Nat, renew : Nat]
    <2>1. CASE Disturbed(req, req') /\ UNCHANGED rep
      BY <1>3, <2>1, DisturbedCases
    <2>2. CASE Disturbed(rep, rep') /\ UNCHANGED req
      BY <1>3, <2>2, DisturbedCases
    <2> QED BY <2>1, <2>2 DEF Disturb
  <1>5. BoardOK'
    BY <1>1, <1>4, SMTT(60) DEF TypeInv, BoardOK, board, regs, said
  <1>6. MsgOK'
    <2>1. printed \in Nat /\ printed' \in Nat /\ printed <= printed' /\ unseen' \subseteq unseen
      BY <1>1 DEF TypeInv, RxOK, said
    <2>2. slot' \in Seq(Requests)
      BY <1>1, <1>3 DEF board
    <2> QED BY <1>4, <2>1, <2>2, MsgGrows
  <1> QED BY <1>2, <1>5, <1>6 DEF TypeInv

\* Every step keeps the types.
LEMMA TypeStep == TypeInv /\ Next => TypeInv'
  BY AttemptType, StillType, ReceiveType, ServiceType, ServeType, DisturbType, ZenonT(60) DEF Next, Step

\* A step that changes nothing keeps them.
LEMMA TypeStutter == TypeInv /\ UNCHANGED <<vars, scenario>> => TypeInv'
  <1> SUFFICES ASSUME TypeInv, UNCHANGED <<vars, scenario>> PROVE TypeInv'
    OBVIOUS
  <1>1. HostOK' /\ BoardOK' /\ RxOK'
    BY Zenon DEF TypeInv, HostOK, BoardOK, RxOK, Popped, vars, client, board, regs, said
  <1>2. MsgOK'
    BY DEF TypeInv, MsgOK, Requests, Reads, Pops, Bytes, Clears, Answers, Words, vars, board, said
  <1> QED BY <1>1, <1>2 DEF TypeInv

\* The types hold throughout.
THEOREM SessionInvariant == Spec => []TypeInv
  <1> QED BY TypeInit, TypeStep, TypeStutter, PTL DEF Spec

\* For all constants and networks: the client is in one place at a time, drain
\* stays within its bound, the slot holds one request and tx_fifo its depth.
THEOREM SessionTypes == Spec => []SessionTypeOK
  <1>1. TypeInv => SessionTypeOK
    BY ReadingFacts DEF TypeInv, HostOK, BoardOK, SessionTypeOK
  <1> QED BY <1>1, SessionInvariant, PTL

\* For all networks: a fault keeps its bit set until it is announced, unless it
\* repeats one whose clear is still under way.
THEOREM FaultSafety == Spec => []FaultsReported
  <1>1. TypeInv => FaultsReported
    BY DEF TypeInv, BoardOK, FaultsReported
  <1> QED BY <1>1, SessionInvariant, PTL

-----------------------------------------------------------------------------
(* The transcript never goes backwards, whatever the network does.         *)

\* The transcript is a sequence of numbers, and so are the counts.
LEMMA ReadSide ==
  ASSUME TypeInv
  PROVE  /\ Transcript \in Seq(Nat) /\ DOMAIN Transcript = 1 .. Len(Transcript) /\ Len(Transcript) \in Nat
         /\ Popped \in Nat /\ printed \in Nat /\ tries \in Nat
         /\ Len(rx) \in Nat /\ (rx # << >> => Head(rx) = Popped + 1 /\ Popped + 1 <= printed)
         /\ (rx = << >> => Popped = printed)
  <1>1. Transcript \in Seq(Nat)
    BY ConcatProperties DEF TypeInv, HostOK, Transcript
  <1>2. DOMAIN Transcript = 1 .. Len(Transcript) /\ Len(Transcript) \in Nat
    BY <1>1, LenProperties
  <1>3. printed \in Nat /\ Len(rx) \in Nat /\ Len(rx) <= printed /\ rx \in Seq(Nat)
    BY LenProperties DEF TypeInv, RxOK
  <1>4. Popped \in Nat /\ tries \in Nat
    BY <1>3, SessionAssumption DEF Popped, TypeInv, HostOK
  <1>5. rx # << >> => Head(rx) = Popped + 1 /\ Popped + 1 <= printed
    <2> SUFFICES ASSUME rx # << >> PROVE Head(rx) = Popped + 1 /\ Popped + 1 <= printed
      OBVIOUS
    <2>1. Len(rx) \in Nat \ {0}
      BY <1>3, EmptySeq, Zenon
    <2>2. Head(rx) = rx[1]
      BY <1>3
    <2>3. rx[1] = Popped + 1
      BY <2>1 DEF TypeInv, RxOK
    <2> QED BY <1>3, <2>1, <2>2, <2>3 DEF Popped
  <1>6. rx = << >> => Popped = printed
    BY <1>3, EmptySeq DEF Popped
  <1> QED BY <1>1, <1>2, <1>3, <1>4, <1>5, <1>6

\* drain adds what it read to the end of the transcript.
LEMMA DrainTranscript ==
  ASSUME TypeInv, NEW b \in Seq(Nat), Drain(b)
  PROVE  Transcript' = Transcript \o b
  <1>1. got \in Seq(Nat) /\ stdout \in Seq(Nat) /\ stdout \o got \in Seq(Nat)
    BY ConcatProperties DEF TypeInv, HostOK
  <1>2. (stdout \o got) \o b \in Seq(Nat)
    BY <1>1, ConcatProperties
  <1>3. CASE got' = got \o b /\ stdout' = stdout
    BY <1>1, <1>3, Joined, Zenon DEF Transcript
  <1>4. CASE got' = << >> /\ stdout' = (stdout \o got) \o b
    BY <1>2, <1>4, ConcatEmptySeq DEF Transcript
  <1> QED BY <1>3, <1>4, Zenon DEF Drain

\* A step appends to the transcript only the byte of a current reply.
LEMMA TranscriptStep ==
  ASSUME TypeInv, Next
  PROVE  \/ Transcript' = Transcript /\ tries' \in {tries, 0, tries + 1}
         \/ /\ Receive /\ tries > 0 /\ Head(rep).current /\ tries' = 0 /\ pc = "drain"
            /\ \E b \in 1 .. printed :
                 /\ Head(rep).val.byte = << b >> /\ Transcript' = Append(Transcript, b)
                 /\ req' = Append(req, Write("console_rx_pop", 1))
  <1>1. CASE Receive
    <2>1. Head(rep).val.byte \in {<< >>} \cup {<< x >> : x \in 1 .. printed}
      <3>1. Head(rep).val \in Words
        BY <1>1, ReceiveCases DEF Answers
      <3> QED BY <3>1 DEF Words
    <2>2. CASE UNCHANGED <<client, req, said>>
      BY <2>2 DEF client, said, Transcript
    <2>3. CASE tries' = 0 /\ (CheckErrors(Head(rep).val.err) \/ Send(Head(rep).val.full))
      BY <2>3, Zenon DEF CheckErrors, Send, Transcript
    <2>4. CASE pc \in DOMAIN Reading /\ tries > 0 /\ Head(rep).current /\ tries' = 0 /\ Drain(Head(rep).val.byte)
      <3>1. CASE Head(rep).val.byte = << >>
        <4>1. << >> \in Seq(Nat) /\ Transcript \o << >> = Transcript
          BY ReadSide, EmptySeq, ConcatEmptySeq
        <4>2. Transcript' = Transcript
          BY <2>4, <3>1, <4>1, DrainTranscript, Zenon
        <4> QED BY <2>4, <4>2
      <3>2. CASE \E b \in 1 .. printed : Head(rep).val.byte = << b >>
        <4>1. PICK b \in 1 .. printed : Head(rep).val.byte = << b >>
          BY <3>2
        <4>2. b \in Nat /\ << b >> \in Seq(Nat) /\ << b >> # << >>
          BY ReadSide
        <4>3. Transcript' = Transcript \o << b >>
          BY <2>4, <4>1, <4>2, DrainTranscript, Zenon
        <4>4. Transcript' = Append(Transcript, b)
          BY <4>2, <4>3, ReadSide, AppendIsConcat
        <4>5. pc = "drain" /\ req' = Append(req, Write("console_rx_pop", 1))
          BY <2>4, <4>1, <4>2, Zenon DEF Drain
        <4> QED BY <1>1, <2>4, <4>1, <4>4, <4>5
      <3> QED BY <2>1, <3>1, <3>2, Zenon
    <2> QED BY <1>1, <2>2, <2>3, <2>4, ReceiveCases, Zenon
  <1>2. CASE Attempt
    BY <1>2 DEF Attempt, said, Transcript
  <1>3. CASE GiveUp \/ Interrupt
    BY <1>3, SMTT(60) DEF GiveUp, Interrupt, said, Transcript
  <1>4. CASE Stdin
    BY <1>4 DEF Stdin, said, Transcript
  <1>5. CASE Service \/ ArpRefresh \/ Renew \/ eb_serve_pending \/ CorePrints \/ Transmit \/ Disturb
    <2>1. UNCHANGED <<client, stdout>>
      BY <1>5, Zenon DEF Service, ArpRefresh, Renew, eb_serve_pending, CorePrints, Transmit, Disturb, said
    <2> QED BY <2>1 DEF client, Transcript
  <1> QED BY <1>1, <1>2, <1>3, <1>4, <1>5, Zenon DEF Next, Step

\* A step pops at most one byte, and only to serve a pop.
LEMMA PoppedStep ==
  ASSUME TypeInv, Next
  PROVE  /\ printed' \in Nat /\ printed <= printed'
         /\ \/ Popped' = Popped
            \/ eb_serve_pending /\ slot # << >> /\ slot[1] \in Pops /\ Popped' = Popped + 1
  <1>1. CASE eb_serve_pending
    <2>1. printed' = printed
      BY <1>1, ServeCases
    <2>2. CASE rx' = rx
      BY <2>1, <2>2, ReadSide DEF Popped
    <2>3. CASE slot # << >> /\ slot[1] \in Pops /\ rx # << >> /\ rx' = Tail(rx)
      BY <1>1, <2>1, <2>3, TailRx, ReadSide DEF TypeInv
    <2>4. slot # << >> => slot[1] \in Requests /\ Access(slot[1])
      BY <1>1, ServeCases, Zenon
    <2>5. slot = << >> => rx' = rx
      BY <1>1, ServeCases, Zenon
    <2>6. CASE slot # << >>
      <3>1. rx' = rx \/ (slot[1] \in Pops /\ rx # << >> /\ rx' = Tail(rx))
        BY <2>4, <2>6, AccessCases DEF Fault
      <3> QED BY <2>2, <2>3, <2>6, <3>1, Zenon
    <2> QED BY <2>2, <2>5, <2>6, Zenon
  <1>2. CASE CorePrints
    <2>1. Len(rx') = Len(rx) + 1 /\ printed' = printed + 1
      BY <1>2 DEF CorePrints, TypeInv, RxOK
    <2> QED BY <2>1, ReadSide, SMTT(60) DEF Popped
  <1>3. CASE Transmit
    BY <1>3, ReadSide DEF Transmit, Popped
  <1>4. CASE Attempt \/ GiveUp \/ Receive \/ Stdin \/ Interrupt \/ Service \/ ArpRefresh \/ Renew \/ Disturb
    <2>1. UNCHANGED <<rx, printed>>
      BY <1>4, ZenonT(60) DEF Attempt, GiveUp, Receive, Stdin, Interrupt, Service, ArpRefresh, Renew, Disturb, regs
    <2> QED BY <2>1, ReadSide DEF Popped
  <1> QED BY <1>1, <1>2, <1>3, <1>4, Zenon DEF Next, Step

\* What was fresh stays fresh: the bytes read are the same, the bridge has
\* gone on, and no read has begun.
LEMMA FreshGrows ==
  ASSUME TypeInv, TypeInv', printed <= printed', Popped <= Popped', Transcript' = Transcript, tries' \in {tries, 0}
  PROVE  Fresh \subseteq Fresh'
  <1>1. Readable \subseteq Readable'
    <2>1. printed \in Nat /\ printed' \in Nat /\ Popped \in Nat /\ Popped' \in Nat
      BY ReadSide, SMTT(60) DEF TypeInv, RxOK, Popped
    <2>2. ASSUME NEW b \in Readable PROVE b \in Readable'
      <3>1. b \in 1 .. printed /\ b <= Popped + 1 /\ \A j \in DOMAIN Transcript : Transcript[j] <= b
        BY DEF Readable
      <3>2. b \in 1 .. printed'
        BY <2>1, <3>1
      <3>3. b <= Popped' + 1
        <4>1. \A x, y, z \in Nat : x <= y + 1 /\ y <= z => x <= z + 1
          OBVIOUS
        <4>2. b \in Nat
          BY <2>1, <3>1
        <4> QED BY <2>1, <3>1, <4>1, <4>2, Zenon
      <3> QED BY <3>1, <3>2, <3>3 DEF Readable
    <2> QED BY <2>2
  <1>2. Answers \subseteq Answers'
    BY StillTyped, ReadSide DEF TypeInv, RxOK
  <1>3. tries' > 0 => tries > 0
    BY DEF TypeInv, HostOK
  <1> QED BY <1>1, <1>2, <1>3 DEF Fresh

\* A sequence over a set is one over a larger set.
LEMMA SeqGrows == \A S, T : S \subseteq T => \A q \in Seq(S) : q \in Seq(T)
  BY SeqMonotonic

\* The answer to a request is an answer.
LEMMA ServedAnswer ==
  ASSUME TypeInv, NEW m \in Requests
  PROVE  [val |-> Value(m.reg), current |-> m.current] \in Answers
  <1>1. m.current \in BOOLEAN
    BY Zenon DEF Requests, Reads, Pops, Bytes, Clears
  <1>2. Value(m.reg) \in Words
    BY AnswerTypes DEF TypeInv, BoardOK
  <1> QED BY <1>1, <1>2 DEF Answers

\* What the board answers now is fresh.
LEMMA ServedFresh ==
  ASSUME TypeInv, OrderInv, NEW m \in Requests
  PROVE  [val |-> Value(m.reg), current |-> m.current] \in Fresh
  <1>1. [val |-> Value(m.reg), current |-> m.current] \in Answers
    BY ServedAnswer
  <1>2. rx # << >> => Head(rx) \in Readable
    <2> SUFFICES ASSUME rx # << >> PROVE Head(rx) \in Readable
      OBVIOUS
    <2>1. Head(rx) = Popped + 1 /\ Popped + 1 \in 1 .. printed /\ Popped + 1 <= Popped + 1
      BY ReadSide, SMTT(60)
    <2> QED BY <2>1 DEF Readable, OrderInv
  <1>3. Value(m.reg).byte \in {<< >>} \cup {<< b >> : b \in Readable}
    BY <1>2 DEF Value
  <1> QED BY <1>1, <1>3 DEF Fresh

\* Where replies come from: those under way, aged by an attempt, or the answer
\* of the board; so a set that holds these holds the replies of the next state.
LEMMA RepliesIn ==
  ASSUME TypeInv, Next, NEW S, NEW T, rep \in Seq(S),
         ~Attempt => S \subseteq T,
         Attempt => \A r \in S : [r EXCEPT !.current = FALSE] \in T,
         eb_serve_pending /\ slot # << >> /\ slot[1].op = "read" =>
           [val |-> Value(slot[1].reg), current |-> slot[1].current] \in T
  PROVE  rep' \in Seq(T)
  <1>1. CASE Attempt
    <2>1. \A i \in 1 .. Len(rep) : rep[i] \in S
      BY ElementOfSeq
    <2>2. rep' = Aged(rep) /\ Len(rep) \in Nat /\ DOMAIN rep = 1 .. Len(rep)
      BY <1>1, LenProperties DEF Attempt
    <2>3. rep' = [i \in 1 .. Len(rep) |-> [rep[i] EXCEPT !.current = FALSE]]
      BY <2>2 DEF Aged
    <2>4. \A i \in 1 .. Len(rep) : [rep[i] EXCEPT !.current = FALSE] \in T
      BY <1>1, <2>1, Zenon
    <2> QED BY <2>2, <2>3, <2>4, IsASeq, SMTT(60)
  <1>2. CASE ~Attempt
    <2>1. rep \in Seq(T)
      BY <1>2, SeqGrows, Zenon
    <2>2. CASE Receive
      BY <2>1, <2>2, HeadTailProperties DEF Receive
    <2>3. CASE Disturb
      BY <2>1, <2>3, DisturbedCases DEF Disturb
    <2>4. CASE GiveUp \/ Stdin \/ Interrupt \/ Service \/ ArpRefresh \/ Renew \/ CorePrints \/ Transmit
      BY <2>1, <2>4, ZenonT(60) DEF GiveUp, Stdin, Interrupt, Service, ArpRefresh, Renew, CorePrints, Transmit
    <2>5. CASE eb_serve_pending
      <3>1. CASE slot = << >>
        BY <2>1, <2>5, <3>1, ServeCases, Zenon
      <3>2. CASE slot # << >>
        <4>1. rep' = rep \o Answer(slot[1])
          BY <2>5, <3>2, ServeCases, Zenon
        <4>2. << >> \in Seq(T) /\ \A r \in T : << r >> \in Seq(T)
          OBVIOUS
        <4>3. Answer(slot[1]) \in Seq(T)
          BY <2>5, <3>2, <4>2, Zenon DEF Answer
        <4> QED BY <2>1, <4>1, <4>3, ConcatProperties, SMTT(60)
      <3> QED BY <3>1, <3>2, Zenon
    <2> QED BY <1>2, <2>2, <2>3, <2>4, <2>5, Zenon DEF Next, Step
  <1> QED BY <1>1, <1>2, Zenon

\* Only an attempt makes a read wait.
LEMMA TriesStep == TypeInv /\ Next => Attempt \/ tries' = 0 \/ (tries' = tries /\ (tries > 0 => pc' = pc))
  <1> SUFFICES ASSUME TypeInv, Next PROVE Attempt \/ tries' = 0 \/ (tries' = tries /\ (tries > 0 => pc' = pc))
    OBVIOUS
  <1>1. CASE Receive
    BY <1>1, Zenon DEF Receive, client
  <1>2. CASE Stdin
    BY <1>2 DEF Stdin, TypeInv, HostOK
  <1>3. CASE GiveUp \/ Interrupt
    BY <1>3, Zenon DEF GiveUp, Interrupt
  <1>4. CASE Service \/ ArpRefresh \/ Renew \/ eb_serve_pending \/ CorePrints \/ Transmit \/ Disturb
    BY <1>4, ZenonT(60) DEF Service, ArpRefresh, Renew, eb_serve_pending, CorePrints, Transmit, Disturb, client
  <1> QED BY <1>1, <1>2, <1>3, <1>4, Zenon DEF Next, Step

\* The replies under way after a step that adds nothing to the transcript.
LEMMA FreshStep ==
  ASSUME TypeInv, TypeInv', OrderInv, Next, Transcript' = Transcript
  PROVE  rep' \in Seq(Fresh')
  <1>1. rep \in Seq(Fresh) /\ rep' \in Seq(Answers')
    BY DEF OrderInv, TypeInv, MsgOK
  <1>2. printed <= printed' /\ Popped <= Popped'
    BY PoppedStep, ReadSide
  <1>3. CASE tries' = 0
    <2>1. Answers' \subseteq Fresh'
      BY <1>3 DEF Fresh
    <2> QED BY <1>1, <2>1, SeqGrows, Zenon
  <1>4. CASE Attempt
    <2>1. \A r \in Fresh : [r EXCEPT !.current = FALSE] \in Fresh'
      <3>1. printed' = printed
        BY <1>4 DEF Attempt
      <3> QED BY <3>1, Zenon DEF Answers, Words, Fresh
    <2>2. ~eb_serve_pending
      BY <1>4, ServeCases, ReadSide DEF Attempt, client
    <2> QED BY <1>1, <1>4, <2>1, <2>2, RepliesIn, Zenon
  <1>5. CASE tries' = tries /\ ~Attempt
    <2>1. Fresh \subseteq Fresh'
      BY <1>2, <1>5, FreshGrows
    <2>2. eb_serve_pending /\ slot # << >> => [val |-> Value(slot[1].reg), current |-> slot[1].current] \in Fresh'
      <3> SUFFICES ASSUME eb_serve_pending, slot # << >>
                   PROVE  [val |-> Value(slot[1].reg), current |-> slot[1].current] \in Fresh
        BY <2>1
      <3>1. slot[1] \in Requests
        BY ServeCases, Zenon
      <3> QED BY <3>1, ServedFresh
    <2> QED BY <1>1, <1>5, <2>1, <2>2, RepliesIn
  <1> QED BY <1>3, <1>4, <1>5, TriesStep, Zenon

\* Every step keeps the order.
LEMMA OrderStep == TypeInv /\ TypeInv' /\ OrderInv /\ Next => OrderInv'
  <1> SUFFICES ASSUME TypeInv, TypeInv', OrderInv, Next PROVE OrderInv'
    OBVIOUS
  <1>1. printed' \in Nat /\ printed <= printed' /\ Popped <= Popped' /\ Popped \in Nat /\ Popped' \in Nat
    BY PoppedStep, ReadSide
  <1>2. /\ Transcript \in Seq(1 .. printed) /\ TranscriptInOrder
        /\ \A i \in DOMAIN Transcript : Transcript[i] <= Popped + 1
    BY DEF OrderInv
  <1>3. 1 .. printed \subseteq 1 .. printed'
    BY <1>1, ReadSide
  <1>4. \A x \in Nat : x <= Popped + 1 => x <= Popped' + 1
    <2>1. \A a, b, x \in Nat : a <= b /\ x <= a + 1 => x <= b + 1
      OBVIOUS
    <2> QED BY <1>1, <2>1, Zenon
  <1>5. DOMAIN Transcript = 1 .. Len(Transcript) /\ \A i \in DOMAIN Transcript : Transcript[i] \in Nat
    BY ReadSide, ElementOfSeq
  <1>6. CASE Transcript' = Transcript
    <2>1. Transcript' \in Seq(1 .. printed')
      BY <1>2, <1>3, <1>6, SeqGrows, Zenon
    <2>2. \A i \in DOMAIN Transcript' : Transcript'[i] <= Popped' + 1
      BY <1>2, <1>6, <1>4, <1>5, Zenon
    <2>3. TranscriptInOrder'
      BY <1>2, <1>6 DEF TranscriptInOrder
    <2>4. rep' \in Seq(Fresh')
      BY <1>6, FreshStep
    <2> QED BY <2>1, <2>2, <2>3, <2>4 DEF OrderInv
  <1>7. CASE /\ Receive /\ tries > 0 /\ Head(rep).current /\ tries' = 0
             /\ \E b \in 1 .. printed : Head(rep).val.byte = << b >> /\ Transcript' = Append(Transcript, b)
    <2>1. PICK b \in 1 .. printed : Head(rep).val.byte = << b >> /\ Transcript' = Append(Transcript, b)
      BY <1>7
    <2>2. Head(rep) \in Fresh
      BY <1>7, HeadTailProperties DEF OrderInv, Receive
    <2>3. b <= Popped + 1 /\ \A j \in DOMAIN Transcript : Transcript[j] <= b
      <3>1. << b >> \in {<< >>} \cup {<< x >> : x \in Readable}
        BY <1>7, <2>1, <2>2, Zenon DEF Fresh
      <3>2. b \in Readable
        BY <3>1
      <3> QED BY <3>2 DEF Readable
    <2> DEFINE t == Transcript
    <2>4. /\ Len(Transcript') = Len(t) + 1 /\ Transcript' \in Seq(1 .. printed) /\ Len(t) \in Nat
          /\ \A i \in 1 .. Len(t) : Transcript'[i] = t[i]
          /\ Transcript'[Len(t) + 1] = b
      BY <1>2, <2>1, ReadSide, AppendProperties
    <2>5. Transcript' \in Seq(1 .. printed') /\ DOMAIN Transcript' = 1 .. Len(t) + 1
      BY <1>3, <2>4, SeqGrows, LenProperties, Zenon
    <2>6. \A i \in DOMAIN Transcript' : Transcript'[i] <= Popped' + 1
      <3> SUFFICES ASSUME NEW i \in 1 .. Len(t) + 1 PROVE Transcript'[i] <= Popped' + 1
        BY <2>5
      <3>1. CASE i = Len(t) + 1
        BY <1>4, <2>3, <2>4, <3>1
      <3>2. CASE i # Len(t) + 1
        <4>1. i \in 1 .. Len(t)
          BY <2>4, <3>2
        <4>2. Transcript'[i] = Transcript[i]
          BY <2>4, <4>1, Zenon
        <4> QED BY <1>2, <1>4, <1>5, <4>1, <4>2, Zenon
      <3> QED BY <3>1, <3>2, Zenon
    <2>7. TranscriptInOrder'
      <3> SUFFICES ASSUME NEW i \in 1 .. Len(t) + 1, i > 1 PROVE Transcript'[i - 1] <= Transcript'[i]
        BY <2>5 DEF TranscriptInOrder
      <3>1. CASE i = Len(t) + 1
        <4>1. i - 1 \in 1 .. Len(t) /\ i - 1 \in DOMAIN Transcript
          BY <2>4, <3>1, ReadSide
        <4>2. Transcript'[i - 1] = Transcript[i - 1] /\ Transcript'[i] = b
          BY <2>4, <3>1, <4>1, Zenon
        <4> QED BY <2>3, <4>1, <4>2, Zenon
      <3>2. CASE i # Len(t) + 1
        <4>1. i \in 1 .. Len(t) /\ i - 1 \in 1 .. Len(t)
          BY <2>4, <3>2
        <4>2. Transcript'[i - 1] = t[i - 1] /\ Transcript'[i] = t[i]
          BY <2>4, <4>1, Zenon
        <4> QED BY <1>2, <4>1, <4>2, ReadSide, Zenon DEF TranscriptInOrder
      <3> QED BY <3>1, <3>2, Zenon
    <2>8. rep' \in Seq(Fresh')
      <3>1. Answers' \subseteq Fresh'
        BY <1>7 DEF Fresh
      <3>2. rep' \in Seq(Answers')
        BY DEF TypeInv, MsgOK
      <3> QED BY <3>1, <3>2, SeqGrows, Zenon
    <2> QED BY <2>5, <2>6, <2>7, <2>8, SMTT(60) DEF OrderInv
  <1> QED BY <1>6, <1>7, TranscriptStep, Zenon

\* It starts empty, and a step that changes nothing keeps it.
LEMMA OrderInit == Init => OrderInv
  <1> SUFFICES ASSUME Init PROVE OrderInv
    OBVIOUS
  <1>1. Transcript = << >> /\ rep = << >>
    BY DEF Init, Transcript
  <1> QED BY <1>1 DEF OrderInv, TranscriptInOrder

\* A step that changes nothing keeps the order.
LEMMA OrderStutter == OrderInv /\ UNCHANGED <<vars, scenario>> => OrderInv'
  BY ZenonT(60) DEF OrderInv, TranscriptInOrder, Transcript, Fresh, Readable, Answers, Words, Popped,
         vars, client, regs, said

\* The order holds throughout.
THEOREM OrderInvariant == Spec => []OrderInv
  <1> QED BY OrderInit, OrderStep, OrderStutter, SessionInvariant, PTL DEF Spec

\* For every network: no old reply is taken for the current one, and the
\* transcript never goes backwards.
THEOREM TranscriptOrder == Spec => []TranscriptInOrder
  <1>1. OrderInv => TranscriptInOrder
    BY DEF OrderInv
  <1> QED BY <1>1, OrderInvariant, PTL

-----------------------------------------------------------------------------
(* Datagrams that keep their order.                                        *)

\* One datagram fewer: served, discarded or lost.
Shorter(q, q2) ==
  /\ Len(q) \in Nat /\ Len(q) > 0 /\ Len(q2) = Len(q) - 1
  /\ \A j \in 1 .. Len(q2) : q2[j] = q[j] \/ q2[j] = q[j + 1]

\* A move of the board or of the network that leaves the line in order.
InLine(q, s, p, q2, s2, p2) ==
  /\ Lined(q2, s2, p2)
  /\ NoneCurrent(q, s, p) => NoneCurrent(q2, s2, p2)
  /\ \A reg : CurrentFor(q, s, reg) => CurrentFor(q2, s2, reg)

\* A lost datagram and a received one shorten the line they were in.
LEMMA ShorterFacts ==
  \A S : \A q \in Seq(S) :
    /\ \A i \in DOMAIN q : Shorter(q, Lost(q, i))
    /\ q # << >> => Shorter(q, Tail(q))
  <1> TAKE S
  <1> TAKE q \in Seq(S)
  <1>1. Len(q) \in Nat /\ DOMAIN q = 1 .. Len(q)
    BY LenProperties
  <1>2. ASSUME NEW i \in DOMAIN q PROVE Shorter(q, Lost(q, i))
    <2>1. /\ Len(Lost(q, i)) = Len(q) - 1
          /\ \A j \in 1 .. Len(q) - 1 : Lost(q, i)[j] = IF j < i THEN q[j] ELSE q[j + 1]
      BY LostFacts, Zenon
    <2>2. \A j \in 1 .. Len(q) - 1 : Lost(q, i)[j] = q[j] \/ Lost(q, i)[j] = q[j + 1]
      BY <2>1, Zenon
    <2>3. Len(q) > 0
      BY <1>1
    <2> QED BY <1>1, <2>1, <2>2, <2>3, Zenon DEF Shorter
  <1>3. ASSUME q # << >> PROVE Shorter(q, Tail(q))
    <2>1. Len(q) \in Nat \ {0}
      BY <1>3, EmptySeq, Zenon
    <2>2. Len(Tail(q)) = Len(q) - 1 /\ \A j \in 1 .. Len(Tail(q)) : Tail(q)[j] = q[j + 1]
      BY <1>3, HeadTailProperties
    <2> QED BY <2>1, <2>2 DEF Shorter
  <1> QED BY <1>2, <1>3

\* A request leaves the queue without reaching the slot.
LEMMA LineDrop ==
  ASSUME NEW q, NEW s, NEW p, NEW q2, Lined(q, s, p), Shorter(q, q2), q # << >>
  PROVE  InLine(q, s, p, q2, s, p)
  <1>1. \A j \in 1 .. Len(q2) : /\ j \in 1 .. Len(q) /\ j + 1 \in 1 .. Len(q) /\ j # Len(q) /\ j + 1 # 1
                                /\ (j + 1 = Len(q) => j = Len(q2))
    BY DEF Shorter
  <1>2. \A j \in 1 .. Len(q2) : \E k \in 1 .. Len(q) :
          q2[j] = q[k] /\ (k = 1 => j = 1) /\ (k = Len(q) => j = Len(q2))
    BY <1>1, Zenon DEF Shorter
  <1>3. Lined(q2, s, p)
    BY <1>2, ZenonT(60) DEF Lined
  <1>4. NoneCurrent(q, s, p) => NoneCurrent(q2, s, p)
    BY <1>2, Zenon DEF NoneCurrent
  <1>5. ASSUME NEW reg, CurrentFor(q, s, reg) PROVE CurrentFor(q2, s, reg)
    <2>1. ASSUME NEW j \in 1 .. Len(q2), q2[j].current PROVE q2[j].reg = reg
      <3>1. PICK k \in 1 .. Len(q) : q2[j] = q[k]
        BY <1>2, Zenon
      <3> QED BY <1>5, <2>1, <3>1, Zenon DEF CurrentFor
    <2> QED BY <1>5, <2>1, Zenon DEF CurrentFor
  <1> QED BY <1>3, <1>4, <1>5, Zenon DEF InLine

\* A reply is received or lost.
LEMMA LineDropReply ==
  ASSUME NEW q, NEW s, NEW p, NEW p2, Lined(q, s, p), Shorter(p, p2)
  PROVE  InLine(q, s, p, q, s, p2)
  <1>1. \A j \in 1 .. Len(p2) : \E k \in 1 .. Len(p) : p2[j] = p[k] /\ (k = Len(p) => j = Len(p2))
    <2>1. \A j \in 1 .. Len(p2) : /\ j \in 1 .. Len(p) /\ j + 1 \in 1 .. Len(p) /\ j # Len(p)
                                  /\ (j + 1 = Len(p) => j = Len(p2))
      BY DEF Shorter
    <2> QED BY <2>1, Zenon DEF Shorter
  <1>2. Lined(q, s, p2)
    BY <1>1, ZenonT(60) DEF Lined
  <1>3. NoneCurrent(q, s, p) => NoneCurrent(q, s, p2)
    BY <1>1, Zenon DEF NoneCurrent
  <1> QED BY <1>2, <1>3, Zenon DEF InLine

\* The first request is taken into the empty slot.
LEMMA LineTake ==
  ASSUME NEW S, NEW q \in Seq(S), NEW p, Lined(q, << >>, p), q # << >>
  PROVE  InLine(q, << >>, p, Tail(q), << Head(q) >>, p)
  <1> DEFINE t == Tail(q)
             h == << Head(q) >>
  <1>1. /\ Len(q) \in Nat \ {0} /\ Len(t) = Len(q) - 1 /\ Head(q) = q[1]
        /\ \A j \in 1 .. Len(t) : t[j] = q[j + 1]
    <2>1. Len(q) \in Nat \ {0}
      BY EmptySeq, Zenon
    <2>2. Head(q) = q[1]
      OBVIOUS
    <2>3. Len(Tail(q)) = Len(q) - 1 /\ \A j \in 1 .. Len(Tail(q)) : Tail(q)[j] = q[j + 1]
      BY HeadTailProperties
    <2> QED BY <2>1, <2>2, <2>3, Zenon
  <1>2. 1 = Len(q) => t = << >>
    <2>1. Tail(q) \in Seq(S)
      BY HeadTailProperties
    <2>2. Tail(q) # << >> => Len(Tail(q)) \in Nat \ {0}
      BY <2>1, EmptySeq, Zenon
    <2>3. 1 = Len(q) => Len(Tail(q)) \notin Nat \ {0}
      BY <1>1
    <2> QED BY <2>2, <2>3, Zenon
  <1>3. Len(h) = 1 /\ h[1] = q[1] /\ Len(<< >>) = 0
    BY <1>1
  <1> HIDE DEF t, h
  <1>4. \A j \in 1 .. Len(t) : \E k \in 1 .. Len(q) : t[j] = q[k] /\ k # 1 /\ (k = Len(q) => j = Len(t))
    BY <1>1
  <1>5. 1 \in 1 .. Len(q) /\ (\A i \in 1 .. Len(h) : h[i] = q[1]) /\ (\A i \in 1 .. Len(<< >>) : FALSE)
    BY <1>1, <1>3
  <1>6. Lined(t, h, p)
    <2>1. \A i \in 1 .. Len(t) : t[i].op # "write"
      BY <1>4, Zenon DEF Lined
    <2>2. \A i \in 1 .. Len(t) : t[i].current => i = Len(t) /\ t[i].op = "read"
      BY <1>4, ZenonT(60) DEF Lined
    <2>3. \A i \in 1 .. Len(h) : h[i].current => t = << >> /\ h[i].op = "read"
      BY <1>2, <1>5, Zenon DEF Lined
    <2>4. \A i \in 1 .. Len(p) : ~p[i].current
      BY Zenon DEF Lined
    <2> QED BY <2>1, <2>2, <2>3, <2>4, Zenon DEF Lined
  <1>7. NoneCurrent(q, << >>, p) => NoneCurrent(t, h, p)
    BY <1>4, <1>5, Zenon DEF NoneCurrent
  <1>8. ASSUME NEW reg, CurrentFor(q, << >>, reg) PROVE CurrentFor(t, h, reg)
    <2>1. ASSUME NEW j \in 1 .. Len(t), t[j].current PROVE t[j].reg = reg
      <3>1. PICK k \in 1 .. Len(q) : t[j] = q[k]
        BY <1>4, Zenon
      <3> QED BY <1>8, <2>1, <3>1, Zenon DEF CurrentFor
    <2>2. ASSUME NEW j \in 1 .. Len(h), h[j].current PROVE h[j].reg = reg
      BY <1>5, <1>8, <2>2, Zenon DEF CurrentFor
    <2> QED BY <2>1, <2>2, Zenon DEF CurrentFor
  <1> QED BY <1>6, <1>7, <1>8, Zenon DEF InLine, t, h

\* The slot is served; a reply to a current read is the last.
LEMMA LineServe ==
  ASSUME NEW q, NEW m, NEW S, NEW p \in Seq(S), NEW a \in Seq(S), Lined(q, << m >>, p),
         a = << >> \/ (Len(a) = 1 /\ a[1].current = m.current)
  PROVE  InLine(q, << m >>, p, q, << >>, p \o a)
  <1>1. Len(<< m >>) = 1 /\ << m >>[1] = m /\ << m >> # << >> /\ 1 \in 1 .. 1 /\ Len(<< >>) = 0
        /\ \A i \in 1 .. 0 : FALSE
    OBVIOUS
  <1>2. Len(p \o a) = Len(p) + Len(a)
        /\ \A i \in 1 .. Len(p) + Len(a) : (p \o a)[i] = IF i <= Len(p) THEN p[i] ELSE a[i - Len(p)]
    BY ConcatProperties
  <1>3. Len(p) \in Nat /\ Len(a) \in Nat
    BY LenProperties
  <1>4. \A i \in 1 .. Len(p \o a) : \/ i \in 1 .. Len(p) /\ (p \o a)[i] = p[i]
                                    \/ i = Len(p \o a) /\ (p \o a)[i].current = m.current
    <2>1. CASE a = << >>
      <3>1. Len(a) = 0
        BY <2>1
      <3>2. \A i \in 1 .. Len(p \o a) : i \in 1 .. Len(p) /\ i \in 1 .. Len(p) + Len(a) /\ i <= Len(p)
        BY <1>2, <1>3, <3>1
      <3> QED BY <1>2, <3>2, Zenon
    <2>2. CASE Len(a) = 1 /\ a[1].current = m.current
      BY <1>2, <1>3, <2>2
    <2> QED BY <2>1, <2>2
  <1>5. Lined(q, << >>, p \o a)
    BY <1>1, <1>4, ZenonT(60) DEF Lined
  <1>6. NoneCurrent(q, << m >>, p) => NoneCurrent(q, << >>, p \o a)
    BY <1>1, <1>4, ZenonT(60) DEF NoneCurrent
  <1>7. \A reg : CurrentFor(q, << m >>, reg) => CurrentFor(q, << >>, reg)
    BY <1>1, Zenon DEF CurrentFor
  <1> QED BY <1>5, <1>6, <1>7, Zenon DEF InLine

\* The network's counters only grow, and a renewal is counted.
LEMMA FaultsGrow ==
  ASSUME TypeInv, Next
  PROVE  /\ Sequenced' => Sequenced
         /\ Undisturbed' => Undisturbed /\ Sequenced /\ faults' = faults /\ ~Disturb /\ ~Renew
  <1>1. /\ faults \in [lose : Nat, copy : Nat, swap : Nat, renew : Nat]
        /\ DOMAIN faults = {"lose", "copy", "swap", "renew"}
        /\ loop = "renew" => faults.renew > 0
    BY DEF TypeInv, BoardOK
  <1>2. Undisturbed => Sequenced /\ loop # "renew"
    BY <1>1 DEF Undisturbed, Sequenced
  <1>3. CASE Disturb
    <2>1. req \in Seq(Requests) /\ rep \in Seq(Answers)
      BY DEF TypeInv, MsgOK
    <2>2. (Sequenced' => Sequenced) /\ ~Undisturbed'
      BY <1>3, <2>1, DisturbedCases DEF Disturb
    <2> QED BY <2>2
  <1>4. CASE faults' = faults /\ ~Disturb
    BY <1>2, <1>4 DEF Sequenced, Undisturbed, Renew
  <1>5. CASE faults' = [faults EXCEPT !.renew = @ + 1]
    <2>1. faults'.copy = faults.copy /\ faults'.swap = faults.swap /\ faults'.renew # 0 /\ DOMAIN faults' = DOMAIN faults
      BY <1>1, <1>5
    <2> QED BY <1>1, <2>1 DEF Sequenced, Undisturbed
  <1>6. Disturb \/ faults' = faults \/ faults' = [faults EXCEPT !.renew = @ + 1]
    <2>1. CASE eb_serve_pending
      BY <2>1, ServeCases
    <2>2. CASE Attempt \/ GiveUp \/ Receive \/ Stdin \/ Interrupt \/ Service \/ ArpRefresh \/ Renew \/ CorePrints \/ Transmit
      BY <2>2, ZenonT(60) DEF Attempt, GiveUp, Receive, Stdin, Interrupt, Service, ArpRefresh, Renew, CorePrints, Transmit
    <2> QED BY <2>1, <2>2, Zenon DEF Next, Step
  <1> QED BY <1>3, <1>4, <1>5, <1>6, Zenon

\* The board and a network that keeps the order leave the line in order.
LEMMA LineMoves ==
  ASSUME TypeInv, Next, Sequenced', Lined(req, slot, rep),
         Service \/ ArpRefresh \/ Renew \/ eb_serve_pending \/ CorePrints \/ Transmit \/ Disturb
  PROVE  InLine(req, slot, rep, req', slot', rep')
  <1>1. req \in Seq(Requests) /\ slot \in Seq(Requests) /\ rep \in Seq(Answers)
    BY DEF TypeInv, MsgOK
  <1>2. CASE req' = req /\ slot' = slot /\ rep' = rep
    BY <1>2 DEF InLine
  <1>3. CASE req # << >> /\ req' = Tail(req) /\ slot' = slot /\ rep' = rep
    BY <1>1, <1>3, ShorterFacts, LineDrop
  <1>4. CASE req # << >> /\ req' = Tail(req) /\ slot = << >> /\ slot' = << Head(req) >> /\ rep' = rep
    <2>1. Lined(req, << >>, rep)
      BY <1>4
    <2>2. InLine(req, << >>, rep, Tail(req), << Head(req) >>, rep)
      BY <1>1, <1>4, <2>1, LineTake, SMTT(60)
    <2> QED BY <1>4, <2>2, Zenon
  <1>5. CASE Service \/ ArpRefresh
    BY <1>2, <1>3, <1>4, <1>5, ServiceCases, Zenon DEF Service, ArpRefresh
  <1>6. CASE Renew
    <2>1. slot' = slot /\ rep' = rep /\ (req' = req \/ (req # << >> /\ req' = Tail(req)))
      BY <1>6 DEF Renew
    <2> QED BY <1>2, <1>3, <2>1, Zenon
  <1>7. CASE eb_serve_pending
    <2>1. req' = req /\ slot' = << >>
      BY <1>7, ServeCases
    <2>2. CASE slot = << >>
      <3>1. rep' = rep
        BY <1>7, <2>2, ServeCases, Zenon
      <3> QED BY <1>2, <2>1, <2>2, <3>1, SMTT(60)
    <2>3. CASE slot # << >>
      <3> DEFINE m == slot[1]
      <3>1. slot = << m >> /\ m \in Requests /\ rep' = rep \o Answer(m)
        BY <1>7, <2>3, ServeCases, Zenon
      <3>2. Answer(m) \in Seq(Answers)
        BY <3>1, AnswerTypes, SMTT(30) DEF TypeInv, BoardOK
      <3>3. Answer(m) = << >> \/ (Len(Answer(m)) = 1 /\ Answer(m)[1].current = m.current)
        BY DEF Answer
      <3> HIDE DEF m
      <3>4. Lined(req, << m >>, rep)
        BY <3>1
      <3>5. InLine(req, << m >>, rep, req, << >>, rep \o Answer(m))
        BY <1>1, <3>2, <3>3, <3>4, LineServe, SMTT(60)
      <3> QED BY <2>1, <3>1, <3>5, Zenon
    <2> QED BY <2>2, <2>3, Zenon
  <1>8. CASE CorePrints \/ Transmit
    BY <1>2, <1>8, Zenon DEF CorePrints, Transmit, board
  <1>9. CASE Disturb
    <2>1. slot' = slot
      BY <1>9 DEF Disturb, board
    <2>2. CASE Disturbed(req, req') /\ UNCHANGED rep
      <3>1. PICK i \in DOMAIN req : req' = Lost(req, i)
        BY <1>1, <2>2, DisturbedCases
      <3>2. Shorter(req, req')
        BY <1>1, <3>1, ShorterFacts, Zenon
      <3>3. req # << >>
        BY <3>1
      <3> QED BY <2>1, <2>2, <3>2, <3>3, LineDrop, SMTT(60)
    <2>3. CASE Disturbed(rep, rep') /\ UNCHANGED req
      <3>1. PICK i \in DOMAIN rep : rep' = Lost(rep, i)
        BY <1>1, <2>3, DisturbedCases
      <3>2. Shorter(rep, rep')
        BY <1>1, <3>1, ShorterFacts, Zenon
      <3> QED BY <2>1, <2>3, <3>2, LineDropReply, SMTT(60)
    <2> QED BY <1>9, <2>2, <2>3 DEF Disturb
  <1> QED BY <1>5, <1>6, <1>7, <1>8, <1>9, Zenon

\* A new attempt is the last request, and the only current datagram.
LEMMA LineAttempt ==
  ASSUME TypeInv, Attempt, Lined(req, slot, rep)
  PROVE  Lined(req', slot', rep') /\ CurrentFor(req', slot', Reading[pc'])
  <1>1. req \in Seq(Requests) /\ slot \in Seq(Requests) /\ rep \in Seq(Answers)
    BY DEF TypeInv, MsgOK
  <1>2. \A m \in Requests : [m EXCEPT !.current = FALSE].op = m.op /\ [m EXCEPT !.current = FALSE].current = FALSE
    BY DEF Requests, Reads, Pops, Bytes, Clears
  <1>3. \A r \in Answers : [r EXCEPT !.current = FALSE].current = FALSE
    BY DEF Answers
  <1> DEFINE n == Read(Reading[pc])
  <1>4. n.op = "read" /\ n.reg = Reading[pc] /\ pc' = pc
    BY DEF Read, Attempt
  <1>5. \A i \in 1 .. Len(slot') : slot'[i].current = FALSE
    <2>1. slot' = Aged(slot) /\ Len(slot') = Len(slot)
          /\ \A i \in 1 .. Len(slot) : Aged(slot)[i] = [slot[i] EXCEPT !.current = FALSE]
      BY <1>1, AgedFacts, Zenon DEF Attempt
    <2>2. ASSUME NEW i \in 1 .. Len(slot) PROVE slot'[i].current = FALSE
      <3>1. slot[i] \in Requests
        BY <1>1, ElementOfSeq
      <3>2. slot'[i] = [slot[i] EXCEPT !.current = FALSE]
        BY <2>1, Zenon
      <3> QED BY <1>2, <3>1, <3>2
    <2> QED BY <2>1, <2>2, Zenon
  <1>6. \A i \in 1 .. Len(rep') : rep'[i].current = FALSE
    <2>1. rep' = Aged(rep) /\ Len(rep') = Len(rep)
          /\ \A i \in 1 .. Len(rep) : Aged(rep)[i] = [rep[i] EXCEPT !.current = FALSE]
      BY <1>1, AgedFacts, Zenon DEF Attempt
    <2>2. ASSUME NEW i \in 1 .. Len(rep) PROVE rep'[i].current = FALSE
      <3>1. rep[i] \in Answers
        BY <1>1, ElementOfSeq
      <3>2. rep'[i] = [rep[i] EXCEPT !.current = FALSE]
        BY <2>1, Zenon
      <3> QED BY <1>3, <3>1, <3>2
    <2> QED BY <2>1, <2>2, Zenon
  <1> HIDE DEF n
  <1>7. Len(Aged(req)) = Len(req) /\ Len(req) \in Nat /\ Aged(req) \in Seq(Requests)
        /\ \A i \in 1 .. Len(req) : Aged(req)[i] = [req[i] EXCEPT !.current = FALSE]
    BY <1>1, AgedFacts, AgedTypes, Zenon
  <1>8. n \in Requests /\ req' = Append(Aged(req), n)
    BY SentFacts, Zenon DEF Attempt, Requests, n
  <1>9. Len(req') = Len(req) + 1 /\ req'[Len(req) + 1] = n /\ \A i \in 1 .. Len(req) : req'[i] = Aged(req)[i]
    BY <1>7, <1>8, AppendProperties
  <1>10. \A i \in 1 .. Len(req') : \/ i = Len(req') /\ req'[i] = n
                                   \/ i \in 1 .. Len(req) /\ req'[i].op = req[i].op /\ req'[i].current = FALSE
    <2>1. \A i \in 1 .. Len(req) : req[i] \in Requests
      BY <1>1, ElementOfSeq
    <2>2. ASSUME NEW i \in 1 .. Len(req) PROVE req'[i].op = req[i].op /\ req'[i].current = FALSE
      <3>1. req'[i] = [req[i] EXCEPT !.current = FALSE] /\ req[i] \in Requests
        BY <1>7, <1>9, <2>1, Zenon
      <3> QED BY <1>2, <3>1
    <2>3. \A i \in 1 .. Len(req') : i = Len(req') \/ i \in 1 .. Len(req)
      BY <1>7, <1>9
    <2> QED BY <1>9, <2>2, <2>3, Zenon
  <1>11. slot = << >> => slot' = << >>
    BY <1>1, AgedFacts, Zenon DEF Attempt
  <1>12. Lined(req', slot', rep')
    BY <1>4, <1>5, <1>6, <1>10, <1>11, ZenonT(60) DEF Lined
  <1>13. CurrentFor(req', slot', Reading[pc'])
    BY <1>4, <1>5, <1>10, ZenonT(60) DEF CurrentFor
  <1> QED BY <1>12, <1>13

\* With a current reply at the head nothing else is under way, and what the
\* pump sends next is alone.
LEMMA LineReceive ==
  ASSUME TypeInv, Receive, Lined(req, slot, rep), tries > 0, Head(rep).current, tries' = 0,
         \/ CheckErrors(Head(rep).val.err)
         \/ Drain(Head(rep).val.byte)
         \/ Send(Head(rep).val.full)
  PROVE  /\ req = << >> /\ slot = << >> /\ slot' = << >> /\ rep' = << >>
         /\ rep = << Head(rep) >>
         /\ \/ req' = << >>
            \/ \E w : req' = << w >> /\ w.op = "write" /\ w.current = FALSE
         /\ Lined(req', slot', rep') /\ NoneCurrent(req', slot', rep')
  <1>1. rep \in Seq(Answers) /\ rep # << >> /\ rep' = Tail(rep) /\ Head(rep) = rep[1]
    <2>1. rep \in Seq(Answers)
      BY Zenon DEF TypeInv, MsgOK
    <2>2. rep # << >> /\ rep' = Tail(rep)
      BY Zenon DEF Receive
    <2>3. Head(rep) = rep[1]
      BY <2>1, <2>2, SMTT(60)
    <2> QED BY <2>1, <2>2, <2>3, Zenon
  <1>2. Len(rep) \in Nat \ {0}
    BY <1>1, EmptySeq, Zenon
  <1>3. 1 \in 1 .. Len(rep)
    BY <1>2
  <1>4. 1 = Len(rep) /\ req = << >> /\ slot = << >>
    BY <1>1, <1>3, Zenon DEF Lined
  <1>5. rep' = << >>
    <2>1. Tail(rep) \in Seq(Answers) /\ Len(Tail(rep)) = Len(rep) - 1
      BY <1>1, HeadTailProperties
    <2>2. Tail(rep) # << >> => Len(Tail(rep)) \in Nat \ {0}
      BY <2>1, EmptySeq, Zenon
    <2>3. Len(Tail(rep)) \notin Nat \ {0}
      BY <1>4, <2>1
    <2> QED BY <1>1, <2>2, <2>3, Zenon
  <1>6. rep = << Head(rep) >>
    <2>1. Head(rep) \in Answers
      BY <1>1, HeadTailProperties
    <2>2. << Head(rep) >> \in Seq(Answers) /\ Len(<< Head(rep) >>) = Len(rep)
      BY <1>4, <2>1
    <2>3. \A i \in 1 .. Len(rep) : rep[i] = << Head(rep) >>[i]
      BY <1>1, <1>4
    <2> QED BY <1>1, <2>2, <2>3, SeqEqual, SMTT(60)
  <1>7. slot' = << >>
    BY <1>4, ReceiveCases DEF board
  <1>8. \/ req' = req
        \/ \E w : req' = Append(req, w) /\ w.op = "write" /\ w.current = FALSE
    <2>1. \A reg, val : Write(reg, val).op = "write" /\ Write(reg, val).current = FALSE
      BY DEF Write
    <2>2. CASE CheckErrors(Head(rep).val.err)
      BY <2>1, <2>2, Zenon DEF CheckErrors
    <2>3. CASE Drain(Head(rep).val.byte)
      BY <2>1, <2>3, Zenon DEF Drain
    <2>4. CASE Send(Head(rep).val.full)
      BY <2>1, <2>4, Zenon DEF Send
    <2> QED BY <2>2, <2>3, <2>4, Zenon
  <1>9. \A w : Append(<< >>, w) = << w >>
    OBVIOUS
  <1>10. \/ req' = << >>
         \/ \E w : req' = << w >> /\ w.op = "write" /\ w.current = FALSE
    BY <1>4, <1>8, <1>9, Zenon
  <1>11. \A i \in 1 .. Len(req') : i = 1 /\ req'[i].current = FALSE
    <2>1. CASE req' = << >>
      BY <2>1
    <2>2. CASE \E w : req' = << w >> /\ w.op = "write" /\ w.current = FALSE
      BY <2>2
    <2> QED BY <1>10, <2>1, <2>2, Zenon
  <1>12. Len(<< >>) = 0 /\ \A i \in 1 .. 0 : FALSE
    OBVIOUS
  <1>13. Lined(req', slot', rep') /\ NoneCurrent(req', slot', rep')
    BY <1>5, <1>7, <1>11, <1>12, ZenonT(60) DEF Lined, NoneCurrent
  <1> QED BY <1>4, <1>5, <1>6, <1>7, <1>10, <1>13, ZenonT(60)

\* Every step keeps the line.
LEMMA LineStep == TypeInv /\ LineInv /\ Next => LineInv'
  <1> SUFFICES ASSUME TypeInv, LineInv, Next, Sequenced' PROVE (Lined(req, slot, rep) /\ InStep)'
    BY DEF LineInv
  <1>1. Lined(req, slot, rep) /\ InStep
    BY FaultsGrow DEF LineInv
  <1>2. CASE Attempt
    <2>1. tries' > 0
      BY <1>2, ReadSide, SMTT(60) DEF Attempt
    <2> QED BY <1>1, <1>2, <2>1, LineAttempt DEF InStep
  <1>3. CASE GiveUp \/ Interrupt
    <2>1. pc' \in {"failed", "exited"} /\ tries' = 0 /\ UNCHANGED <<req, slot, rep>>
      BY <1>3 DEF GiveUp, Interrupt, board
    <2> QED BY <1>1, <2>1 DEF InStep, Lined
  <1>4. CASE Stdin
    <2>1. tries = 0 /\ tries' = 0 /\ pc = "stdin" /\ UNCHANGED <<req, slot, rep>>
      BY <1>4, SessionAssumption DEF Stdin, board, TypeInv, HostOK
    <2> QED BY <1>1, <2>1, SMTT(60) DEF InStep, Lined, NoneCurrent
  <1>5. CASE Receive
    <2>1. CASE UNCHANGED <<client, req, said>>
      <3>1. UNCHANGED <<tries, pc, req, slot>> /\ rep' = Tail(rep) /\ rep # << >> /\ rep \in Seq(Answers)
        BY <1>5, <2>1, ReceiveCases DEF client, board, TypeInv, MsgOK
      <3>2. InLine(req, slot, rep, req, slot, rep')
        BY <1>1, <3>1, ShorterFacts, LineDropReply
      <3>3. Lined(req', slot', rep')
        BY <3>1, <3>2, Zenon DEF InLine
      <3>4. InStep'
        BY <1>1, <3>1, <3>2, Zenon DEF InLine, InStep
      <3> QED BY <3>3, <3>4, SMTT(60)
    <2>2. CASE /\ tries > 0 /\ Head(rep).current /\ tries' = 0
               /\ \/ CheckErrors(Head(rep).val.err)
                  \/ Drain(Head(rep).val.byte)
                  \/ Send(Head(rep).val.full)
      <3>1. Lined(req', slot', rep') /\ NoneCurrent(req', slot', rep')
        BY <1>1, <1>5, <2>2, LineReceive, Zenon
      <3>2. ~(tries' > 0)
        BY <2>2, SMTT(60)
      <3> QED BY <3>1, <3>2 DEF InStep
    <2> QED BY <1>5, <2>1, <2>2, ReceiveCases, Zenon
  <1>6. CASE Service \/ ArpRefresh \/ Renew \/ eb_serve_pending \/ CorePrints \/ Transmit \/ Disturb
    <2>1. UNCHANGED <<tries, pc>>
      BY <1>6 DEF Service, ArpRefresh, Renew, eb_serve_pending, CorePrints, Transmit, Disturb, client
    <2>2. InLine(req, slot, rep, req', slot', rep')
      BY <1>1, <1>6, LineMoves
    <2>3. Lined(req', slot', rep')
      BY <2>2 DEF InLine
    <2>4. InStep'
      BY <1>1, <2>1, <2>2, Zenon DEF InLine, InStep
    <2> QED BY <2>3, <2>4
  <1> QED BY <1>2, <1>3, <1>4, <1>5, <1>6, Zenon DEF Next, Step

\* A session starts with nothing under way.
LEMMA LineInit == Init => LineInv
  <1> SUFFICES ASSUME Init PROVE Lined(req, slot, rep) /\ InStep
    BY DEF LineInv
  <1>1. req = << >> /\ slot = << >> /\ rep = << >> /\ tries = 0
    BY DEF Init
  <1>2. Len(<< >>) = 0 /\ (\A i \in 1 .. 0 : FALSE) /\ ~(0 > 0)
    BY SMTT(60)
  <1> QED BY <1>1, <1>2, Zenon DEF Lined, InStep, NoneCurrent

\* A step that changes nothing keeps the line.
LEMMA LineStutter == LineInv /\ UNCHANGED <<vars, scenario>> => LineInv'
  <1> SUFFICES ASSUME LineInv, UNCHANGED <<vars, scenario>> PROVE LineInv'
    BY Zenon
  <1>1. req' = req /\ slot' = slot /\ rep' = rep /\ tries' = tries /\ pc' = pc /\ faults' = faults
    BY Zenon DEF vars, client, board
  <1> QED BY <1>1, Zenon DEF LineInv, Lined, InStep, NoneCurrent, CurrentFor, Sequenced

\* The order of datagrams holds throughout.
THEOREM LineInvariant == Spec => []LineInv
  <1> QED BY LineInit, LineStep, LineStutter, SessionInvariant, PTL DEF Spec
=============================================================================
