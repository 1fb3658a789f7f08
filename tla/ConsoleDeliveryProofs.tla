------------------------ MODULE ConsoleDeliveryProofs ------------------------
(***************************************************************************)
(* What a console session does to the bytes it carries, on a network that  *)
(* may delay and lose datagrams: none is missed, none is typed twice; and  *)
(* all are delivered as long as nothing goes wrong.                        *)
(***************************************************************************)
EXTENDS ConsoleSessionProofs

\* A request on its way, or in the slot.
Among(m, q) == \E i \in 1 .. Len(q) : q[i] = m
Pending(m)  == Among(m, req) \/ Among(m, slot)
Pop == Write("console_rx_pop", 1)
\* The number of the last byte read.
Newest == IF Transcript = << >> THEN 0 ELSE Transcript[Len(Transcript)]

\* A current reply (while a read waits) shows the byte at the head of the
\* bridge, and a pop under way is for the byte read last.
Shown == {r \in Answers : tries > 0 /\ r.current => r.val.byte \in {<< >>, << Popped + 1 >>}}
MissInv == Sequenced =>
  /\ NothingMissing
  /\ Popped + 1 \in {Newest, Newest + 1}
  /\ Pending(Pop) => Popped + 1 = Newest
  /\ rep \in Seq(Shown)

Sent == consumed \o tx
Accepted == typed - Len(todo)
\* What the user typed and send has not written: the last bytes typed.
TodoOK == Len(todo) <= typed /\ \A i \in 1 .. Len(todo) : todo[i] = Accepted + i
TypedInv == TodoOK /\ (Sequenced =>
  /\ Increasing(Sent) /\ \A i \in 1 .. Len(Sent) : Sent[i] <= Accepted
  /\ \A n \in Nat : Pending(Write("console_tx_data", n)) =>
        n <= Accepted /\ \A i \in 1 .. Len(Sent) : Sent[i] < n)

QuietReadInv == Undisturbed =>
  /\ TranscriptExact
  /\ Popped + (IF Pending(Pop) THEN 1 ELSE 0) = Len(Transcript)

\* send sees room only where there is room.
Room == {r \in Answers : tries > 0 /\ pc = "send" /\ r.current /\ ~r.val.full => Len(tx) < TX_DEPTH}
QuietWriteInv == Undisturbed =>
  /\ AcceptedLands
  /\ \A n \in Nat : Pending(Write("console_tx_data", n)) => Len(tx) < TX_DEPTH
  /\ rep \in Seq(Room)

-----------------------------------------------------------------------------
(* Writes under way.                                                       *)

\* What is among the datagrams when there is none, or one.
LEMMA AmongFew ==
  /\ \A m, q : q = << >> => ~Among(m, q)
  /\ \A m, w, q : q = << w >> => (Among(m, q) <=> m = w)
  BY SMT DEF Among

\* After one is sent.
LEMMA AmongSent ==
  \A S : \A q \in Seq(S) : \A m, w, q2 : q2 = Append(q, w) => (Among(m, q2) <=> Among(m, q) \/ m = w)
  <1> SUFFICES ASSUME NEW S, NEW q \in Seq(S), NEW m, NEW w, NEW q2, q2 = Append(q, w)
               PROVE  Among(m, q2) <=> Among(m, q) \/ m = w
    BY Zenon
  <1>1. Len(q) \in Nat /\ Len(q2) = Len(q) + 1 /\ q2[Len(q) + 1] = w
        /\ \A i \in 1 .. Len(q) : q2[i] = q[i]
    OBVIOUS
  <1>2. \A i : i \in 1 .. Len(q) + 1 <=> i \in 1 .. Len(q) \/ i = Len(q) + 1
    BY <1>1
  <1> QED BY <1>1, <1>2, Zenon DEF Among

\* After one is gone.
LEMMA AmongShorter == \A q, q2, m : Shorter(q, q2) /\ Among(m, q2) => Among(m, q)
  <1> TAKE q, q2, m
  <1> HAVE Shorter(q, q2) /\ Among(m, q2)
  <1>1. \A j \in 1 .. Len(q2) : j \in 1 .. Len(q) /\ j + 1 \in 1 .. Len(q)
    BY DEF Shorter
  <1> QED BY <1>1, Zenon DEF Shorter, Among

\* After the first one arrived.
LEMMA AmongTaken ==
  \A S : \A q \in Seq(S) : q # << >> => \A m : Among(m, q) <=> m = Head(q) \/ Among(m, Tail(q))
  <1> TAKE S
  <1> TAKE q \in Seq(S)
  <1> HAVE q # << >>
  <1> TAKE m
  <1>1. Len(q) \in Nat \ {0}
    BY EmptySeq, Zenon
  <1>2. Len(Tail(q)) = Len(q) - 1 /\ Head(q) = q[1] /\ \A j \in 1 .. Len(Tail(q)) : Tail(q)[j] = q[j + 1]
    BY HeadTailProperties
  <1>3. ASSUME NEW i \in 1 .. Len(q), i # 1 PROVE \E j \in 1 .. Len(Tail(q)) : Tail(q)[j] = q[i]
    <2>1. i - 1 \in 1 .. Len(Tail(q)) /\ (i - 1) + 1 = i
      BY <1>1, <1>2, <1>3
    <2>2. Tail(q)[i - 1] = q[(i - 1) + 1]
      BY <1>2, <2>1, Zenon
    <2> QED BY <2>1, <2>2
  <1>4. \A j \in 1 .. Len(Tail(q)) : j + 1 \in 1 .. Len(q)
    BY <1>1, <1>2
  <1>5. 1 \in 1 .. Len(q)
    BY <1>1
  <1>6. Among(m, q) => m = Head(q) \/ Among(m, Tail(q))
    BY <1>2, <1>3, Zenon DEF Among
  <1>7. m = Head(q) \/ Among(m, Tail(q)) => Among(m, q)
    BY <1>2, <1>4, <1>5, Zenon DEF Among
  <1> QED BY <1>6, <1>7, Zenon

\* An attempt changes no write that is under way.
LEMMA AgedAmong ==
  \A q \in Seq(Requests), m \in Pops \cup Bytes : \A q2 : q2 = Aged(q) => (Among(m, q2) <=> Among(m, q))
  <1> TAKE q \in Seq(Requests), m \in Pops \cup Bytes
  <1>1. Len(Aged(q)) = Len(q) /\ \A i \in 1 .. Len(q) : Aged(q)[i] = [q[i] EXCEPT !.current = FALSE]
    BY AgedFacts, Zenon
  <1>2. ASSUME NEW r \in Requests PROVE [r EXCEPT !.current = FALSE] = m <=> r = m
    <2>1. CASE r \in Reads
      <3>1. r.op = "read" /\ [r EXCEPT !.current = FALSE].op = "read"
        BY <2>1 DEF Reads
      <3>2. m.op # "read"
        BY Zenon DEF Pops, Bytes
      <3> QED BY <3>1, <3>2, Zenon
    <2>2. CASE r \in Pops
      BY <2>2, Zenon DEF Pops
    <2>3. CASE r \in Bytes
      <3>1. [r EXCEPT !.current = FALSE] = r
        BY <2>3, Zenon DEF Bytes
      <3> QED BY <3>1, Zenon
    <2>4. CASE r \in Clears
      BY <2>4, ZenonT(60) DEF Clears
    <2> QED BY <2>1, <2>2, <2>3, <2>4, Zenon DEF Requests
  <1>3. \A i \in 1 .. Len(q) : q[i] \in Requests
    BY ElementOfSeq
  <1> QED BY <1>1, <1>2, <1>3, Zenon DEF Among

\* What the client sends when a read returns: a clear; the pop of the byte that
\* drain read; the next byte of the chunk, where send saw room.
LEMMA ReceiveSends ==
  ASSUME TypeInv, Receive
  PROVE  \/ req' = req
         \/ /\ tries > 0 /\ Head(rep).current /\ tries' = 0
            /\ \/ \E E \in SUBSET Errors : req' = Append(req, Write("console_err_clear", E))
               \/ Drain(Head(rep).val.byte) /\ Head(rep).val.byte # << >> /\ req' = Append(req, Pop)
               \/ /\ Send(Head(rep).val.full) /\ ~Head(rep).val.full /\ pc = "send"
                  /\ req' = Append(req, Write("console_tx_data", Head(todo)))
                  /\ claimed' = Append(claimed, Head(todo)) /\ todo' = Tail(todo)
  <1>1. Head(rep).val.err \in SUBSET Errors
    <2>1. Head(rep).val \in Words
      BY ReceiveCases DEF Answers
    <2> QED BY <2>1 DEF Words
  <1>2. CASE UNCHANGED <<client, req, said>>
    BY <1>2, Zenon
  <1>3. CASE CheckErrors(Head(rep).val.err)
    BY <1>1, <1>3, ReceiveCases, Zenon DEF CheckErrors, client
  <1>4. CASE Drain(Head(rep).val.byte)
    BY <1>4, ReceiveCases, Zenon DEF Drain, Pop, client
  <1>5. CASE Send(Head(rep).val.full)
    BY <1>5, ReceiveCases, ZenonT(60) DEF Send, client
  <1> QED BY <1>2, <1>3, <1>4, <1>5, ReceiveCases, Zenon

\* A write is under way because it was, or because the client has just sent it.
LEMMA PendingStep ==
  ASSUME TypeInv, Next, Sequenced', NEW m \in Pops \cup Bytes, Pending(m)'
  PROVE  Pending(m) \/ (Receive /\ req' = Append(req, m))
  <1>1. req \in Seq(Requests) /\ slot \in Seq(Requests)
    BY DEF TypeInv, MsgOK
  <1>2. CASE req' = req /\ slot' = slot
    BY <1>2, Zenon DEF Pending
  <1>3. CASE Attempt
    <2>1. Read(Reading[pc]) \in Requests /\ Read(Reading[pc]) # m /\ Aged(req) \in Seq(Requests)
      <3>1. Read(Reading[pc]) \in Reads
        BY <1>3, SentFacts, Zenon DEF Attempt
      <3>2. Read(Reading[pc]).op = "read" /\ m.op # "read"
        BY Zenon DEF Read, Pops, Bytes
      <3>3. Aged(req) \in Seq(Requests)
        BY <1>1, AgedFacts, AgedTypes, Zenon
      <3> QED BY <3>1, <3>2, <3>3, Zenon DEF Requests
    <2>2. Among(m, req') => Among(m, Aged(req))
      BY <1>3, <2>1, AmongSent, Zenon DEF Attempt
    <2>3. slot' = Aged(slot)
      BY <1>3, Zenon DEF Attempt
    <2> QED BY <1>1, <2>2, <2>3, AgedAmong, Zenon DEF Pending
  <1>4. CASE Receive
    <2>1. slot' = slot
      BY <1>4 DEF Receive, board
    <2>2. CASE req' = req
      BY <1>2, <2>1, <2>2, Zenon
    <2>3. CASE \E w : req' = Append(req, w)
      <3> PICK w : req' = Append(req, w)
        BY <2>3, Zenon
      <3> QED BY <1>1, <1>4, <2>1, AmongSent, Zenon DEF Pending
    <2> QED BY <1>4, <2>2, <2>3, ReceiveSends, Zenon
  <1>5. CASE GiveUp \/ Stdin \/ Interrupt \/ CorePrints \/ Transmit
    BY <1>2, <1>5, Zenon DEF GiveUp, Stdin, Interrupt, CorePrints, Transmit, board
  <1>6. CASE req # << >> /\ req' = Tail(req) /\ slot' = slot
    BY <1>1, <1>6, AmongTaken, Zenon DEF Pending
  <1>7. CASE req # << >> /\ req' = Tail(req) /\ slot' = << Head(req) >>
    BY <1>1, <1>7, AmongTaken, AmongFew, Zenon DEF Pending
  <1>8. CASE Service \/ ArpRefresh
    BY <1>2, <1>6, <1>7, <1>8, ServiceCases, Zenon DEF Service, ArpRefresh
  <1>9. CASE Renew
    <2>1. slot' = slot /\ (req' = req \/ (req # << >> /\ req' = Tail(req)))
      BY <1>9 DEF Renew
    <2> QED BY <1>2, <1>6, <2>1, Zenon
  <1>10. CASE eb_serve_pending
    <2>1. slot' = << >> /\ req' = req
      BY <1>10, ServeCases
    <2> QED BY <2>1, AmongFew, Zenon DEF Pending
  <1>11. CASE Disturb
    <2>1. slot' = slot
      BY <1>11 DEF Disturb, board
    <2>2. req' = req \/ \E i \in DOMAIN req : req' = Lost(req, i)
      <3>1. CASE Disturbed(req, req')
        BY <1>1, <3>1, DisturbedCases
      <3> QED BY <1>11, <3>1, Zenon DEF Disturb
    <2>3. CASE \E i \in DOMAIN req : req' = Lost(req, i)
      <3>1. Shorter(req, req')
        BY <1>1, <2>3, ShorterFacts, Zenon
      <3> QED BY <2>1, <3>1, AmongShorter, Zenon DEF Pending
    <2> QED BY <1>2, <2>1, <2>2, <2>3, Zenon
  <1> QED BY <1>3, <1>4, <1>5, <1>8, <1>9, <1>10, <1>11, Zenon DEF Next, Step

\* On an undisturbed network a write stays under way until it is served: the
\* slot is free when it arrives, as nothing else is under way.
LEMMA PendingKept ==
  ASSUME TypeInv, Next, Undisturbed', Lined(req, slot, rep), NEW m \in Pops \cup Bytes, Pending(m)
  PROVE  Pending(m)' \/ (eb_serve_pending /\ slot # << >> /\ slot[1] = m)
  <1>1. req \in Seq(Requests) /\ slot \in Seq(Requests)
    BY DEF TypeInv, MsgOK
  <1>2. CASE req' = req /\ slot' = slot
    BY <1>2, Zenon DEF Pending
  <1>3. m.op = "write"
    BY Zenon DEF Pops, Bytes
  <1>4. CASE Attempt
    <2>1. Read(Reading[pc]) \in Requests /\ Aged(req) \in Seq(Requests)
      <3>1. Read(Reading[pc]) \in Reads
        BY <1>4, SentFacts, Zenon DEF Attempt
      <3>2. Aged(req) \in Seq(Requests)
        BY <1>1, AgedFacts, AgedTypes, Zenon
      <3> QED BY <3>1, <3>2, Zenon DEF Requests
    <2>2. Among(m, Aged(req)) => Among(m, req')
      <3>1. req' = Append(Aged(req), Read(Reading[pc]))
        BY <1>4, Zenon DEF Attempt
      <3>2. \A q2 : q2 = Append(Aged(req), Read(Reading[pc])) => (Among(m, Aged(req)) => Among(m, q2))
        BY <2>1, AmongSent, Zenon
      <3> QED BY <3>1, <3>2, Zenon
    <2>3. slot' = Aged(slot)
      BY <1>4, Zenon DEF Attempt
    <2> QED BY <1>1, <2>2, <2>3, AgedAmong, Zenon DEF Pending
  <1>5. CASE Receive
    <2>1. slot' = slot
      BY <1>5 DEF Receive, board
    <2>2. CASE \E w : req' = Append(req, w)
      <3> PICK w : req' = Append(req, w)
        BY <2>2, Zenon
      <3> QED BY <1>1, <2>1, AmongSent, Zenon DEF Pending
    <2> QED BY <1>2, <1>5, <2>1, <2>2, ReceiveSends, Zenon
  <1>6. CASE GiveUp \/ Stdin \/ Interrupt \/ CorePrints \/ Transmit
    BY <1>2, <1>6, Zenon DEF GiveUp, Stdin, Interrupt, CorePrints, Transmit, board
  <1>7. CASE req # << >> /\ req' = Tail(req) /\ slot # << >> /\ slot' = slot
    <2>1. ~Among(m, req)
      BY <1>3, <1>7, Zenon DEF Among, Lined
    <2> QED BY <1>7, <2>1, Zenon DEF Pending
  <1>8. CASE req # << >> /\ req' = Tail(req) /\ slot = << >> /\ slot' = << Head(req) >>
    <2>1. ~Among(m, slot)
      BY <1>8, AmongFew, Zenon
    <2>2. \A i \in 1 .. Len(req) : req[i] = m => i = 1
      BY <1>3, Zenon DEF Lined
    <2>3. Head(req) = req[1]
      BY <1>1
    <2>4. m = Head(req)
      BY <2>1, <2>2, <2>3, Zenon DEF Pending, Among
    <2> QED BY <1>8, <2>4, AmongFew, Zenon DEF Pending
  <1>9. CASE Service \/ ArpRefresh
    BY <1>2, <1>7, <1>8, <1>9, ServiceCases, Zenon DEF Service, ArpRefresh
  <1>10. CASE eb_serve_pending
    <2>1. slot = << >> \/ slot = << slot[1] >>
      BY <1>10, ServeCases, Zenon
    <2>2. req' = req
      BY <1>10, ServeCases
    <2> QED BY <1>10, <2>1, <2>2, AmongFew, Zenon DEF Pending
  <1> QED BY <1>4, <1>5, <1>6, <1>9, <1>10, FaultsGrow, Zenon DEF Next, Step

\* A write in the slot is the only one under way, and no reply is current.
LEMMA SlotAlone ==
  ASSUME TypeInv, Lined(req, slot, rep), eb_serve_pending, slot # << >>, slot[1].op = "write"
  PROVE  /\ Pending(slot[1]) /\ (\A m : m.op = "write" => ~Pending(m)')
         /\ rep' = rep /\ (\A i \in 1 .. Len(rep) : ~rep[i].current)
  <1>1. slot = << slot[1] >> /\ slot' = << >> /\ req' = req /\ rep' = rep \o Answer(slot[1])
    BY ServeCases, Zenon
  <1>2. Pending(slot[1])
    BY <1>1, AmongFew, Zenon DEF Pending
  <1>3. \A m : m.op = "write" => ~Among(m, req)
    BY Zenon DEF Among, Lined
  <1>4. rep' = rep
    <2>1. Answer(slot[1]) = << >>
      BY DEF Answer
    <2>2. rep \in Seq(Answers)
      BY DEF TypeInv, MsgOK
    <2> QED BY <1>1, <2>1, <2>2, ConcatEmptySeq
  <1>5. \A m : ~Among(m, slot')
    BY <1>1, AmongFew, Zenon
  <1>6. \A i \in 1 .. Len(rep) : ~rep[i].current
    BY Zenon DEF Lined
  <1> QED BY <1>1, <1>2, <1>3, <1>4, <1>5, <1>6, Zenon DEF Pending

-----------------------------------------------------------------------------
(* No printed byte is missed.                                              *)

\* A pop is a write, and there is one kind of it.
LEMMA PopFacts == Pop \in Pops /\ Pop.op = "write" /\ \A m \in Pops : m = Pop
  <1>1. Pop \in Pops /\ Pop.op = "write"
    BY DEF Pop, Pops, Write
  <1>2. ASSUME NEW m \in Pops PROVE m = Pop
    <2>1. m = [op |-> m.op, reg |-> m.reg, val |-> m.val, current |-> m.current]
          /\ m.op = "write" /\ m.reg = "console_rx_pop" /\ m.val = 1 /\ m.current = FALSE
      BY ZenonT(60) DEF Pops
    <2> QED BY <2>1, Zenon DEF Pop, Write
  <1> QED BY <1>1, <1>2, Zenon

\* The client sends a pop only with the byte it appends to the transcript.
LEMMA ReceivePops ==
  ASSUME TypeInv, Receive, req' = Append(req, Pop)
  PROVE  Transcript' # Transcript
  <1>1. req \in Seq(Requests) /\ Len(req) \in Nat
    BY LenProperties DEF TypeInv, MsgOK
  <1>2. req' # req /\ req'[Len(req) + 1] = Pop
    <2>1. Len(req') = Len(req) + 1 /\ req'[Len(req) + 1] = Pop
      BY <1>1
    <2> QED BY <1>1, <2>1
  <1>3. \A w : req' = Append(req, w) => w = Pop
    BY <1>1, <1>2
  <1>4. Drain(Head(rep).val.byte) /\ Head(rep).val.byte # << >>
    <2>1. \A E : Write("console_err_clear", E) # Pop
      BY DEF Pop, Write
    <2>2. \A n : Write("console_tx_data", n) # Pop
      BY DEF Pop, Write
    <2> QED BY <1>2, <1>3, <2>1, <2>2, ReceiveSends, Zenon
  <1>5. PICK b \in 1 .. printed : Head(rep).val.byte = << b >>
    <2>1. Head(rep).val \in Words
      BY ReceiveCases DEF Answers
    <2> QED BY <1>4, <2>1 DEF Words
  <1>6. << b >> \in Seq(Nat)
    BY ReadSide
  <1>7. Transcript' = Transcript \o << b >>
    BY <1>4, <1>5, <1>6, DrainTranscript, Zenon
  <1>8. Len(Transcript') = Len(Transcript) + 1
    BY <1>6, <1>7, ReadSide, ConcatProperties
  <1> QED BY <1>8, ReadSide

\* The replies under way after a step that adds nothing to the transcript.
LEMMA ShownStep ==
  ASSUME TypeInv, TypeInv', LineInv, rep \in Seq(Shown), Next, Sequenced, Transcript' = Transcript
  PROVE  rep' \in Seq(Shown')
  <1>1. rep' \in Seq(Answers') /\ Lined(req, slot, rep)
    BY DEF TypeInv, MsgOK, LineInv
  <1>2. CASE tries' = 0
    <2>1. Answers' \subseteq Shown'
      BY <1>2 DEF Shown
    <2> QED BY <1>1, <2>1, SeqGrows, Zenon
  <1>3. CASE Attempt
    <2>1. \A r \in Shown : [r EXCEPT !.current = FALSE] \in Shown'
      <3>1. printed' = printed
        BY <1>3 DEF Attempt
      <3> QED BY <3>1, Zenon DEF Answers, Words, Shown
    <2>2. ~eb_serve_pending
      BY <1>3, ServeCases, ReadSide DEF Attempt, client
    <2> QED BY <1>3, <2>1, <2>2, RepliesIn, Zenon
  <1>4. CASE Popped' = Popped + 1
    <2>1. eb_serve_pending /\ slot # << >> /\ slot[1] \in Pops
      BY <1>4, PoppedStep, ReadSide
    <2>2. rep' = rep /\ \A i \in 1 .. Len(rep) : ~rep[i].current
      BY <1>1, <2>1, PopFacts, SlotAlone, Zenon
    <2>3. Len(rep') \in Nat /\ \A i \in 1 .. Len(rep') : rep'[i] \in Shown'
      <3>1. Len(rep') \in Nat /\ \A i \in 1 .. Len(rep') : rep'[i] \in Answers'
        BY <1>1, ElementOfSeq
      <3> QED BY <2>2, <3>1, Zenon DEF Shown
    <2> QED BY <1>1, <2>3, SeqDef
  <1>5. CASE tries' = tries /\ ~Attempt /\ Popped' = Popped
    <2>1. Shown \subseteq Shown'
      <3>1. Words \subseteq Words'
        BY PoppedStep, ReadSide DEF Words
      <3>2. Answers \subseteq Answers'
        BY <3>1 DEF Answers
      <3> QED BY <1>5, <3>2 DEF Shown
    <2>2. eb_serve_pending /\ slot # << >> => [val |-> Value(slot[1].reg), current |-> slot[1].current] \in Shown'
      <3> SUFFICES ASSUME eb_serve_pending, slot # << >>
                   PROVE  [val |-> Value(slot[1].reg), current |-> slot[1].current] \in Shown
        BY <2>1
      <3>1. slot[1] \in Requests
        BY ServeCases, Zenon
      <3>2. [val |-> Value(slot[1].reg), current |-> slot[1].current] \in Answers
        BY <3>1, ServedAnswer
      <3>3. Value(slot[1].reg).byte \in {<< >>, << Popped + 1 >>}
        BY ReadSide DEF Value
      <3> QED BY <3>2, <3>3 DEF Shown
    <2> QED BY <1>5, <2>1, <2>2, RepliesIn
  <1> QED BY <1>2, <1>3, <1>4, <1>5, TriesStep, PoppedStep, Zenon

\* Every step keeps it: drain appends the byte the head of the bridge shows,
\* which is the one it has or the one after it, and only its pop moves the head.
LEMMA MissStep ==
  TypeInv /\ TypeInv' /\ LineInv /\ MissInv /\ Next => MissInv'
  <1> SUFFICES ASSUME TypeInv, TypeInv', LineInv, MissInv, Next, Sequenced'
               PROVE  /\ NothingMissing'
                      /\ Popped' + 1 \in {Newest', Newest' + 1}
                      /\ Pending(Pop)' => Popped' + 1 = Newest'
                      /\ (rep \in Seq(Shown))'
    BY Zenon DEF MissInv
  <1>1. Sequenced
    BY FaultsGrow
  <1>2. /\ NothingMissing /\ Popped + 1 \in {Newest, Newest + 1}
        /\ Pending(Pop) => Popped + 1 = Newest
        /\ rep \in Seq(Shown) /\ Lined(req, slot, rep)
    BY <1>1 DEF MissInv, LineInv
  <1>3. /\ Popped \in Nat /\ Transcript \in Seq(Nat) /\ Len(Transcript) \in Nat
        /\ DOMAIN Transcript = 1 .. Len(Transcript)
    BY ReadSide
  <1>4. CASE Transcript' = Transcript
    <2>1. NothingMissing' /\ Newest' = Newest
      BY <1>1, <1>2, <1>4, Zenon DEF NothingMissing, Newest
    <2>2. rep' \in Seq(Shown')
      BY <1>1, <1>2, <1>4, ShownStep
    <2>3. CASE Popped' = Popped
      <3>1. Pending(Pop)' => Pending(Pop)
        <4> SUFFICES ASSUME Pending(Pop)', ~Pending(Pop) PROVE FALSE
          OBVIOUS
        <4>1. Receive /\ req' = Append(req, Pop)
          BY PopFacts, PendingStep, Zenon
        <4> QED BY <1>4, <4>1, ReceivePops
      <3> QED BY <1>2, <2>1, <2>2, <2>3, <3>1, Zenon
    <2>4. CASE eb_serve_pending /\ slot # << >> /\ slot[1] \in Pops /\ Popped' = Popped + 1
      <3>1. Pending(Pop) /\ ~Pending(Pop)'
        BY <1>2, <2>4, PopFacts, SlotAlone, Zenon
      <3>2. Popped' + 1 = Newest' + 1
        BY <1>2, <2>1, <2>4, <3>1, Zenon
      <3> QED BY <2>1, <2>2, <3>1, <3>2, Zenon
    <2> QED BY <2>3, <2>4, PoppedStep, Zenon
  <1>5. CASE Receive /\ tries > 0 /\ Head(rep).current /\ tries' = 0 /\ pc = "drain"
             /\ \E b \in 1 .. printed :
                  /\ Head(rep).val.byte = << b >> /\ Transcript' = Append(Transcript, b)
                  /\ req' = Append(req, Write("console_rx_pop", 1))
    <2> PICK b \in 1 .. printed : Head(rep).val.byte = << b >> /\ Transcript' = Append(Transcript, b)
      BY <1>5, Zenon
    <2>1. Popped' = Popped
      BY <1>5 DEF Receive, regs, Popped
    <2>2. b = Popped + 1
      <3>1. Head(rep) \in Shown
        BY <1>2, <1>5, HeadTailProperties DEF Receive
      <3>2. << b >> \in {<< >>, << Popped + 1 >>}
        BY <1>5, <3>1, Zenon DEF Shown
      <3> QED BY <3>2
    <2>3. Len(Transcript') = Len(Transcript) + 1 /\ DOMAIN Transcript' = 1 .. Len(Transcript) + 1
          /\ Transcript'[Len(Transcript) + 1] = b /\ Transcript' # << >>
          /\ \A i \in 1 .. Len(Transcript) : Transcript'[i] = Transcript[i]
      BY <1>3
    <2>4. Newest' = b
      BY <2>3 DEF Newest
    <2>5. ASSUME NEW i \in DOMAIN Transcript'
          PROVE  Transcript'[i] \in IF i = 1 THEN {1} ELSE {Transcript'[i - 1], Transcript'[i - 1] + 1}
      <3>1. CASE i \in 1 .. Len(Transcript)
        <4>1. Transcript[i] \in IF i = 1 THEN {1} ELSE {Transcript[i - 1], Transcript[i - 1] + 1}
          BY <1>1, <1>2, <1>3, <3>1, Zenon DEF NothingMissing
        <4>2. i # 1 => i - 1 \in 1 .. Len(Transcript)
          BY <1>3, <3>1
        <4> QED BY <2>3, <3>1, <4>1, <4>2, Zenon
      <3>2. CASE i = Len(Transcript) + 1
        <4>1. CASE Transcript = << >>
          <5>1. i = 1 /\ Newest = 0
            BY <3>2, <4>1 DEF Newest
          <5>2. b = 1
            BY <1>2, <1>3, <2>2, <5>1
          <5> QED BY <2>3, <3>2, <5>1, <5>2, Zenon
        <4>2. CASE Transcript # << >>
          <5>1. Len(Transcript) \in Nat \ {0}
            BY <1>3, <4>2, EmptySeq, Zenon
          <5>2. i # 1 /\ i - 1 = Len(Transcript) /\ Len(Transcript) \in 1 .. Len(Transcript)
            BY <3>2, <5>1
          <5>3. Transcript'[i - 1] = Newest
            BY <2>3, <4>2, <5>2, Zenon DEF Newest
          <5> QED BY <1>2, <2>2, <2>3, <3>2, <5>2, <5>3, Zenon
        <4> QED BY <4>1, <4>2, Zenon
      <3> QED BY <1>3, <2>3, <3>1, <3>2, SMTT(60)
    <2>6. (rep \in Seq(Shown))'
      <3>1. Answers' \subseteq Shown'
        BY <1>5 DEF Shown
      <3>2. rep' \in Seq(Answers')
        BY DEF TypeInv, MsgOK
      <3> QED BY <3>1, <3>2, SeqGrows, Zenon
    <2>7. NothingMissing'
      BY <2>5, Zenon DEF NothingMissing
    <2> QED BY <2>1, <2>2, <2>4, <2>6, <2>7, Zenon
  <1> QED BY <1>4, <1>5, TranscriptStep, Zenon

\* Nothing has been read or printed.
LEMMA MissInit == Init => MissInv
  <1> SUFFICES ASSUME Init PROVE MissInv
    OBVIOUS
  <1>1. Transcript = << >> /\ rep = << >> /\ Popped = 0 /\ req = << >> /\ slot = << >>
    <2>1. rep = << >> /\ req = << >> /\ slot = << >> /\ rx = << >> /\ printed = 0
      BY DEF Init
    <2>2. Transcript = << >>
      BY DEF Init, Transcript
    <2>3. Popped = 0
      BY <2>1, TypeInit, ReadSide
    <2> QED BY <2>1, <2>2, <2>3, Zenon
  <1>2. rep \in Seq(Shown) /\ Newest = 0
    BY <1>1 DEF Newest
  <1>3. ~Pending(Pop)
    BY <1>1, AmongFew, Zenon DEF Pending
  <1>4. Popped + 1 = Newest + 1
    BY <1>1, <1>2
  <1>5. NothingMissing
    BY <1>1 DEF NothingMissing
  <1> QED BY <1>2, <1>3, <1>4, <1>5, Zenon DEF MissInv

\* A stuttering step keeps it.
LEMMA MissStutter == MissInv /\ UNCHANGED <<vars, scenario>> => MissInv'
  BY ZenonT(60) DEF MissInv, NothingMissing, Sequenced, Pending, Among, Newest, Transcript, Popped, Shown, Answers,
                    Words, vars, client, regs, board, said

\* For every constant, MissInv is an invariant.
THEOREM MissInvariant == Spec => []MissInv
  <1>1. TypeInv /\ TypeInv' /\ LineInv /\ MissInv /\ [Next]_<<vars, scenario>> => MissInv'
    BY MissStep, MissStutter, Zenon
  <1> QED BY <1>1, MissInit, SessionInvariant, LineInvariant, PTL DEF Spec

\* NothingMissing: the byte that drain appends is the one it has or the next.
THEOREM NothingMissed == Spec => []NothingMissing
  <1>1. MissInv => NothingMissing
    BY Zenon DEF MissInv, NothingMissing
  <1> QED BY <1>1, MissInvariant, PTL

-----------------------------------------------------------------------------
(* Typed bytes reach the core at most once.                                *)

\* The bytes that reached tx_fifo: transmission moves them, and a write that
\* finds room appends one.
LEMMA SentStep ==
  ASSUME TypeInv, Next
  PROVE  /\ Sent \in Seq(Nat) /\ Len(Sent) \in Nat /\ DOMAIN Sent = 1 .. Len(Sent)
         /\ \/ Sent' = Sent /\ tx' = tx
            \/ Sent' = Sent /\ Transmit /\ Len(tx') = Len(tx) - 1 /\ Len(tx) \in Nat
            \/ /\ eb_serve_pending /\ slot # << >> /\ slot[1] \in Bytes /\ Len(tx) # TX_DEPTH
               /\ Sent' = Append(Sent, slot[1].val)
  <1>1. tx \in Seq(Nat) /\ consumed \in Seq(Nat)
    BY DEF TypeInv, BoardOK
  <1>2. Sent \in Seq(Nat) /\ Len(Sent) \in Nat /\ DOMAIN Sent = 1 .. Len(Sent)
    <2>1. Sent \in Seq(Nat)
      BY <1>1, ConcatProperties DEF Sent
    <2> QED BY <2>1, LenProperties
  <1>3. CASE tx' = tx /\ consumed' = consumed
    BY <1>2, <1>3, Zenon DEF Sent
  <1>4. CASE Transmit
    <2>1. tx # << >> /\ tx' = Tail(tx) /\ consumed' = Append(consumed, Head(tx))
      BY <1>4 DEF Transmit
    <2>2. Head(tx) \in Nat /\ Tail(tx) \in Seq(Nat) /\ tx = << Head(tx) >> \o Tail(tx)
      <3>1. Head(tx) \in Nat /\ Tail(tx) \in Seq(Nat)
        BY <1>1, <2>1, HeadTailProperties
      <3> QED BY <1>1, <2>1, <3>1
    <2>3. Append(consumed, Head(tx)) = consumed \o << Head(tx) >>
      BY <1>1, <2>2, AppendIsConcat
    <2>4. << Head(tx) >> \in Seq(Nat)
      BY <2>2
    <2>5. (consumed \o << Head(tx) >>) \o Tail(tx) = consumed \o (<< Head(tx) >> \o Tail(tx))
      BY <1>1, <2>2, <2>4, Joined, Zenon
    <2>6. Sent' = Sent
      BY <2>1, <2>2, <2>3, <2>5, Zenon DEF Sent
    <2>7. Len(tx') = Len(tx) - 1 /\ Len(tx) \in Nat
      BY <1>1, <2>1
    <2> QED BY <1>2, <1>4, <2>6, <2>7, Zenon
  <1>5. CASE eb_serve_pending
    <2>1. consumed' = consumed
      BY <1>5, ServeCases
    <2>2. CASE slot # << >> /\ slot[1] \in Bytes /\ Len(tx) # TX_DEPTH /\ tx' = Append(tx, slot[1].val)
      <3>1. slot[1].val \in Nat
        BY <2>2, Zenon DEF Bytes
      <3>2. consumed \o Append(tx, slot[1].val) = Append(consumed \o tx, slot[1].val)
        <4>1. << slot[1].val >> \in Seq(Nat)
          BY <3>1
        <4>2. Append(tx, slot[1].val) = tx \o << slot[1].val >>
              /\ Append(consumed \o tx, slot[1].val) = (consumed \o tx) \o << slot[1].val >>
          BY <1>1, <1>2, <3>1, AppendIsConcat, Zenon DEF Sent
        <4>3. (consumed \o tx) \o << slot[1].val >> = consumed \o (tx \o << slot[1].val >>)
          BY <1>1, <4>1, Joined, Zenon
        <4> QED BY <4>2, <4>3, Zenon
      <3> QED BY <1>2, <1>5, <2>1, <2>2, <3>2, Zenon DEF Sent
    <2>3. tx' = tx \/ (slot # << >> /\ slot[1] \in Bytes /\ Len(tx) # TX_DEPTH /\ tx' = Append(tx, slot[1].val))
      <3>1. CASE slot = << >>
        BY <1>5, <3>1, ServeCases
      <3>2. CASE slot # << >>
        <4>1. slot[1] \in Requests /\ Access(slot[1])
          BY <1>5, <3>2, ServeCases, Zenon
        <4>2. \A e : Fault(e) => tx' = tx
          BY DEF Fault
        <4>3. tx' = tx \/ (slot[1] \in Bytes /\ Len(tx) # TX_DEPTH /\ tx' = Append(tx, slot[1].val))
          BY <4>1, <4>2, AccessCases, SMTT(60)
        <4> QED BY <3>2, <4>3, Zenon
      <3> QED BY <3>1, <3>2, Zenon
    <2> QED BY <1>3, <2>1, <2>2, <2>3, Zenon
  <1>6. CASE Attempt \/ GiveUp \/ Receive \/ Stdin \/ Interrupt \/ Service \/ ArpRefresh \/ Renew \/ CorePrints \/ Disturb
    BY <1>3, <1>6, ZenonT(60) DEF Attempt, GiveUp, Receive, Stdin, Interrupt, Service, ArpRefresh, Renew, CorePrints,
                                  Disturb, regs
  <1> QED BY <1>4, <1>5, <1>6, Zenon DEF Next, Step

\* send takes the next byte, or gives the chunk up; stdin yields a new chunk.
LEMMA TodoStep ==
  ASSUME TypeInv, Next, TodoOK
  PROVE  /\ TodoOK' /\ Accepted \in Nat /\ Accepted' \in Nat /\ Accepted <= Accepted'
         /\ todo # << >> => Head(todo) = Accepted + 1 /\ Head(todo) \in Nat
         /\ todo # << >> /\ todo' = Tail(todo) /\ typed' = typed => Accepted' = Accepted + 1
  <1>1. /\ Len(todo) \in Nat /\ typed \in Nat /\ Accepted \in Nat /\ Accepted = typed - Len(todo)
        /\ \A i \in 1 .. Len(todo) : todo[i] = Accepted + i
    <2>1. Len(todo) \in Nat /\ typed \in Nat
      BY LenProperties DEF TypeInv, HostOK
    <2> QED BY <2>1 DEF Accepted, TodoOK
  <1>2. todo # << >> => Len(todo) \in Nat \ {0} /\ Head(todo) = todo[1]
    <2>1. todo \in Seq(Nat)
      BY DEF TypeInv, HostOK
    <2>2. todo # << >> => Len(todo) \in Nat \ {0}
      BY <2>1, EmptySeq, Zenon
    <2> QED BY <2>1, <2>2
  <1>3. todo # << >> => Head(todo) = Accepted + 1 /\ Head(todo) \in Nat
    <2>1. todo # << >> => 1 \in 1 .. Len(todo)
      BY <1>2
    <2> QED BY <1>1, <1>2, <2>1
  <1>4. ASSUME todo # << >>, todo' = Tail(todo), typed' = typed
        PROVE  TodoOK' /\ Accepted' = Accepted + 1
    <2>1. Len(todo') = Len(todo) - 1 /\ \A i \in 1 .. Len(todo) - 1 : todo'[i] = todo[i + 1]
      BY <1>4, HeadTailProperties, SMTT(60) DEF TypeInv, HostOK
    <2>2. Accepted' = Accepted + 1 /\ Len(todo') <= typed'
      BY <1>1, <1>4, <2>1 DEF Accepted, TodoOK
    <2>3. ASSUME NEW i \in 1 .. Len(todo') PROVE todo'[i] = Accepted' + i
      <3>1. i \in 1 .. Len(todo) - 1 /\ i + 1 \in 1 .. Len(todo)
        BY <1>1, <2>1
      <3>2. todo'[i] = Accepted + (i + 1)
        BY <1>1, <2>1, <3>1
      <3> QED BY <1>1, <2>2, <3>1, <3>2
    <2> QED BY <2>2, <2>3 DEF TodoOK
  <1>5. CASE todo' = todo /\ typed' = typed
    <2>1. Accepted' = Accepted
      BY <1>5 DEF Accepted
    <2>2. TodoOK'
      BY <1>5, <2>1, Zenon DEF TodoOK
    <2>3. Accepted' \in Nat /\ Accepted <= Accepted'
      BY <1>1, <2>1, SMTT(60)
    <2>4. ~(todo # << >> /\ todo' = Tail(todo))
      <3>1. todo # << >> => Len(Tail(todo)) = Len(todo) - 1
        BY HeadTailProperties DEF TypeInv, HostOK
      <3> QED BY <1>1, <1>5, <3>1, SMTT(60)
    <2> QED BY <1>1, <1>3, <2>2, <2>3, <2>4, Zenon
  <1>6. CASE todo # << >> /\ todo' = Tail(todo) /\ typed' = typed
    <2>1. Accepted' \in Nat /\ Accepted <= Accepted'
      BY <1>1, <1>4, <1>6, SMTT(60)
    <2> QED BY <1>1, <1>3, <1>4, <1>6, <2>1, Zenon
  <1>7. CASE todo' = << >> /\ typed' = typed
    <2>1. Accepted' = typed /\ Accepted' \in Nat /\ Accepted <= Accepted'
      BY <1>1, <1>7, SMTT(60) DEF Accepted
    <2>2. TodoOK'
      BY <1>1, <1>7 DEF TodoOK
    <2> QED BY <1>1, <1>3, <1>4, <1>7, <2>1, <2>2, Zenon
  <1>8. CASE \E n \in 1 .. scenario.type - typed :
               /\ todo' = [i \in 1 .. n |-> typed + i] /\ typed' = typed + n
    <2> PICK n \in 1 .. scenario.type - typed :
               /\ todo' = [i \in 1 .. n |-> typed + i] /\ typed' = typed + n
      BY <1>8, Zenon
    <2>1. n \in Nat
      OBVIOUS
    <2>2. Len(todo') = n /\ \A i \in 1 .. n : todo'[i] = typed + i
      BY <2>1
    <2>3. Accepted' = typed /\ Len(todo') <= typed'
      BY <1>1, <2>1, <2>2, SMTT(60) DEF Accepted
    <2>4. TodoOK'
      BY <2>2, <2>3 DEF TodoOK
    <2>5. Accepted' \in Nat /\ Accepted <= Accepted'
      BY <1>1, <2>3
    <2> QED BY <1>1, <1>3, <1>4, <2>4, <2>5, Zenon
  <1>9. \/ todo' = todo /\ typed' = typed
        \/ todo # << >> /\ todo' = Tail(todo) /\ typed' = typed
        \/ todo' = << >> /\ typed' = typed
        \/ \E n \in 1 .. scenario.type - typed : todo' = [i \in 1 .. n |-> typed + i] /\ typed' = typed + n
    <2>1. CASE Receive
      <3>1. pc = "send" => todo # << >>
        BY DEF TypeInv, HostOK
      <3>2. typed' = typed
        BY <2>1 DEF Receive
      <3>3. CASE Send(Head(rep).val.full)
        BY <3>1, <3>2, <3>3, Zenon DEF Send
      <3>4. CASE CheckErrors(Head(rep).val.err) \/ Drain(Head(rep).val.byte)
        BY <3>2, <3>4, Zenon DEF CheckErrors, Drain
      <3> QED BY <2>1, <3>2, <3>3, <3>4, ReceiveCases, Zenon DEF client
    <2>2. CASE Stdin
      BY <2>2, Zenon DEF Stdin
    <2>3. CASE Attempt \/ GiveUp \/ Interrupt \/ Service \/ ArpRefresh \/ Renew \/ eb_serve_pending \/ CorePrints
               \/ Transmit \/ Disturb
      BY <2>3, ZenonT(60) DEF Attempt, GiveUp, Interrupt, Service, ArpRefresh, Renew, eb_serve_pending, CorePrints,
                              Transmit, Disturb, client
    <2> QED BY <2>1, <2>2, <2>3, Zenon DEF Next, Step
  <1> QED BY <1>3, <1>4, <1>5, <1>6, <1>7, <1>8, <1>9, Zenon

\* A write under way is the first of the requests under way.
LEMMA FirstIsWrite ==
  ASSUME TypeInv, Lined(req, slot, rep), NEW m, m.op = "write"
  PROVE  Pending(m) <=> slot \o req # << >> /\ (slot \o req)[1] = m
  <1>1. req \in Seq(Requests) /\ slot \in Seq(Requests) /\ Len(slot) <= 1
    BY DEF TypeInv, MsgOK, BoardOK
  <1>2. CASE slot = << >>
    <2>1. slot \o req = req
      BY <1>1, <1>2, ConcatEmptySeq
    <2>2. ~Among(m, slot)
      BY <1>2, AmongFew, Zenon
    <2>3. Among(m, req) => req # << >> /\ req[1] = m
      <3>1. ASSUME NEW i \in 1 .. Len(req), req[i] = m PROVE i = 1
        BY <3>1, Zenon DEF Lined
      <3>2. Among(m, req) => req[1] = m
        BY <3>1, Zenon DEF Among
      <3> QED BY <3>2, AmongFew, Zenon
    <2>4. req # << >> /\ req[1] = m => Among(m, req)
      <3>1. req # << >> => Len(req) \in Nat \ {0}
        BY <1>1, EmptySeq, Zenon
      <3>2. req # << >> => 1 \in 1 .. Len(req)
        BY <3>1
      <3> QED BY <3>2, Zenon DEF Among
    <2> QED BY <2>1, <2>2, <2>3, <2>4, Zenon DEF Pending
  <1>3. CASE slot # << >>
    <2>1. ~Among(m, req)
      BY <1>3, Zenon DEF Among, Lined
    <2>2. Len(slot) = 1
      <3>1. Len(slot) \in Nat \ {0}
        BY <1>1, <1>3, EmptySeq, Zenon
      <3>2. Len(slot) <= 1
        BY <1>1, Zenon
      <3>3. \A n \in Nat \ {0} : n <= 1 => n = 1
        OBVIOUS
      <3> QED BY <3>1, <3>2, <3>3, Zenon
    <2>3. slot \o req # << >> /\ (slot \o req)[1] = slot[1]
      BY <1>1, <2>2
    <2>4. \A i : i \in 1 .. Len(slot) <=> i = 1
      BY <2>2
    <2>5. Among(m, slot) <=> slot[1] = m
      BY <2>4, Zenon DEF Among
    <2> QED BY <2>1, <2>3, <2>5, Zenon DEF Pending
  <1> QED BY <1>2, <1>3, Zenon

\* A write to console_tx_data carries one byte.
LEMMA ByteFacts ==
  /\ \A n \in Nat : Write("console_tx_data", n) \in Bytes /\ Write("console_tx_data", n).op = "write"
                    /\ Write("console_tx_data", n).val = n
  /\ \A m \in Bytes : m.op = "write" /\ m.val \in Nat /\ m = Write("console_tx_data", m.val)
  <1>1. \A n \in Nat : Write("console_tx_data", n) \in Bytes /\ Write("console_tx_data", n).op = "write"
                       /\ Write("console_tx_data", n).val = n
    BY DEF Write, Bytes
  <1>2. ASSUME NEW m \in Bytes PROVE m.op = "write" /\ m.val \in Nat /\ m = Write("console_tx_data", m.val)
    <2>1. m = [op |-> m.op, reg |-> m.reg, val |-> m.val, current |-> m.current]
          /\ m.op = "write" /\ m.reg = "console_tx_data" /\ m.val \in Nat /\ m.current = FALSE
      BY Zenon DEF Bytes
    <2> QED BY <2>1, Zenon DEF Write
  <1> QED BY <1>1, <1>2, Zenon

\* The empty set has no element.
LEMMA CardinalityNone == Cardinality({}) = 0
  <1> DEFINE P(f) == f = [T \in SUBSET {} |-> IF T = {} THEN 0 ELSE 1 + f[T \ {CHOOSE x : x \in T}]]
  <1>1. \E f : P(f)
    <2>1. P([T \in SUBSET {} |-> 0])
      OBVIOUS
    <2> QED BY <2>1
  <1>2. PICK f : f = (CHOOSE g : P(g)) /\ P(f)
    BY <1>1, SMTT(60)
  <1>3. Cardinality({}) = f[{}]
    BY <1>2 DEF Cardinality
  <1> QED BY <1>2, <1>3

\* A singleton has one.
LEMMA CardinalityOne == Cardinality({1}) = 1
  <1> DEFINE P(f) == f = [T \in SUBSET {1} |-> IF T = {} THEN 0 ELSE 1 + f[T \ {CHOOSE x : x \in T}]]
  <1>0. {1} \ {CHOOSE x : x \in {1}} = {} /\ {} \in SUBSET {1} /\ {1} \in SUBSET {1} /\ {1} # {}
    OBVIOUS
  <1>1. \E f : P(f)
    <2> DEFINE g == [T \in SUBSET {1} |-> IF T = {} THEN 0 ELSE 1]
    <2>1. ASSUME NEW T \in SUBSET {1}
          PROVE  g[T] = IF T = {} THEN 0 ELSE 1 + g[T \ {CHOOSE x : x \in T}]
      <3>1. T = {} \/ T = {1}
        BY Zenon
      <3>2. g[{}] = 0 /\ g[{1}] = 1
        BY <1>0
      <3> QED BY <1>0, <3>1, <3>2
    <2>2. P(g)
      BY <2>1
    <2> QED BY <2>2, Zenon
  <1>2. PICK f : f = (CHOOSE g : P(g)) /\ P(f)
    BY <1>1, SMTT(60)
  <1>3. Cardinality({1}) = f[{1}]
    BY <1>2 DEF Cardinality
  <1>4. f[{}] = 0
    BY <1>0, <1>2
  <1>5. f[{1}] = 1 + f[{1} \ {CHOOSE x : x \in {1}}]
    BY <1>0, <1>2
  <1> QED BY <1>0, <1>3, <1>4, <1>5, SMTT(60)

\* At most one typed byte is on its way to the board.
OneByte ==
  \/ Written = << >> /\ \A n \in Nat : ~Pending(Write("console_tx_data", n))
  \/ \E n \in Nat : /\ Written = << n >> /\ Pending(Write("console_tx_data", n))
                    /\ \A k \in Nat : Pending(Write("console_tx_data", k)) => k = n

\* On a network that keeps the order the slot and the wire hold one typed byte at most.
LEMMA WrittenIs == TypeInv /\ LineInv /\ Sequenced => OneByte
  <1> SUFFICES ASSUME TypeInv, Lined(req, slot, rep) PROVE OneByte
    BY Zenon DEF LineInv
  <1> DEFINE under  == slot \o req
             writes == {i \in DOMAIN under : under[i].reg = "console_tx_data"}
             nth(k) == CHOOSE i \in writes : Cardinality({j \in writes : j <= i}) = k
  <1>1. Written = [k \in 1 .. Cardinality(writes) |-> under[nth(k)].val]
    BY DEF Written
  <1>2. req \in Seq(Requests) /\ slot \in Seq(Requests) /\ Len(slot) <= 1 /\ Len(slot) \in Nat /\ Len(req) \in Nat
    BY LenProperties DEF TypeInv, MsgOK, BoardOK
  <1>3. /\ under \in Seq(Requests) /\ Len(under) = Len(slot) + Len(req) /\ DOMAIN under = 1 .. Len(under)
        /\ \A i \in 1 .. Len(slot) + Len(req) : under[i] = IF i <= Len(slot) THEN slot[i] ELSE req[i - Len(slot)]
    BY <1>2, ConcatProperties, LenProperties, SMTT(60)
  <1> HIDE DEF under
  <1>4. ASSUME NEW i \in writes PROVE i = 1 /\ under[i] \in Bytes
    <2>1. i \in 1 .. Len(under) /\ under[i].reg = "console_tx_data"
      BY <1>3
    <2>2. under[i] \in Bytes
      <3>1. under[i] \in Requests
        BY <1>3, <2>1, ElementOfSeq
      <3> QED BY <2>1, <3>1, Zenon DEF Requests, Reads, Pops, Clears
    <2>3. CASE i <= Len(slot)
      BY <1>2, <2>1, <2>2, <2>3
    <2>4. CASE ~(i <= Len(slot))
      <3>1. under[i] = req[i - Len(slot)] /\ i - Len(slot) \in 1 .. Len(req)
        BY <1>2, <1>3, <2>1, <2>4, SMTT(60)
      <3>2. req[i - Len(slot)].op = "write"
        BY <2>2, <3>1, ByteFacts, Zenon
      <3>3. i - Len(slot) = 1 /\ slot = << >>
        BY <3>1, <3>2, Zenon DEF Lined
      <3> QED BY <1>2, <2>1, <2>2, <3>3, SMTT(60)
    <2> QED BY <2>3, <2>4, Zenon
  <1>5. under # << >> => 1 \in DOMAIN under
    <2>1. under # << >> => Len(under) \in Nat \ {0}
      BY <1>3, EmptySeq, Zenon
    <2> QED BY <1>3, <2>1
  <1>6. \A n \in Nat : Pending(Write("console_tx_data", n)) <=> under # << >> /\ under[1] = Write("console_tx_data", n)
    BY ByteFacts, FirstIsWrite, Zenon DEF under
  <1>7. CASE 1 \notin writes
    <2>1. writes = {}
      BY <1>4, <1>7, SMTT(60)
    <2>2. Cardinality(writes) = 0
      BY <2>1, CardinalityNone, Zenon
    <2>3. Written = << >>
      <3>1. Written = [k \in 1 .. 0 |-> under[nth(k)].val]
        BY <1>1, <2>2, Zenon
      <3> HIDE DEF nth
      <3> QED BY <3>1
    <2>4. \A n : Write("console_tx_data", n).reg = "console_tx_data"
      BY DEF Write
    <2>5. \A n \in Nat : ~Pending(Write("console_tx_data", n))
      BY <1>5, <1>6, <1>7, <2>4, Zenon
    <2> QED BY <2>3, <2>5, Zenon DEF OneByte
  <1>8. CASE 1 \in writes
    <2>1. writes = {1}
      BY <1>4, <1>8
    <2>2. Cardinality({1}) = 1
      BY CardinalityOne
    <2>3. nth(1) = 1
      <3>1. {j \in writes : j <= 1} = {1}
        BY <2>1
      <3>2. \E i \in writes : Cardinality({j \in writes : j <= i}) = 1
        BY <1>8, <2>2, <3>1, Zenon
      <3>3. nth(1) \in writes
        BY <3>2, Zenon
      <3> QED BY <1>4, <3>3, Zenon
    <2>4. Written = [k \in 1 .. 1 |-> under[nth(k)].val]
      BY <1>1, <2>1, <2>2, Zenon
    <2> HIDE DEF nth
    <2>5. Written = << under[1].val >>
      BY <2>3, <2>4
    <2>6. under[1] \in Bytes /\ under # << >>
      <3>1. under[1] \in Bytes
        BY <1>4, <1>8, Zenon
      <3>2. Len(under) # 0
        BY <1>3, <1>8
      <3> QED BY <1>3, <3>1, <3>2
    <2>7. under[1].val \in Nat /\ under[1] = Write("console_tx_data", under[1].val)
      BY <2>6, ByteFacts, Zenon
    <2>8. Pending(Write("console_tx_data", under[1].val))
      BY <1>6, <2>6, <2>7, Zenon
    <2>9. \A k \in Nat : Pending(Write("console_tx_data", k)) => k = under[1].val
      BY <1>6, ByteFacts, Zenon
    <2> QED BY <2>5, <2>7, <2>8, <2>9, Zenon DEF OneByte
  <1> QED BY <1>7, <1>8, Zenon

\* The client sends a byte that is the next one of its chunk.
LEMMA ReceiveTypes ==
  ASSUME TypeInv, Receive, NEW n \in Nat, req' = Append(req, Write("console_tx_data", n))
  PROVE  /\ n = Head(todo) /\ todo # << >> /\ todo' = Tail(todo) /\ typed' = typed
         /\ claimed' = Append(claimed, n) /\ ~Head(rep).val.full /\ pc = "send"
         /\ tries > 0 /\ Head(rep).current /\ tries' = 0 /\ Send(Head(rep).val.full)
  <1>1. req \in Seq(Requests) /\ Len(req) \in Nat
    BY LenProperties DEF TypeInv, MsgOK
  <1>2. req' # req /\ req'[Len(req) + 1] = Write("console_tx_data", n)
    <2>1. Len(req') = Len(req) + 1 /\ req'[Len(req) + 1] = Write("console_tx_data", n)
      BY <1>1
    <2> QED BY <1>1, <2>1
  <1>3. \A w : req' = Append(req, w) => w = Write("console_tx_data", n)
    BY <1>1, <1>2
  <1>4. \A E : Write("console_err_clear", E) # Write("console_tx_data", n)
    BY DEF Write
  <1>5. Pop # Write("console_tx_data", n)
    BY DEF Pop, Write
  <1>6. Write("console_tx_data", Head(todo)) = Write("console_tx_data", n) => Head(todo) = n
    BY DEF Write
  <1>7. pc = "send" => todo # << >>
    BY DEF TypeInv, HostOK
  <1>8. typed' = typed
    BY DEF Receive
  <1> QED BY <1>2, <1>3, <1>4, <1>5, <1>6, <1>7, <1>8, ReceiveSends, ZenonT(30)

\* Every step keeps it: a byte is written once, after the bytes before it were
\* served or lost, and only the byte under way can reach tx_fifo.
LEMMA TypedStep == TypeInv /\ LineInv /\ TypedInv /\ Next => TypedInv'
  <1> SUFFICES ASSUME TypeInv, LineInv, TypedInv, Next PROVE TypedInv'
    OBVIOUS
  <1>1. /\ TodoOK' /\ Accepted \in Nat /\ Accepted' \in Nat /\ Accepted <= Accepted'
        /\ todo # << >> => Head(todo) = Accepted + 1 /\ Head(todo) \in Nat
        /\ todo # << >> /\ todo' = Tail(todo) /\ typed' = typed => Accepted' = Accepted + 1
    BY TodoStep DEF TypedInv
  <1> SUFFICES ASSUME Sequenced'
               PROVE  /\ Increasing(Sent)' /\ \A i \in 1 .. Len(Sent') : Sent'[i] <= Accepted'
                      /\ \A n \in Nat : Pending(Write("console_tx_data", n))' =>
                           n <= Accepted' /\ \A i \in 1 .. Len(Sent') : Sent'[i] < n
    BY <1>1, Zenon DEF TypedInv
  <1>2. Sequenced
    BY FaultsGrow
  <1>3. /\ Increasing(Sent) /\ \A i \in 1 .. Len(Sent) : Sent[i] <= Accepted
        /\ \A n \in Nat : Pending(Write("console_tx_data", n)) =>
             n <= Accepted /\ \A i \in 1 .. Len(Sent) : Sent[i] < n
        /\ Lined(req, slot, rep)
    BY <1>2, Zenon DEF TypedInv, LineInv
  <1>4. Sent \in Seq(Nat) /\ Len(Sent) \in Nat /\ DOMAIN Sent = 1 .. Len(Sent) /\ \A i \in 1 .. Len(Sent) : Sent[i] \in Nat
    BY SentStep, ElementOfSeq
  <1>5. CASE Sent' = Sent
    <2>1. Increasing(Sent)'
      BY <1>3, <1>5, Zenon DEF Increasing
    <2>2. \A i \in 1 .. Len(Sent) : Sent[i] <= Accepted'
      BY <1>1, <1>3, <1>4
    <2>3. ASSUME NEW n \in Nat, Pending(Write("console_tx_data", n))'
          PROVE  n <= Accepted' /\ \A i \in 1 .. Len(Sent) : Sent[i] < n
      <3>1. CASE Pending(Write("console_tx_data", n))
        <4>1. n <= Accepted /\ \A i \in 1 .. Len(Sent) : Sent[i] < n
          BY <1>3, <3>1, Zenon
        <4> QED BY <1>1, <4>1
      <3>2. CASE Receive /\ req' = Append(req, Write("console_tx_data", n))
        <4>1. n = Head(todo) /\ todo # << >> /\ todo' = Tail(todo) /\ typed' = typed
          BY <3>2, ReceiveTypes
        <4>2. n = Accepted + 1 /\ Accepted' = Accepted + 1
          BY <1>1, <4>1, Zenon
        <4> QED BY <1>1, <1>3, <1>4, <4>2, SMTT(60)
      <3> QED BY <2>3, <3>1, <3>2, ByteFacts, PendingStep, Zenon
    <2> QED BY <1>5, <2>1, <2>2, <2>3, Zenon
  <1>6. CASE eb_serve_pending /\ slot # << >> /\ slot[1] \in Bytes /\ Sent' = Append(Sent, slot[1].val)
    <2> DEFINE v == slot[1].val
    <2>1. v \in Nat /\ slot[1] = Write("console_tx_data", v) /\ slot[1].op = "write"
      BY <1>6, ByteFacts, Zenon
    <2>2. Pending(slot[1]) /\ \A m : m.op = "write" => ~Pending(m)'
      BY <1>3, <1>6, <2>1, SlotAlone, Zenon
    <2>3. v <= Accepted /\ \A i \in 1 .. Len(Sent) : Sent[i] < v
      BY <1>3, <2>1, <2>2, Zenon
    <2> HIDE DEF v
    <2>4. /\ Len(Sent') = Len(Sent) + 1 /\ DOMAIN Sent' = 1 .. Len(Sent) + 1 /\ Sent'[Len(Sent) + 1] = v
          /\ \A i \in 1 .. Len(Sent) : Sent'[i] = Sent[i]
      <3>1. Sent' = Append(Sent, v)
        BY <1>6 DEF v
      <3> QED BY <1>4, <2>1, <3>1, SMTT(60)
    <2>5. ASSUME NEW i \in 1 .. Len(Sent) + 1 PROVE Sent'[i] <= Accepted' /\ (i > 1 => Sent'[i - 1] < Sent'[i])
      <3>1. CASE i \in 1 .. Len(Sent)
        <4>1. Sent[i] <= Accepted /\ (i > 1 => Sent[i - 1] < Sent[i])
          BY <1>3, <1>4, <3>1, Zenon DEF Increasing
        <4>2. i > 1 => i - 1 \in 1 .. Len(Sent)
          BY <1>4, <3>1
        <4>3. Sent'[i] = Sent[i] /\ (i > 1 => Sent'[i - 1] = Sent[i - 1])
          BY <2>4, <3>1, <4>2, Zenon
        <4>4. Sent[i] \in Nat
          BY <1>4, <3>1, Zenon
        <4> QED BY <1>1, <4>1, <4>3, <4>4
      <3>2. CASE i = Len(Sent) + 1
        <4>1. i > 1 => i - 1 \in 1 .. Len(Sent)
          BY <1>4, <3>2
        <4>2. i > 1 => Sent'[i - 1] < v
          BY <2>3, <2>4, <4>1, Zenon
        <4>3. Sent'[i] = v
          BY <2>4, <3>2, Zenon
        <4> QED BY <1>1, <2>1, <2>3, <4>2, <4>3, SMTT(60)
      <3> QED BY <1>4, <3>1, <3>2
    <2>6. Increasing(Sent)' /\ \A i \in 1 .. Len(Sent') : Sent'[i] <= Accepted'
      BY <2>4, <2>5, Zenon DEF Increasing
    <2> QED BY <2>2, <2>6, ByteFacts, Zenon
  <1> QED BY <1>5, <1>6, SentStep, Zenon

\* Nothing has been typed.
LEMMA TypedInit == Init => TypedInv
  <1> SUFFICES ASSUME Init PROVE TypedInv
    OBVIOUS
  <1>1. req = << >> /\ slot = << >>
    BY DEF Init
  <1>2. Sent = << >>
    BY DEF Init, Sent
  <1>3. TodoOK
    BY DEF Init, TodoOK
  <1>4. Increasing(Sent) /\ \A i \in 1 .. Len(Sent) : FALSE
    BY <1>2 DEF Increasing
  <1>5. \A m : ~Pending(m)
    BY <1>1, AmongFew, Zenon DEF Pending
  <1> QED BY <1>3, <1>4, <1>5, Zenon DEF TypedInv

\* A stuttering step keeps it.
LEMMA TypedStutter == TypedInv /\ UNCHANGED <<vars, scenario>> => TypedInv'
  BY ZenonT(60) DEF TypedInv, TodoOK, Accepted, Sent, Sequenced, Pending, Among, Increasing, vars, client, regs, board

\* For every constant, TypedInv is an invariant.
THEOREM TypedInvariant == Spec => []TypedInv
  <1>1. TypeInv /\ LineInv /\ TypedInv /\ [Next]_<<vars, scenario>> => TypedInv'
    BY TypedStep, TypedStutter, Zenon
  <1> QED BY <1>1, TypedInit, SessionInvariant, LineInvariant, PTL DEF Spec

\* TypedAtMostOnce: the byte under way comes after those that reached tx_fifo.
THEOREM TypedOnce == Spec => []TypedAtMostOnce
  <1>1. TypeInv /\ LineInv /\ TypedInv => TypedAtMostOnce
    <2> SUFFICES ASSUME TypeInv, LineInv, TypedInv, Sequenced PROVE Increasing(Sent \o Written)
      BY Zenon DEF TypedAtMostOnce, Sent
    <2>1. /\ Increasing(Sent) /\ Lined(req, slot, rep)
          /\ \A n \in Nat : Pending(Write("console_tx_data", n)) => \A i \in 1 .. Len(Sent) : Sent[i] < n
      BY Zenon DEF TypedInv, LineInv
    <2>2. Sent \in Seq(Nat) /\ Len(Sent) \in Nat /\ DOMAIN Sent = 1 .. Len(Sent)
      <3>1. Sent \in Seq(Nat)
        BY ConcatProperties DEF TypeInv, BoardOK, Sent
      <3> QED BY <3>1, LenProperties
    <2>3. CASE Written = << >>
      <3>1. Sent \o Written = Sent
        BY <2>2, <2>3, ConcatEmptySeq
      <3> QED BY <2>1, <3>1, Zenon
    <2>4. CASE \E n \in Nat : Written = << n >> /\ Pending(Write("console_tx_data", n))
      <3> PICK n \in Nat : Written = << n >> /\ Pending(Write("console_tx_data", n))
        BY <2>4, Zenon
      <3>1. \A i \in 1 .. Len(Sent) : Sent[i] < n
        BY <2>1, Zenon
      <3> DEFINE t == Sent \o Written
      <3>2. /\ DOMAIN t = 1 .. Len(Sent) + 1 /\ t[Len(Sent) + 1] = n
            /\ \A i \in 1 .. Len(Sent) : t[i] = Sent[i]
        BY <2>2
      <3> HIDE DEF t
      <3>3. ASSUME NEW i \in DOMAIN t, i > 1 PROVE t[i - 1] < t[i]
        <4>1. i - 1 \in 1 .. Len(Sent)
          BY <2>2, <3>2, <3>3
        <4>2. CASE i \in 1 .. Len(Sent)
          BY <2>1, <2>2, <3>2, <3>3, <4>1, <4>2, Zenon DEF Increasing
        <4>3. CASE i = Len(Sent) + 1
          BY <3>1, <3>2, <4>1, <4>3, Zenon
        <4> QED BY <2>2, <3>2, <4>2, <4>3
      <3>4. Increasing(t)
        BY <3>3, Zenon DEF Increasing
      <3> QED BY <3>4 DEF t
    <2> QED BY <2>1, <2>3, <2>4, WrittenIs, Zenon DEF OneByte
  <1> QED BY <1>1, SessionInvariant, LineInvariant, TypedInvariant, PTL

-----------------------------------------------------------------------------
(* Until the network or a lease renewal disturbs it, the session is exact. *)

\* Nothing is under way when a read returns.
LEMMA ReceiveAlone ==
  ASSUME TypeInv, Lined(req, slot, rep), Receive, tries > 0, Head(rep).current
  PROVE  req = << >> /\ slot = << >> /\ \A m : ~Pending(m)
  <1>1. rep \in Seq(Answers) /\ rep # << >> /\ Head(rep) = rep[1]
    <2>1. rep \in Seq(Answers)
      BY Zenon DEF TypeInv, MsgOK
    <2>2. rep # << >>
      BY Zenon DEF Receive
    <2>3. Head(rep) = rep[1]
      BY <2>1, <2>2, SMTT(60)
    <2> QED BY <2>1, <2>2, <2>3, Zenon
  <1>2. Len(rep) \in Nat \ {0}
    BY <1>1, EmptySeq, Zenon
  <1>3. 1 \in 1 .. Len(rep)
    BY <1>2
  <1>4. req = << >> /\ slot = << >>
    BY <1>1, <1>3, Zenon DEF Lined
  <1> QED BY <1>4, AmongFew, Zenon DEF Pending

\* Every step keeps the transcript exact: a byte is read once, because its pop
\* is served before the next read of console_rx.
LEMMA QuietReadStep ==
  TypeInv /\ OrderInv /\ LineInv /\ MissInv /\ QuietReadInv /\ Next => QuietReadInv'
  <1> SUFFICES ASSUME TypeInv, OrderInv, LineInv, MissInv, QuietReadInv, Next, Undisturbed'
               PROVE  TranscriptExact' /\ Popped' + (IF Pending(Pop)' THEN 1 ELSE 0) = Len(Transcript')
    BY Zenon DEF QuietReadInv
  <1>1. Undisturbed /\ Sequenced /\ faults' = faults
    BY FaultsGrow
  <1>2. Sequenced'
    BY <1>1 DEF Sequenced
  <1>3. /\ TranscriptExact /\ Popped + (IF Pending(Pop) THEN 1 ELSE 0) = Len(Transcript)
        /\ Pending(Pop) => Popped + 1 = Newest
        /\ rep \in Seq(Shown) /\ Lined(req, slot, rep)
    BY <1>1, Zenon DEF QuietReadInv, MissInv, LineInv
  <1>4. /\ Popped \in Nat /\ Transcript \in Seq(Nat) /\ Len(Transcript) \in Nat
        /\ DOMAIN Transcript = 1 .. Len(Transcript)
    BY ReadSide
  <1>5. CASE Transcript' = Transcript /\ Popped' = Popped
    <2>1. Pending(Pop)' => Pending(Pop)
      <3> SUFFICES ASSUME Pending(Pop)', ~Pending(Pop) PROVE FALSE
        OBVIOUS
      <3>1. Receive /\ req' = Append(req, Pop)
        BY <1>2, PopFacts, PendingStep, Zenon
      <3> QED BY <1>5, <3>1, ReceivePops
    <2>2. Pending(Pop) => Pending(Pop)'
      <3> SUFFICES ASSUME Pending(Pop), ~Pending(Pop)' PROVE FALSE
        OBVIOUS
      <3>1. eb_serve_pending /\ slot # << >> /\ slot[1] = Pop
        BY <1>3, PopFacts, PendingKept, Zenon
      <3>2. Access(Pop) /\ printed' = printed
        BY <3>1, ServeCases, Zenon
      <3>3. rx = << >>
        <4> SUFFICES ASSUME rx # << >> PROVE FALSE
          OBVIOUS
        <4>1. rx' = Tail(rx)
          BY <3>2 DEF Access, Pop, Write
        <4>2. Popped' = Popped + 1
          BY <3>2, <4>1, TailRx DEF TypeInv
        <4> QED BY <1>4, <1>5, <4>2
      <3>4. Popped + 1 = Newest
        BY <1>3
      <3>5. Newest <= printed
        <4>1. Transcript \in Seq(1 .. printed)
          BY DEF OrderInv
        <4>2. CASE Transcript = << >>
          BY <4>2, ReadSide DEF Newest
        <4>3. CASE Transcript # << >>
          <5>1. Len(Transcript) \in Nat \ {0}
            BY <1>4, <4>3, EmptySeq, Zenon
          <5>2. Len(Transcript) \in 1 .. Len(Transcript)
            BY <5>1
          <5>3. Transcript[Len(Transcript)] \in 1 .. printed
            BY <4>1, <5>2, ElementOfSeq, Zenon
          <5> QED BY <4>3, <5>3, ReadSide DEF Newest
        <4> QED BY <4>2, <4>3, Zenon
      <3> QED BY <3>3, <3>4, <3>5, ReadSide
    <2>3. TranscriptExact'
      BY <1>3, <1>5, Zenon DEF TranscriptExact
    <2> QED BY <1>3, <1>5, <2>1, <2>2, <2>3, Zenon
  <1>6. CASE Transcript' = Transcript /\ eb_serve_pending /\ slot # << >> /\ slot[1] \in Pops /\ Popped' = Popped + 1
    <2>1. Pending(Pop) /\ ~Pending(Pop)'
      BY <1>3, <1>6, PopFacts, SlotAlone, Zenon
    <2>2. TranscriptExact'
      BY <1>3, <1>6, Zenon DEF TranscriptExact
    <2>3. Popped + 1 = Len(Transcript)
      BY <1>3, <2>1, Zenon
    <2>4. Popped' + 0 = Len(Transcript')
      <3>1. Popped' = Len(Transcript')
        BY <1>6, <2>3, Zenon
      <3>2. Len(Transcript') \in Nat
        BY <1>4, <1>6, Zenon
      <3> QED BY <3>1, <3>2
    <2> QED BY <2>1, <2>2, <2>4, Zenon
  <1>7. CASE Receive /\ tries > 0 /\ Head(rep).current /\ tries' = 0 /\ pc = "drain"
             /\ \E b \in 1 .. printed :
                  /\ Head(rep).val.byte = << b >> /\ Transcript' = Append(Transcript, b)
                  /\ req' = Append(req, Write("console_rx_pop", 1))
    <2> PICK b \in 1 .. printed : Head(rep).val.byte = << b >> /\ Transcript' = Append(Transcript, b)
      BY <1>7, Zenon
    <2>1. Popped' = Popped /\ slot' = slot
      BY <1>7 DEF Receive, regs, board, Popped
    <2>2. b = Popped + 1
      <3>1. Head(rep) \in Shown
        BY <1>3, <1>7, HeadTailProperties DEF Receive
      <3>2. << b >> \in {<< >>, << Popped + 1 >>}
        BY <1>7, <3>1, Zenon DEF Shown
      <3> QED BY <3>2
    <2>3. ~Pending(Pop)
      BY <1>3, <1>7, ReceiveAlone
    <2>4. Popped = Len(Transcript)
      <3>1. Popped + 0 = Len(Transcript)
        BY <1>3, <2>3, Zenon
      <3>2. \A n \in Nat : n + 0 = n
        OBVIOUS
      <3> QED BY <1>4, <3>1, <3>2, Zenon
    <2>5. Pending(Pop)'
      <3>1. req \in Seq(Requests)
        BY DEF TypeInv, MsgOK
      <3> QED BY <1>7, <3>1, AmongSent, Zenon DEF Pending, Pop
    <2>6. Len(Transcript') = Len(Transcript) + 1 /\ Transcript' \in Seq(Nat)
          /\ Transcript'[Len(Transcript) + 1] = Len(Transcript) + 1
          /\ \A i \in 1 .. Len(Transcript) : Transcript'[i] = Transcript[i]
      BY <1>4, <2>2, <2>4
    <2>7. TranscriptExact'
      <3>1. \A i \in 1 .. Len(Transcript) : Transcript[i] = i
        BY <1>3, Zenon DEF TranscriptExact
      <3>2. \A i \in 1 .. Len(Transcript') : Transcript'[i] = i
        <4>1. \A i \in 1 .. Len(Transcript') : i \in 1 .. Len(Transcript) \/ i = Len(Transcript) + 1
          BY <1>4, <2>6
        <4> QED BY <2>6, <3>1, <4>1, Zenon
      <3>3. Transcript' = [i \in 1 .. Len(Transcript') |-> Transcript'[i]]
        <4>1. DOMAIN Transcript' = 1 .. Len(Transcript') /\ Transcript' = [i \in DOMAIN Transcript' |-> Transcript'[i]]
          BY <2>6, LenProperties, Zenon
        <4> QED BY <4>1, Zenon
      <3> QED BY <3>2, <3>3, Zenon DEF TranscriptExact
    <2>8. Popped' + 1 = Len(Transcript')
      BY <1>4, <2>1, <2>4, <2>6
    <2> QED BY <2>5, <2>7, <2>8, Zenon
  <1> QED BY <1>5, <1>6, <1>7, TranscriptStep, PoppedStep, Zenon

\* Nothing has been read or printed.
LEMMA QuietReadInit == Init => QuietReadInv
  <1> SUFFICES ASSUME Init PROVE QuietReadInv
    OBVIOUS
  <1>1. rx = << >> /\ printed = 0 /\ req = << >> /\ slot = << >>
    BY DEF Init
  <1>2. Transcript = << >>
    BY DEF Init, Transcript
  <1>3. Popped = 0
    BY <1>1, TypeInit, ReadSide
  <1>4. ~Pending(Pop)
    BY <1>1, AmongFew, Zenon DEF Pending
  <1>5. TranscriptExact /\ Popped + 0 = Len(Transcript)
    BY <1>2, <1>3 DEF TranscriptExact
  <1> QED BY <1>4, <1>5, Zenon DEF QuietReadInv

\* A stuttering step keeps it.
LEMMA QuietReadStutter == QuietReadInv /\ UNCHANGED <<vars, scenario>> => QuietReadInv'
  BY ZenonT(60) DEF QuietReadInv, TranscriptExact, Undisturbed, Pending, Among, Transcript, Popped, vars, client, regs,
                    board, said

\* QuietTranscript: pops under way and the bytes popped account for the bytes
\* read, so drain reads every byte once.
THEOREM QuietReads == Spec => []QuietTranscript
  <1>1. QuietReadInv => QuietTranscript
    BY Zenon DEF QuietReadInv, QuietTranscript
  <1>2. TypeInv /\ OrderInv /\ LineInv /\ MissInv /\ QuietReadInv /\ [Next]_<<vars, scenario>> => QuietReadInv'
    BY QuietReadStep, QuietReadStutter, Zenon
  <1> QED BY <1>1, <1>2, QuietReadInit, SessionInvariant, OrderInvariant, LineInvariant, MissInvariant, PTL DEF Spec

\* The replies under way: with one for send's read there is nothing else under
\* way, so tx_fifo does not grow before send has its reply.
LEMMA RoomStep ==
  ASSUME TypeInv, TypeInv', LineInv, rep \in Seq(Room), Next, Sequenced
  PROVE  rep' \in Seq(Room')
  <1>1. rep' \in Seq(Answers') /\ Lined(req, slot, rep) /\ InStep
    BY DEF TypeInv, MsgOK, LineInv
  <1>2. tx \in Seq(Nat) /\ Len(tx) \in Nat /\ Len(tx) <= TX_DEPTH /\ TX_DEPTH \in Nat
    BY SessionAssumption, LenProperties DEF TypeInv, BoardOK
  <1>3. CASE tries' = 0
    <2>1. Answers' \subseteq Room'
      BY <1>3 DEF Room
    <2> QED BY <1>1, <2>1, SeqGrows, Zenon
  <1>4. CASE Attempt
    <2>1. \A r \in Room : [r EXCEPT !.current = FALSE] \in Room'
      <3>1. printed' = printed
        BY <1>4 DEF Attempt
      <3> QED BY <3>1, Zenon DEF Answers, Words, Room
    <2>2. ~eb_serve_pending
      BY <1>4, ServeCases, ReadSide DEF Attempt, client
    <2> QED BY <1>4, <2>1, <2>2, RepliesIn, Zenon
  <1>5. CASE eb_serve_pending /\ slot # << >> /\ slot[1] \in Bytes
    <2>1. rep' = rep /\ \A i \in 1 .. Len(rep) : ~rep[i].current
      BY <1>1, <1>5, ByteFacts, SlotAlone, Zenon
    <2>2. Len(rep') \in Nat /\ \A i \in 1 .. Len(rep') : rep'[i] \in Room'
      <3>1. Len(rep') \in Nat /\ \A i \in 1 .. Len(rep') : rep'[i] \in Answers'
        BY <1>1, ElementOfSeq
      <3> QED BY <2>1, <3>1, Zenon DEF Room
    <2> QED BY <1>1, <2>2, SeqDef
  <1>6. CASE tries' = tries /\ (tries > 0 => pc' = pc) /\ ~Attempt /\ ~(eb_serve_pending /\ slot # << >> /\ slot[1] \in Bytes)
    <2>1. Len(tx') <= Len(tx) /\ Len(tx') \in Nat
      <3>1. tx' = tx \/ (Len(tx') = Len(tx) - 1)
        BY <1>6, SentStep, Zenon
      <3>2. Len(tx') \in Nat
        BY LenProperties DEF TypeInv, BoardOK
      <3> QED BY <1>2, <3>1, <3>2
    <2>2. Room \subseteq Room'
      <3>1. Words \subseteq Words'
        BY PoppedStep, ReadSide DEF Words
      <3>2. Answers \subseteq Answers'
        BY <3>1 DEF Answers
      <3>3. Len(tx) < TX_DEPTH => Len(tx') < TX_DEPTH
        BY <1>2, <2>1, SMTT(30)
      <3> QED BY <1>6, <3>2, <3>3, Zenon DEF Room
    <2>3. eb_serve_pending /\ slot # << >> /\ slot[1].op = "read" =>
            [val |-> Value(slot[1].reg), current |-> slot[1].current] \in Room'
      <3> SUFFICES ASSUME eb_serve_pending, slot # << >>, slot[1].op = "read"
                   PROVE  [val |-> Value(slot[1].reg), current |-> slot[1].current] \in Room
        BY <2>2
      <3>1. slot[1] \in Requests /\ slot = << slot[1] >>
        BY ServeCases, Zenon
      <3>2. [val |-> Value(slot[1].reg), current |-> slot[1].current] \in Answers
        BY <3>1, ServedAnswer
      <3>3. ASSUME tries > 0, pc = "send", slot[1].current, ~Value(slot[1].reg).full PROVE Len(tx) < TX_DEPTH
        <4>1. 1 \in 1 .. Len(slot)
          BY <3>1
        <4>2. slot[1].reg = "console_tx"
          BY <1>1, <3>3, <4>1, ReadingFacts, Zenon DEF InStep, CurrentFor
        <4>3. Len(tx) # TX_DEPTH
          BY <3>3, <4>2, Zenon DEF Value
        <4> QED BY <1>2, <4>3
      <3> QED BY <3>2, <3>3 DEF Room
    <2> QED BY <1>6, <2>2, <2>3, RepliesIn
  <1> QED BY <1>3, <1>4, <1>5, <1>6, TriesStep, Zenon

\* send counts a byte as accepted exactly when it writes it.
LEMMA ClaimedStep ==
  ASSUME TypeInv, Next
  PROVE  claimed' = claimed \/ (Receive /\ \E n \in Nat : req' = Append(req, Write("console_tx_data", n)))
  <1>1. CASE Receive
    <2>1. CASE Send(Head(rep).val.full)
      <3>1. pc = "send" => Head(todo) \in Nat
        <4>1. pc = "send" => todo # << >> /\ todo \in Seq(Nat)
          BY DEF TypeInv, HostOK
        <4> QED BY <4>1, HeadTailProperties, SMTT(30)
      <3> QED BY <1>1, <2>1, <3>1, Zenon DEF Send
    <2>2. CASE CheckErrors(Head(rep).val.err) \/ Drain(Head(rep).val.byte)
      BY <2>2, Zenon DEF CheckErrors, Drain
    <2> QED BY <1>1, <2>1, <2>2, ReceiveCases, Zenon DEF said
  <1>2. CASE Attempt \/ GiveUp \/ Stdin \/ Interrupt \/ Service \/ ArpRefresh \/ Renew \/ eb_serve_pending \/ CorePrints
             \/ Transmit \/ Disturb
    BY <1>2, ZenonT(60) DEF Attempt, GiveUp, Stdin, Interrupt, Service, ArpRefresh, Renew, eb_serve_pending, CorePrints,
                            Transmit, Disturb, said
  <1> QED BY <1>1, <1>2, Zenon DEF Next, Step

\* Every step keeps the account of accepted bytes: a byte is written where
\* tx_fifo has room, and arrives before anything else is under way.
LEMMA QuietWriteStep == TypeInv /\ LineInv /\ QuietWriteInv /\ Next => QuietWriteInv'
  <1> SUFFICES ASSUME TypeInv, LineInv, QuietWriteInv, Next, Undisturbed'
               PROVE  /\ Sent' \o Written' = claimed'
                      /\ \A n \in Nat : Pending(Write("console_tx_data", n))' => Len(tx') < TX_DEPTH
                      /\ (rep \in Seq(Room))'
    BY Zenon DEF QuietWriteInv, AcceptedLands, Sent
  <1>1. Undisturbed /\ Sequenced /\ faults' = faults
    BY FaultsGrow
  <1>2. Sequenced'
    BY <1>1 DEF Sequenced
  <1>3. /\ Sent \o Written = claimed /\ rep \in Seq(Room) /\ Lined(req, slot, rep)
        /\ \A n \in Nat : Pending(Write("console_tx_data", n)) => Len(tx) < TX_DEPTH
    BY <1>1, Zenon DEF QuietWriteInv, AcceptedLands, Sent, LineInv
  <1>4. TypeInv' /\ LineInv' /\ Lined(req', slot', rep')
    <2>1. TypeInv' /\ LineInv'
      BY TypeStep, LineStep, Zenon
    <2> QED BY <1>2, <2>1, Zenon DEF LineInv
  <1>5. (rep \in Seq(Room))'
    BY <1>1, <1>3, <1>4, RoomStep
  <1>6. \/ Written = << >> /\ \A n \in Nat : ~Pending(Write("console_tx_data", n))
        \/ \E n \in Nat : /\ Written = << n >> /\ Pending(Write("console_tx_data", n))
                          /\ \A k \in Nat : Pending(Write("console_tx_data", k)) => k = n
    BY <1>1, WrittenIs, Zenon DEF OneByte
  <1>7. \/ Written' = << >> /\ \A n \in Nat : ~Pending(Write("console_tx_data", n))'
        \/ \E n \in Nat : /\ Written' = << n >> /\ Pending(Write("console_tx_data", n))'
                          /\ \A k \in Nat : Pending(Write("console_tx_data", k))' => k = n
    <2>1. OneByte'
      BY <1>2, <1>4, WrittenIs, PTL
    <2> QED BY <2>1, Zenon DEF OneByte
  <1>8. /\ Sent \in Seq(Nat) /\ claimed \in Seq(Nat) /\ Len(claimed) \in Nat /\ tx \in Seq(Nat) /\ Len(tx) \in Nat
        /\ TX_DEPTH \in Nat
    BY SentStep, SessionAssumption, LenProperties, SMTT(60) DEF TypeInv, HostOK, BoardOK
  <1>9. CASE claimed' = claimed /\ Sent' = Sent
    <2>1. ASSUME NEW n \in Nat, Pending(Write("console_tx_data", n))', ~Pending(Write("console_tx_data", n)) PROVE FALSE
      <3>1. Receive /\ req' = Append(req, Write("console_tx_data", n))
        BY <1>2, <2>1, ByteFacts, PendingStep, Zenon
      <3>2. claimed' = Append(claimed, n)
        BY <3>1, ReceiveTypes
      <3>3. Len(Append(claimed, n)) = Len(claimed) + 1
        BY <1>8
      <3> QED BY <1>8, <1>9, <3>2, <3>3
    <2>2. ASSUME NEW n \in Nat, Pending(Write("console_tx_data", n)), ~Pending(Write("console_tx_data", n))' PROVE FALSE
      <3>1. eb_serve_pending /\ slot # << >> /\ slot[1] = Write("console_tx_data", n)
        BY <1>3, <2>2, ByteFacts, PendingKept, Zenon
      <3>2. Access(Write("console_tx_data", n))
        BY <3>1, ServeCases, Zenon
      <3>3. Len(tx) # TX_DEPTH
        BY <1>3, <1>8, <2>2
      <3>4. tx' = Append(tx, n)
        BY <3>2, <3>3 DEF Access, Write
      <3>5. Len(tx') = Len(tx) + 1
        BY <1>8, <3>4
      <3>6. consumed' = consumed
        BY <3>1, ServeCases
      <3>7. tx' = tx \/ Len(tx') = Len(tx) - 1 \/ Sent' = Append(Sent, slot[1].val)
        BY SentStep, Zenon
      <3>8. Sent' = Append(Sent, slot[1].val) => Len(Sent') = Len(Sent) + 1 /\ Len(Sent) \in Nat
        BY <1>8, <3>1, ByteFacts
      <3>9. Sent' # Append(Sent, slot[1].val)
        BY <1>9, <3>8
      <3>10. tx' # tx /\ Len(tx') # Len(tx) - 1
        BY <1>8, <3>5
      <3> QED BY <3>7, <3>9, <3>10, Zenon
    <2>3. Written' = Written
      <3>1. \A n \in Nat : Pending(Write("console_tx_data", n))' <=> Pending(Write("console_tx_data", n))
        BY <2>1, <2>2, Zenon
      <3>2. CASE \A n \in Nat : ~Pending(Write("console_tx_data", n))
        <4>1. Written = << >> /\ Written' = << >>
          BY <1>6, <1>7, <3>1, <3>2, Zenon
        <4> QED BY <4>1, Zenon
      <3>3. CASE \E n \in Nat : Pending(Write("console_tx_data", n))
        <4> PICK n \in Nat : Pending(Write("console_tx_data", n))
          BY <3>3, Zenon
        <4>1. Written = << n >>
          BY <1>6, Zenon
        <4>2. Written' = << n >>
          BY <1>7, <3>1, Zenon
        <4> QED BY <4>1, <4>2, Zenon
      <3> QED BY <3>2, <3>3, Zenon
    <2>4. Len(tx') <= Len(tx) /\ Len(tx') \in Nat
      <3>1. Len(tx') \in Nat
        BY <1>4, LenProperties DEF TypeInv, BoardOK
      <3>2. CASE tx' = tx \/ Len(tx') = Len(tx) - 1
        BY <1>8, <3>1, <3>2
      <3>3. CASE slot[1] \in Bytes /\ Sent' = Append(Sent, slot[1].val)
        <4>1. Len(Sent') = Len(Sent) + 1 /\ Len(Sent) \in Nat
          BY <1>8, <3>3, ByteFacts
        <4> QED BY <1>9, <4>1
      <3> QED BY <3>2, <3>3, SentStep, Zenon
    <2>5. \A n \in Nat : Pending(Write("console_tx_data", n))' => Len(tx') < TX_DEPTH
      <3>1. Len(tx) < TX_DEPTH => Len(tx') < TX_DEPTH
        BY <1>8, <2>4
      <3> QED BY <1>3, <2>1, <3>1, Zenon
    <2> QED BY <1>3, <1>5, <1>9, <2>3, <2>5, ZenonT(30)
  <1>10. CASE Receive /\ \E n \in Nat : req' = Append(req, Write("console_tx_data", n))
    <2> PICK n \in Nat : req' = Append(req, Write("console_tx_data", n))
      BY <1>10, Zenon
    <2>1. /\ claimed' = Append(claimed, n) /\ ~Head(rep).val.full /\ pc = "send"
          /\ tries > 0 /\ Head(rep).current
      BY <1>10, ReceiveTypes
    <2>2. \A m : ~Pending(m)
      BY <1>3, <1>10, <2>1, ReceiveAlone, SMTT(60)
    <2>3. tx' = tx /\ consumed' = consumed
      BY <1>10 DEF Receive, regs
    <2>4. Pending(Write("console_tx_data", n))'
      <3>1. req \in Seq(Requests)
        BY DEF TypeInv, MsgOK
      <3> QED BY <3>1, AmongSent, Zenon DEF Pending
    <2>5. Written = << >> /\ Written' = << n >>
      BY <1>6, <1>7, <2>2, <2>4, Zenon
    <2>6. Sent = claimed
      BY <1>3, <1>8, <2>5, ConcatEmptySeq
    <2>7. Sent' \o Written' = claimed'
      <3>1. Sent' = Sent
        BY <2>3 DEF Sent
      <3>2. Append(Sent, n) = Sent \o << n >>
        BY <1>8, AppendIsConcat
      <3> QED BY <2>1, <2>5, <2>6, <3>1, <3>2, Zenon
    <2>8. Len(tx') < TX_DEPTH
      <3>1. Head(rep) \in Room
        BY <1>3, <1>10, HeadTailProperties DEF Receive
      <3> QED BY <2>1, <2>3, <3>1, ZenonT(30) DEF Room
    <2> QED BY <1>5, <2>7, <2>8, Zenon
  <1>11. CASE eb_serve_pending /\ slot # << >> /\ slot[1] \in Bytes /\ Sent' = Append(Sent, slot[1].val)
    <2> DEFINE v == slot[1].val
    <2>1. v \in Nat /\ slot[1] = Write("console_tx_data", v) /\ slot[1].op = "write"
      BY <1>11, ByteFacts, Zenon
    <2>2. Pending(slot[1]) /\ \A m : m.op = "write" => ~Pending(m)'
      BY <1>3, <1>11, <2>1, SlotAlone, Zenon
    <2>3. \A n \in Nat : ~Pending(Write("console_tx_data", n))'
      BY <2>2, ByteFacts, Zenon
    <2>4. Written = << v >> /\ Written' = << >>
      BY <1>6, <1>7, <2>1, <2>2, <2>3, Zenon
    <2>5. claimed' = claimed
      BY <1>11, ServeCases DEF said
    <2>6. Sent' = claimed
      <3>1. Append(Sent, v) = Sent \o << v >>
        BY <1>8, <2>1, AppendIsConcat
      <3> QED BY <1>3, <1>11, <2>4, <3>1, Zenon
    <2>7. Sent' \o Written' = claimed'
      BY <1>8, <2>4, <2>5, <2>6, ConcatEmptySeq, SMTT(60)
    <2> QED BY <1>5, <2>3, <2>7, ZenonT(30)
  <1> QED BY <1>9, <1>10, <1>11, SentStep, ClaimedStep, Zenon

\* Nothing has been typed or written.
LEMMA QuietWriteInit == Init => QuietWriteInv
  <1> SUFFICES ASSUME Init PROVE QuietWriteInv
    OBVIOUS
  <1>1. req = << >> /\ slot = << >> /\ rep = << >> /\ claimed = << >>
    BY DEF Init
  <1>2. \A m : ~Pending(m)
    BY <1>1, AmongFew, Zenon DEF Pending
  <1>3. Written = << >>
    <2>1. LineInv /\ Sequenced
      BY LineInit DEF Init, Sequenced
    <2> QED BY <1>2, <2>1, TypeInit, WrittenIs, Zenon DEF OneByte
  <1>4. consumed \o tx \o << >> = << >>
    BY DEF Init
  <1>5. rep \in Seq(Room)
    BY <1>1
  <1> QED BY <1>1, <1>2, <1>3, <1>4, <1>5, ZenonT(30) DEF QuietWriteInv, AcceptedLands

\* A stuttering step keeps it.
LEMMA QuietWriteStutter == QuietWriteInv /\ UNCHANGED <<vars, scenario>> => QuietWriteInv'
  <1> SUFFICES ASSUME QuietWriteInv, UNCHANGED <<vars, scenario>> PROVE QuietWriteInv'
    OBVIOUS
  <1>1. /\ pc' = pc /\ tries' = tries /\ req' = req /\ slot' = slot /\ rep' = rep /\ tx' = tx /\ consumed' = consumed
        /\ claimed' = claimed /\ faults' = faults /\ printed' = printed
    BY DEF vars, client, board, regs, said
  <1>2. Written' = Written
    BY <1>1 DEF Written
  <1>3. Room' = Room
    BY <1>1 DEF Room, Answers, Words
  <1> QED BY <1>1, <1>2, <1>3, ZenonT(60) DEF QuietWriteInv, AcceptedLands, Undisturbed, Pending, Among

\* QuietWrites: what reached tx_fifo, with the byte under way, is what send
\* counted.
THEOREM QuietSends == Spec => []QuietWrites
  <1>1. QuietWriteInv => QuietWrites
    BY Zenon DEF QuietWriteInv, QuietWrites
  <1>2. TypeInv /\ LineInv /\ QuietWriteInv /\ [Next]_<<vars, scenario>> => QuietWriteInv'
    BY QuietWriteStep, QuietWriteStutter, Zenon
  <1> QED BY <1>1, <1>2, QuietWriteInit, SessionInvariant, LineInvariant, PTL DEF Spec
=============================================================================
