--------------------------- MODULE EtherboneCodec ---------------------------
(***************************************************************************)
(* eb8008_handle: one Etherbone datagram is decoded, its accesses are made *)
(* on the bus, and the reply is built in a buffer sized after the request. *)
(*                                                                         *)
(* Lengths are in 32-bit words.  req is what follows the two header words; *)
(* a word read as a record header holds two counts, its bytes 2 and 3, as  *)
(* the digits of a number in base K.                                       *)
(***************************************************************************)
EXTENDS Integers, SequencesExt

CONSTANTS K,          \* counts are 0 .. K - 1 (256)
          Words, MaxLen,
          Addresses,  \* word addresses 0 .. Addresses - 1; they wrap (2^32)
          MaxRecords

ASSUME CodecConstants ==
  /\ K \in Nat \ {0} /\ Words \subseteq Nat
  /\ MaxLen \in Nat /\ MaxRecords \in Nat /\ Addresses \in Nat \ {0}

VARIABLES kind,      \* what the header says: not ours, a probe, or records
          req,
          sent,      \* the records req encodes, whole or cut short, or <<>> for
                     \* any other packet
          pc, p,     \* p: words of req consumed
          wcount, rcount,
          addr,      \* address of the next write
          mem,
          resp,      \* reply records, the last one being filled
          resp_len

vars == <<kind, req, sent, pc, p, wcount, rcount, addr, mem, resp, resp_len>>

\* A record as the client means it, and its words.
Records == [addr : 0 .. Addresses - 1, writes : SeqOf({0, 1}, K - 1),
            ret : {0, 1}, reads : SeqOf(0 .. Addresses - 1, K - 1)]
Encode(rec) ==
  <<Len(rec.writes) * K + Len(rec.reads)>>
  \o (IF rec.writes = <<>> THEN <<>> ELSE <<rec.addr>> \o rec.writes)
  \o (IF rec.reads = <<>> THEN <<>> ELSE <<rec.ret>> \o rec.reads)
Zero == [a \in 0 .. Addresses - 1 |-> 0]

TypeOK ==
  /\ kind \in {"bad", "probe", "records"} /\ req \in Seq(Nat)
  /\ pc \in {"header", "record", "write", "writing", "read", "reading", "done"}
  /\ p \in Nat /\ p <= Len(req)
  /\ wcount \in Nat /\ rcount \in Nat /\ resp_len \in Nat

Init ==
  /\ kind \in {"bad", "probe", "records"}
  /\ \/ sent = <<>> /\ req \in SeqOf(Words, MaxLen)
     \/ /\ kind = "records" /\ sent \in SeqOf(Records, MaxRecords) \ {<<>>}
        /\ LET whole == FlattenSeq([i \in DOMAIN sent |-> Encode(sent[i])])
           IN \E n \in 0 .. Len(whole) : req = SubSeq(whole, 1, n)
  /\ req \in Seq(Nat)
  /\ pc = "header" /\ p = 0 /\ wcount = 0 /\ rcount = 0 /\ addr = 0
  /\ mem = Zero /\ resp = <<>> /\ resp_len = 0

Header ==
  /\ pc = "header"
  /\ pc' = IF kind = "records" THEN "record" ELSE "done"
  /\ resp_len' = IF kind = "probe" THEN 3 ELSE 0
  /\ UNCHANGED <<kind, req, sent, p, wcount, rcount, addr, mem, resp>>

Record ==
  /\ pc = "record"
  /\ \/ /\ p + 1 <= Len(req)
        /\ wcount' = (req[p + 1] \div K) % K /\ rcount' = req[p + 1] % K
        /\ p' = p + 1 /\ pc' = "write"
     \/ /\ p + 1 > Len(req) /\ pc' = "done"
        /\ UNCHANGED <<p, wcount, rcount>>
  /\ UNCHANGED <<kind, req, sent, addr, mem, resp, resp_len>>

\* The length checks before the two loops.
Short_Data(n) == p + n > Len(req)
Short(n) == p + (1 + n) > Len(req)

WriteHead ==
  /\ pc = "write"
  /\ \/ wcount = 0 /\ pc' = "read" /\ UNCHANGED <<p, addr>>
     \/ wcount > 0 /\ Short(wcount) /\ pc' = "done" /\ UNCHANGED <<p, addr>>
     \/ /\ wcount > 0 /\ ~Short(wcount)
        /\ addr' = req[p + 1] /\ p' = p + 1 /\ pc' = "writing"
  /\ UNCHANGED <<kind, req, sent, wcount, rcount, mem, resp, resp_len>>

WriteWord_Fixed ==
  /\ pc = "writing"
  /\ mem' = [mem EXCEPT ![addr % Addresses] = req[p + 1]]
  /\ addr' = addr /\ p' = p + 1 /\ wcount' = wcount - 1
  /\ pc' = IF wcount' = 0 THEN "read" ELSE "writing"
  /\ UNCHANGED <<kind, req, sent, rcount, resp, resp_len>>
WriteWord ==
  /\ pc = "writing"
  /\ mem' = [mem EXCEPT ![addr % Addresses] = req[p + 1]]
  /\ addr' = addr + 1 /\ p' = p + 1 /\ wcount' = wcount - 1
  /\ pc' = IF wcount' = 0 THEN "read" ELSE "writing"
  /\ UNCHANGED <<kind, req, sent, rcount, resp, resp_len>>

NewRecord(ret) == Append(resp, [ret |-> ret, values |-> <<>>])
Answered(a) == [resp EXCEPT ![Len(resp)].values = Append(@, mem[a % Addresses])]

\* The first record to read brings the reply's own two header words.
ReadHead_Headers ==
  /\ pc = "read"
  /\ \/ rcount = 0 /\ pc' = "record" /\ UNCHANGED <<p, resp, resp_len>>
     \/ rcount > 0 /\ Short(rcount) /\ pc' = "done" /\ UNCHANGED <<p, resp, resp_len>>
     \/ /\ rcount > 0 /\ ~Short(rcount)
        /\ resp' = NewRecord(req[p + 1])
        /\ resp_len' = resp_len + 4
        /\ p' = p + 1 /\ pc' = "reading"
  /\ UNCHANGED <<kind, req, sent, wcount, rcount, addr, mem>>
ReadHead ==
  /\ pc = "read"
  /\ \/ rcount = 0 /\ pc' = "record" /\ UNCHANGED <<p, resp, resp_len>>
     \/ rcount > 0 /\ Short(rcount) /\ pc' = "done" /\ UNCHANGED <<p, resp, resp_len>>
     \/ /\ rcount > 0 /\ ~Short(rcount)
        /\ resp' = NewRecord(req[p + 1])
        /\ resp_len' = (IF resp_len = 0 THEN 2 ELSE resp_len) + 2
        /\ p' = p + 1 /\ pc' = "reading"
  /\ UNCHANGED <<kind, req, sent, wcount, rcount, addr, mem>>

ReadWord ==
  /\ pc = "reading"
  /\ resp' = Answered(req[p + 1])
  /\ resp_len' = resp_len + 1
  /\ p' = p + 1 /\ rcount' = rcount - 1
  /\ pc' = IF rcount' = 0 THEN "record" ELSE "reading"
  /\ UNCHANGED <<kind, req, sent, wcount, addr, mem>>

Next == Header \/ Record \/ WriteHead \/ WriteWord \/ ReadHead \/ ReadWord

Spec == Init /\ [][Next]_vars

-----------------------------------------------------------------------------
\* No count in a packet makes the decoder read past the datagram: a word is
\* there for every turn of the two loops (eb8008.c:94, :105).
ReadsInside == pc \in {"writing", "reading"} => p < Len(req)

\* The reply is no longer than the request, a probe's reply aside, and so
\* within the req_len + 16 bytes of its buffer (eb8008.h, eb_serve.c:29).
ReplyFits == resp_len <= 2 + Len(req) \/ (kind = "probe" /\ resp_len = 3)

\* What a client's records mean: each record's writes, then its reads.
After(m, rec) ==
  [a \in DOMAIN m |->
     LET hits == {i \in DOMAIN rec.writes : (rec.addr + i - 1) % Addresses = a}
     IN IF hits = {} THEN m[a] ELSE rec.writes[Max(hits)]]
MemAfter(n) == FoldLeft(After, Zero, SubSeq(sent, 1, n))

\* Record i has arrived as far as its writes, or as a whole.
EndOf(i) == Len(FlattenSeq([j \in 1 .. i |-> Encode(sent[j])]))
WritesCame(i) == EndOf(i - 1) + Len(Encode([sent[i] EXCEPT !.reads = <<>>])) <= Len(req)
Came(i) == EndOf(i) <= Len(req)

\* A packet is executed in order as far as it came: a burst of writes whole or
\* not at all, reads seeing every write before them, and no reply to reads that
\* are cut off, although the writes of their record are done (eb8008.c:93-106).
RequestsExact ==
  pc = "done" /\ sent # <<>> =>
    /\ mem = MemAfter(Cardinality({i \in DOMAIN sent : WritesCame(i)}))
    /\ LET asked == SelectSeq([i \in DOMAIN sent |-> i],
                              LAMBDA i : sent[i].reads # <<>> /\ Came(i))
       IN resp = [j \in DOMAIN asked |->
                    LET i == asked[j] IN
                    [ret |-> sent[i].ret,
                     values |-> [k \in DOMAIN sent[i].reads |-> MemAfter(i)[sent[i].reads[k]]]]]
=============================================================================
