--------------------------- MODULE SelfTestProofs ---------------------------
(***************************************************************************)
(* What a pass and a failure of the self-test show, for all texts,         *)
(* commands and patterns, however the console's output is cut up by the    *)
(* polls.                                                                  *)
(***************************************************************************)
EXTENDS SelfTest, SequenceTheorems, TLAPS

\* What the current poll has collected or will still collect.
Ahead == Seen \o toPrint

SelfTypes ==
  /\ check \in {"banner", "send", "marker", "scratch", "burst", "end"}
  /\ buf \in Seq(Char) /\ fifo \in Seq(Char) /\ toPrint \in Seq(Char) /\ heard \in Seq(Char)
  /\ typed \in Seq(Char) /\ failures \in Nat
  /\ check = "send" => todo \in Seq(Char) /\ todo # <<>>
  /\ check = "scratch" => todo \in Seq(Nat) /\ todo # <<>>

\* What is known while no check has failed: the bytes drained begin with the
\* prefix.  Until the monitor has the whole command, no marker is under way
\* that the polls after the banner could see.
Evidence ==
  /\ check = "banner" => heard = buf /\ typed = <<>> /\ ~Within(HELP_MARKER, toPrint)
  /\ check # "banner" /\ failures = 0 => IsPrefix(BANNER_PREFIX, heard)
  /\ check = "send" => Len(typed) + Len(todo) <= Len(HELP_COMMAND)
  /\ check \in {"send", "marker"} /\ typed # HELP_COMMAND => ~Within(HELP_MARKER, Ahead)
  /\ check \in {"scratch", "burst", "end"} /\ failures = 0 => typed = HELP_COMMAND
  /\ check = "end" /\ failures = 0 => scratch = Last(Patterns)

\* What is still to come while there is no excuse.
Cause ==
  excuse \in BOOLEAN /\ (~excuse =>
    /\ failures = 0
    /\ check = "banner" => IsPrefix(BANNER_PREFIX, Ahead)
    /\ check = "send" => typed \o todo = HELP_COMMAND
    /\ check = "marker" => Within(HELP_MARKER, Ahead)
    /\ check = "scratch" => Last(todo) = Last(Patterns)
    /\ check = "burst" => scratch = Last(Patterns))

-----------------------------------------------------------------------------
(* Texts.                                                                  *)

\* A text is in another when it stands somewhere in it, byte for byte.
LEMMA WithinAt ==
  \A m, b \in Seq(Char) :
    Within(m, b) <=> \E i \in 0 .. Len(b) - Len(m) : \A j \in 1 .. Len(m) : b[i + j] = m[j]
  <1> TAKE m, b \in Seq(Char)
  <1>1. Len(m) \in Nat /\ Len(b) \in Nat
    BY LenProperties
  <1>2. ASSUME NEW i \in 0 .. Len(b) - Len(m)
        PROVE  SubSeq(b, i + 1, i + Len(m)) = m <=> \A j \in 1 .. Len(m) : b[i + j] = m[j]
    <2> DEFINE s == SubSeq(b, i + 1, i + Len(m))
    <2>1. \A k \in i + 1 .. i + Len(m) : b[k] \in Char
      <3>1. \A k \in i + 1 .. i + Len(m) : k \in 1 .. Len(b)
        BY <1>1
      <3> QED BY <3>1, ElementOfSeq, Zenon
    <2>2. /\ s \in Seq(Char)
          /\ Len(s) = IF i + 1 <= i + Len(m) THEN i + Len(m) - (i + 1) + 1 ELSE 0
          /\ \A j \in 1 .. i + Len(m) - (i + 1) + 1 : s[j] = b[i + 1 + j - 1]
      BY <1>1, <2>1, SubSeqProperties
    <2>3. Len(s) = Len(m)
      BY <1>1, <2>2
    <2>4. \A j \in 1 .. Len(m) : j \in 1 .. i + Len(m) - (i + 1) + 1 /\ i + 1 + j - 1 = i + j
      BY <1>1
    <2>5. \A j \in 1 .. Len(m) : s[j] = b[i + j]
      BY <2>2, <2>4, Zenon
    <2> HIDE DEF s
    <2>6. (\A j \in 1 .. Len(m) : b[i + j] = m[j]) => s = m
      BY <2>2, <2>3, <2>5, SeqEqual
    <2>7. s = m => \A j \in 1 .. Len(m) : b[i + j] = m[j]
      BY <2>5
    <2> QED BY <2>6, <2>7 DEF s
  <1> QED BY <1>2, Zenon DEF Within

\* It stays in the text when more text comes after or before it.
LEMMA WithinGrows ==
  \A m, s, t \in Seq(Char) :
    (Within(m, s) \/ Within(m, t)) => Within(m, s \o t)
  <1> TAKE m, s, t \in Seq(Char)
  <1>1. Len(m) \in Nat /\ Len(s) \in Nat /\ Len(t) \in Nat
    BY LenProperties
  <1>2. /\ s \o t \in Seq(Char) /\ Len(s \o t) = Len(s) + Len(t)
        /\ \A k \in 1 .. Len(s) + Len(t) : (s \o t)[k] = IF k <= Len(s) THEN s[k] ELSE t[k - Len(s)]
    BY ConcatProperties
  <1> DEFINE u == s \o t
  <1> HIDE DEF u
  <1>3. u \in Seq(Char) /\ Len(u) = Len(s) + Len(t)
    BY <1>2 DEF u
  <1>4. CASE Within(m, s)
    <2>1. PICK i \in 0 .. Len(s) - Len(m) : \A j \in 1 .. Len(m) : s[i + j] = m[j]
      BY <1>4, WithinAt, Zenon
    <2>2. i \in 0 .. Len(u) - Len(m)
      BY <1>1, <1>3
    <2>3. ASSUME NEW j \in 1 .. Len(m) PROVE u[i + j] = m[j]
      <3>1. i + j \in 1 .. Len(s) + Len(t) /\ i + j <= Len(s)
        BY <1>1
      <3>2. u[i + j] = s[i + j]
        BY <1>2, <3>1, Zenon DEF u
      <3> QED BY <2>1, <3>2
    <2> QED BY <1>3, <2>2, <2>3, WithinAt, Zenon DEF u
  <1>5. CASE Within(m, t)
    <2>1. PICK i \in 0 .. Len(t) - Len(m) : \A j \in 1 .. Len(m) : t[i + j] = m[j]
      BY <1>5, WithinAt, Zenon
    <2>2. i + Len(s) \in 0 .. Len(u) - Len(m)
      BY <1>1, <1>3
    <2>3. ASSUME NEW j \in 1 .. Len(m) PROVE u[(i + Len(s)) + j] = m[j]
      <3>1. /\ (i + Len(s)) + j \in 1 .. Len(s) + Len(t) /\ ~((i + Len(s)) + j <= Len(s))
            /\ ((i + Len(s)) + j) - Len(s) = i + j
        BY <1>1
      <3>2. u[(i + Len(s)) + j] = t[((i + Len(s)) + j) - Len(s)]
        BY <1>2, <3>1, Zenon DEF u
      <3> QED BY <2>1, <3>1, <3>2
    <2> QED BY <1>3, <2>2, <2>3, WithinAt, Zenon DEF u
  <1> QED BY <1>4, <1>5, Zenon

\* What has a text's first bytes is as long as they are and agrees on them.
LEMMA PrefixAt ==
  \A p, b \in Seq(Char) :
    IsPrefix(p, b) <=> Len(p) <= Len(b) /\ \A j \in 1 .. Len(p) : b[j] = p[j]
  <1> TAKE p, b \in Seq(Char)
  <1>1. Len(p) \in Nat /\ Len(b) \in Nat
    BY LenProperties
  <1> SUFFICES ASSUME Len(p) <= Len(b)
               PROVE  SubSeq(p, 1, Len(p)) = SubSeq(b, 1, Len(p)) <=> \A j \in 1 .. Len(p) : b[j] = p[j]
    BY Zenon DEF IsPrefix
  <1>2. \A q \in {p, b} : \A k \in 1 .. Len(p) : q[k] \in Char
    <2>1. \A k \in 1 .. Len(p) : k \in 1 .. Len(b)
      BY <1>1
    <2> QED BY <2>1, ElementOfSeq
  <1>3. ASSUME NEW q \in {p, b}
        PROVE  /\ SubSeq(q, 1, Len(p)) \in Seq(Char) /\ Len(SubSeq(q, 1, Len(p))) = Len(p)
               /\ \A j \in 1 .. Len(p) : SubSeq(q, 1, Len(p))[j] = q[j]
    <2>1. /\ SubSeq(q, 1, Len(p)) \in Seq(Char)
          /\ Len(SubSeq(q, 1, Len(p))) = IF 1 <= Len(p) THEN Len(p) - 1 + 1 ELSE 0
          /\ \A j \in 1 .. Len(p) - 1 + 1 : SubSeq(q, 1, Len(p))[j] = q[1 + j - 1]
      BY <1>1, <1>2, SubSeqProperties
    <2>2. \A j \in 1 .. Len(p) : j \in 1 .. Len(p) - 1 + 1 /\ 1 + j - 1 = j
      BY <1>1
    <2>3. \A j \in 1 .. Len(p) : SubSeq(q, 1, Len(p))[j] = q[j]
      BY <2>1, <2>2, Zenon
    <2>4. Len(SubSeq(q, 1, Len(p))) = Len(p)
      BY <1>1, <2>1
    <2> QED BY <2>1, <2>3, <2>4, Zenon
  <1> DEFINE sp == SubSeq(p, 1, Len(p))
             sb == SubSeq(b, 1, Len(p))
  <1>4. /\ sp \in Seq(Char) /\ Len(sp) = Len(p) /\ \A j \in 1 .. Len(p) : sp[j] = p[j]
        /\ sb \in Seq(Char) /\ Len(sb) = Len(p) /\ \A j \in 1 .. Len(p) : sb[j] = b[j]
    BY <1>3
  <1> HIDE DEF sp, sb
  <1>5. (\A j \in 1 .. Len(p) : b[j] = p[j]) => sp = sb
    BY <1>4, SeqEqual
  <1>6. sp = sb => \A j \in 1 .. Len(p) : b[j] = p[j]
    BY <1>4
  <1> QED BY <1>5, <1>6 DEF sp, sb

\* A text that begins with the prefix still does when it grows.
LEMMA PrefixGrows ==
  \A p, s, t \in Seq(Char) : IsPrefix(p, s) => IsPrefix(p, s \o t)
  <1> TAKE p, s, t \in Seq(Char)
  <1> HAVE IsPrefix(p, s)
  <1>1. Len(p) \in Nat /\ Len(s) \in Nat /\ Len(t) \in Nat
    BY LenProperties
  <1>2. Len(p) <= Len(s) /\ \A j \in 1 .. Len(p) : s[j] = p[j]
    BY PrefixAt, Zenon
  <1>3. /\ s \o t \in Seq(Char) /\ Len(s \o t) = Len(s) + Len(t)
        /\ \A k \in 1 .. Len(s) + Len(t) : (s \o t)[k] = IF k <= Len(s) THEN s[k] ELSE t[k - Len(s)]
    BY ConcatProperties
  <1>4. Len(p) <= Len(s \o t)
    BY <1>1, <1>2, <1>3
  <1>5. \A j \in 1 .. Len(p) : j \in 1 .. Len(s) + Len(t) /\ j <= Len(s)
    BY <1>1, <1>2
  <1>6. \A j \in 1 .. Len(p) : (s \o t)[j] = p[j]
    BY <1>2, <1>3, <1>5, Zenon
  <1> QED BY <1>3, <1>4, <1>6, PrefixAt, Zenon

-----------------------------------------------------------------------------
(* The checks.                                                             *)

SelfInv == SelfTypes /\ Evidence /\ Cause

\* Texts are joined in any grouping.
LEMMA Joined == \A s, t, u \in Seq(Char) : (s \o t) \o u = s \o (t \o u)
  BY ConcatAssociative, SMTT(30)

\* The constants are texts.
LEMMA Texts ==
  /\ BANNER_PREFIX \in Seq(Char) /\ Banner \in Seq(Char) /\ HELP_COMMAND \in Seq(Char)
  /\ HELP_MARKER \in Seq(Char) /\ Help \in Seq(Char) /\ <<>> \in Seq(Char)
  BY SelfTestConstants

\* What lies ahead is text.
LEMMA AheadIs == SelfTypes => Seen \in Seq(Char) /\ Ahead \in Seq(Char)
  <1> SUFFICES ASSUME SelfTypes PROVE Seen \in Seq(Char) /\ Ahead \in Seq(Char)
    OBVIOUS
  <1>1. Seen \in Seq(Char)
    BY ConcatProperties DEF SelfTypes, Seen
  <1> QED BY <1>1, ConcatProperties DEF SelfTypes, Ahead

\* After a poll that ends only what the monitor still prints lies ahead.
LEMMA AheadReset ==
  SelfTypes /\ buf' = <<>> /\ fifo' = <<>> /\ toPrint' = toPrint => Ahead' = toPrint
  <1> SUFFICES ASSUME SelfTypes, buf' = <<>>, fifo' = <<>>, toPrint' = toPrint
               PROVE  Ahead' = toPrint
    OBVIOUS
  <1>1. Ahead' = (<<>> \o <<>>) \o toPrint
    BY Zenon DEF Ahead, Seen
  <1>2. <<>> \o <<>> = <<>> /\ <<>> \o toPrint = toPrint
    BY Texts, ConcatEmptySeq DEF SelfTypes
  <1> QED BY <1>1, <1>2, Zenon

\* A poll that goes on keeps what it has drained.
LEMMA AheadDrained ==
  SelfTypes /\ buf' = Seen /\ fifo' = <<>> /\ toPrint' = toPrint => Ahead' = Ahead
  <1> SUFFICES ASSUME SelfTypes, buf' = Seen, fifo' = <<>>, toPrint' = toPrint
               PROVE  Ahead' = Ahead
    OBVIOUS
  <1>1. Seen' = Seen \o <<>>
    BY Zenon DEF Seen
  <1>2. Seen \o <<>> = Seen
    BY AheadIs, ConcatEmptySeq
  <1> QED BY <1>1, <1>2, Zenon DEF Ahead

\* The monitor moves a byte from what it prints to the FIFO.
LEMMA MonitorMoves ==
  SelfTypes /\ Monitor =>
    /\ Ahead' = Ahead /\ fifo' \in Seq(Char) /\ toPrint' \in Seq(Char)
    /\ Within(HELP_MARKER, toPrint') => Within(HELP_MARKER, toPrint)
  <1> SUFFICES ASSUME SelfTypes, Monitor
               PROVE  /\ Ahead' = Ahead /\ fifo' \in Seq(Char) /\ toPrint' \in Seq(Char)
                      /\ Within(HELP_MARKER, toPrint') => Within(HELP_MARKER, toPrint)
    OBVIOUS
  <1> DEFINE h == << Head(toPrint) >>
             t == Tail(toPrint)
  <1>1. toPrint # <<>> /\ fifo' = Append(fifo, Head(toPrint)) /\ toPrint' = t /\ buf' = buf
    BY DEF Monitor
  <1>2. buf \in Seq(Char) /\ fifo \in Seq(Char) /\ toPrint \in Seq(Char)
    BY DEF SelfTypes
  <1>3. Head(toPrint) \in Char /\ t \in Seq(Char)
    BY <1>1, <1>2, HeadTailProperties
  <1>4. h \in Seq(Char) /\ toPrint = h \o t
    BY <1>1, <1>2, <1>3
  <1>5. fifo' = fifo \o h
    BY <1>1, <1>2, <1>3, AppendIsConcat, SMTT(30)
  <1>6. fifo \o h \in Seq(Char)
    BY <1>2, <1>4, ConcatProperties
  <1> HIDE DEF h, t
  <1>7. Ahead' = (buf \o (fifo \o h)) \o t
    BY <1>1, <1>5, Zenon DEF Ahead, Seen
  <1>8. Ahead = (buf \o fifo) \o (h \o t)
    BY <1>4, Zenon DEF Ahead, Seen
  <1>9. (buf \o fifo) \o h = buf \o (fifo \o h)
    <2>1. h \in Seq(Char)
      BY <1>4, Zenon
    <2> QED BY <1>2, <2>1, Joined, ZenonT(30)
  <1>10. ((buf \o fifo) \o h) \o t = (buf \o fifo) \o (h \o t)
    <2>1. buf \o fifo \in Seq(Char)
      BY <1>2, ConcatProperties
    <2> QED BY <1>3, <1>4, <2>1, Joined, Zenon
  <1>11. Ahead' = Ahead
    BY <1>7, <1>8, <1>9, <1>10, Zenon
  <1>12. Within(HELP_MARKER, t) => Within(HELP_MARKER, toPrint)
    BY <1>3, <1>4, Texts, WithinGrows, Zenon
  <1> QED BY <1>1, <1>3, <1>5, <1>6, <1>11, <1>12, ZenonT(30)

\* The self-test starts on a board that boots or one that has been up.
LEMMA SelfInit == Init => SelfInv
  <1> SUFFICES ASSUME Init PROVE SelfInv
    OBVIOUS
  <1>1. /\ check = "banner" /\ buf = <<>> /\ failures = 0 /\ typed = <<>> /\ heard = <<>>
        /\ fifo \in Seq(Char) /\ toPrint \in Seq(Char) /\ (toPrint = Banner \/ toPrint = <<>>)
        /\ excuse = ~IsPrefix(BANNER_PREFIX, fifo \o toPrint)
    BY Texts, SelfTestConstants DEF Init
  <1>2. SelfTypes
    BY <1>1, Texts DEF SelfTypes
  <1>3. ~Within(HELP_MARKER, toPrint)
    <2>1. Banner \o <<>> = Banner
      BY Texts, ConcatEmptySeq
    <2>2. Within(HELP_MARKER, <<>>) => Within(HELP_MARKER, Banner)
      BY <2>1, Texts, WithinGrows, Zenon
    <2> QED BY <1>1, <2>2, SelfTestConstants, Zenon
  <1>4. Ahead = fifo \o toPrint
    <2>1. <<>> \o fifo = fifo
      BY <1>1, ConcatEmptySeq
    <2> QED BY <1>1, <2>1, Zenon DEF Ahead, Seen
  <1>5. Evidence
    BY <1>1, <1>3, Zenon DEF Evidence
  <1>6. Cause
    BY <1>1, <1>4, Zenon DEF Cause
  <1> QED BY <1>2, <1>5, <1>6 DEF SelfInv

\* A byte goes from the monitor to the FIFO: nothing is decided.
LEMMA MonitorStep == SelfInv /\ Monitor => SelfInv'
  <1> SUFFICES ASSUME SelfTypes, Evidence, Cause, Monitor PROVE SelfInv'
    BY DEF SelfInv
  <1>1. UNCHANGED <<check, buf, todo, failures, typed, scratch, heard, excuse>>
    BY DEF Monitor
  <1>2. /\ Ahead' = Ahead /\ fifo' \in Seq(Char) /\ toPrint' \in Seq(Char)
        /\ Within(HELP_MARKER, toPrint') => Within(HELP_MARKER, toPrint)
    BY MonitorMoves, Zenon
  <1>3. SelfTypes'
    BY <1>1, <1>2 DEF SelfTypes
  <1>4. Evidence'
    BY <1>1, <1>2 DEF Evidence
  <1>5. Cause'
    BY <1>1, <1>2 DEF Cause
  <1> QED BY <1>3, <1>4, <1>5, SMTT(30) DEF SelfInv

\* The turns of a poll, with what lies ahead after each.
LEMMA PollCases ==
  ASSUME SelfTypes, NEW found \in BOOLEAN, NEW next, NEW work, Poll(found, next, work)
  PROVE  /\ UNCHANGED <<toPrint, typed, scratch>> /\ heard' = heard \o fifo
         /\ heard' \in Seq(Char) /\ buf' \in Seq(Char) /\ fifo' \in Seq(Char)
         /\ \/ /\ found /\ check' = next /\ todo' = work /\ Ahead' = toPrint
               /\ UNCHANGED <<failures, excuse>>
            \/ /\ ~found /\ Ahead' = Ahead /\ buf' = Seen
               /\ UNCHANGED <<check, todo, failures, excuse>>
            \/ /\ ~found /\ check' = next /\ todo' = work /\ Ahead' = toPrint
               /\ failures' = failures + 1 /\ excuse' = (excuse \/ toPrint # <<>>)
  <1>1. fifo' = <<>> /\ heard' = heard \o fifo /\ UNCHANGED <<toPrint, typed, scratch>>
    BY DEF Poll, drain_rx
  <1>2. heard' \in Seq(Char) /\ fifo' \in Seq(Char) /\ Seen \in Seq(Char)
    BY <1>1, AheadIs, Texts, ConcatProperties, SMTT(30) DEF SelfTypes
  <1>3. \/ /\ found /\ check' = next /\ todo' = work /\ buf' = <<>>
           /\ UNCHANGED <<failures, excuse>>
        \/ /\ ~found /\ buf' = Seen
           /\ UNCHANGED <<check, todo, failures, excuse>>
        \/ /\ ~found /\ check' = next /\ todo' = work /\ buf' = <<>>
           /\ failures' = failures + 1 /\ excuse' = (excuse \/ toPrint # <<>>)
    BY Zenon DEF Poll
  <1>4. buf' = <<>> => Ahead' = toPrint
    BY <1>1, AheadReset
  <1>5. buf' = Seen => Ahead' = Ahead
    BY <1>1, AheadDrained
  <1> QED BY <1>1, <1>2, <1>3, <1>4, <1>5, Texts, ZenonT(30)

\* When all has been printed, a poll sees all there is.
LEMMA AllSeen == SelfTypes /\ toPrint = <<>> => Ahead = Seen
  <1> SUFFICES ASSUME SelfTypes, toPrint = <<>> PROVE Ahead = Seen
    OBVIOUS
  <1>1. Seen \o <<>> = Seen
    BY AheadIs, ConcatEmptySeq, SMTT(30)
  <1> QED BY <1>1, Zenon DEF Ahead

\* Check 2: a banner that is found was printed first; one that is not found
\* though all has been printed was not there.
LEMMA BannerStep == SelfInv /\ poll_banner => SelfInv'
  <1> SUFFICES ASSUME SelfTypes, Evidence, Cause, poll_banner PROVE SelfInv'
    BY DEF SelfInv
  <1> DEFINE found == find_prefix(Seen)
  <1>1. check = "banner" /\ Poll(found, "send", HELP_COMMAND)
    BY DEF poll_banner
  <1>2. found <=> IsPrefix(BANNER_PREFIX, Seen)
    BY DEF find_prefix
  <1>3. found \in BOOLEAN
    BY DEF find_prefix, IsPrefix
  <1> HIDE DEF found
  <1>4. /\ UNCHANGED <<toPrint, typed, scratch>> /\ heard' = heard \o fifo
        /\ heard' \in Seq(Char) /\ buf' \in Seq(Char) /\ fifo' \in Seq(Char)
    BY <1>1, <1>3, PollCases, SMTT(30)
  <1>5. \/ /\ found /\ check' = "send" /\ todo' = HELP_COMMAND /\ Ahead' = toPrint
           /\ UNCHANGED <<failures, excuse>>
        \/ /\ ~found /\ Ahead' = Ahead /\ buf' = Seen
           /\ UNCHANGED <<check, todo, failures, excuse>>
        \/ /\ ~found /\ check' = "send" /\ todo' = HELP_COMMAND /\ Ahead' = toPrint
           /\ failures' = failures + 1 /\ excuse' = (excuse \/ toPrint # <<>>)
    BY <1>1, <1>3, PollCases, SMTT(30)
  <1>6. heard = buf /\ typed = <<>> /\ ~Within(HELP_MARKER, toPrint) /\ heard' = Seen /\ failures \in Nat
    BY <1>1, <1>4, SMTT(30) DEF Evidence, Seen, SelfTypes
  <1>7. SelfTypes'
    <2>1. HELP_COMMAND \in Seq(Char) /\ HELP_COMMAND # <<>> /\ failures' \in Nat
      BY <1>5, <1>6, Texts, SelfTestConstants, SMTT(30)
    <2>2. check' \in {"banner", "send"} /\ (check' = "send" => todo' = HELP_COMMAND)
      BY <1>1, <1>5
    <2> QED BY <1>4, <2>1, <2>2, SMTT(30) DEF SelfTypes
  <1>8. Evidence'
    <2>1. CASE check' = "send"
      <3>1. Ahead' = toPrint /\ todo' = HELP_COMMAND
        BY <1>1, <1>5, <2>1, SMTT(30)
      <3>2. failures' = 0 => IsPrefix(BANNER_PREFIX, heard')
        BY <1>1, <1>2, <1>5, <1>6, <2>1, SMTT(30)
      <3>3. Len(typed') + Len(todo') <= Len(HELP_COMMAND)
        <4>1. typed' = <<>> /\ Len(HELP_COMMAND) \in Nat /\ Len(<<>>) = 0
          BY <1>4, <1>6, Texts, LenProperties, EmptySeq, SMTT(30)
        <4> QED BY <3>1, <4>1
      <3> QED BY <1>6, <2>1, <3>1, <3>2, <3>3, SMTT(30) DEF Evidence
    <2>2. CASE check' # "send"
      <3>1. check' = "banner" /\ buf' = Seen
        BY <1>1, <1>5, <2>2, SMTT(30)
      <3> QED BY <1>4, <1>6, <3>1, SMTT(30) DEF Evidence
    <2> QED BY <2>1, <2>2
  <1>9. Cause'
    <2> SUFFICES ASSUME ~excuse'
                 PROVE  /\ failures' = 0
                        /\ check' = "banner" => IsPrefix(BANNER_PREFIX, Ahead')
                        /\ check' = "send" => typed' \o todo' = HELP_COMMAND
                        /\ check' \in {"banner", "send"}
      BY <1>5 DEF Cause
    <2>1. ~excuse
      BY <1>5 DEF Cause
    <2>2. failures = 0 /\ IsPrefix(BANNER_PREFIX, Ahead)
      BY <1>1, <2>1 DEF Cause
    <2>3. ~(~found /\ excuse' = (excuse \/ toPrint # <<>>))
      BY <1>2, <2>2, AllSeen DEF Cause
    <2>4. typed' \o HELP_COMMAND = HELP_COMMAND
      BY <1>4, <1>6, Texts, ConcatEmptySeq
    <2> QED BY <1>1, <1>5, <2>2, <2>3, <2>4, SMTT(30)
  <1> QED BY <1>7, <1>8, <1>9 DEF SelfInv

\* Check 3: a marker that is found is the answer to this run's command; one
\* that is not found though all has been printed was not printed.
LEMMA MarkerStep == SelfInv /\ poll_marker => SelfInv'
  <1> SUFFICES ASSUME SelfTypes, Evidence, Cause, poll_marker PROVE SelfInv'
    BY DEF SelfInv
  <1> DEFINE found == has_marker(Seen)
  <1>1. check = "marker" /\ Poll(found, "scratch", Patterns)
    BY DEF poll_marker
  <1>2. found <=> Within(HELP_MARKER, Seen)
    BY DEF has_marker
  <1>3. found \in BOOLEAN
    BY DEF has_marker, Within
  <1> HIDE DEF found
  <1>4. /\ UNCHANGED <<toPrint, typed, scratch>> /\ heard' = heard \o fifo
        /\ heard' \in Seq(Char) /\ buf' \in Seq(Char) /\ fifo' \in Seq(Char)
    BY <1>1, <1>3, PollCases, SMTT(30)
  <1>5. \/ /\ found /\ check' = "scratch" /\ todo' = Patterns /\ Ahead' = toPrint
           /\ UNCHANGED <<failures, excuse>>
        \/ /\ ~found /\ Ahead' = Ahead /\ buf' = Seen
           /\ UNCHANGED <<check, todo, failures, excuse>>
        \/ /\ ~found /\ check' = "scratch" /\ todo' = Patterns /\ Ahead' = toPrint
           /\ failures' = failures + 1 /\ excuse' = (excuse \/ toPrint # <<>>)
    BY <1>1, <1>3, PollCases
  <1>6. failures \in Nat /\ (failures' = 0 => failures = 0)
    BY <1>5 DEF SelfTypes
  <1>7. SelfTypes'
    <2>1. Patterns \in Seq(Nat) /\ Patterns # <<>> /\ failures' \in Nat
      BY <1>5, <1>6, SelfTestConstants
    <2>2. check' \in {"marker", "scratch"} /\ (check' = "scratch" => todo' = Patterns)
      BY <1>1, <1>5
    <2> QED BY <1>4, <2>1, <2>2 DEF SelfTypes
  <1>8. Evidence'
    <2>1. failures' = 0 => IsPrefix(BANNER_PREFIX, heard')
      <3>1. heard \in Seq(Char) /\ fifo \in Seq(Char)
        BY DEF SelfTypes
      <3>2. failures = 0 => IsPrefix(BANNER_PREFIX, heard)
        BY <1>1 DEF Evidence
      <3> QED BY <1>4, <1>6, <3>1, <3>2, Texts, PrefixGrows, ZenonT(30)
    <2>2. found => typed = HELP_COMMAND
      <3>1. Within(HELP_MARKER, Seen) => Within(HELP_MARKER, Ahead)
        BY Texts, AheadIs, WithinGrows, Zenon DEF Ahead, SelfTypes
      <3> QED BY <1>1, <1>2, <3>1 DEF Evidence
    <2>3. failures + 1 # 0
      BY <1>6
    <2>4. CASE check' = "scratch"
      BY <1>1, <1>4, <1>5, <2>1, <2>2, <2>3, <2>4, SMTT(30) DEF Evidence
    <2>5. CASE check' # "scratch"
      <3>1. check' = "marker" /\ Ahead' = Ahead
        BY <1>1, <1>5, <2>5, SMTT(30)
      <3> QED BY <1>1, <1>4, <2>1, <3>1, SMTT(30) DEF Evidence
    <2> QED BY <2>4, <2>5
  <1>9. Cause'
    <2> SUFFICES ASSUME ~excuse'
                 PROVE  /\ failures' = 0
                        /\ check' = "marker" => Within(HELP_MARKER, Ahead')
                        /\ check' = "scratch" => Last(todo') = Last(Patterns)
                        /\ check' \in {"marker", "scratch"}
      BY <1>5 DEF Cause
    <2>1. ~excuse
      BY <1>5 DEF Cause
    <2>2. failures = 0 /\ Within(HELP_MARKER, Ahead)
      BY <1>1, <2>1 DEF Cause
    <2>3. ~(~found /\ excuse' = (excuse \/ toPrint # <<>>))
      BY <1>2, <2>2, AllSeen DEF Cause
    <2> QED BY <1>1, <1>5, <2>2, <2>3, SMTT(30)
  <1> QED BY <1>7, <1>8, <1>9 DEF SelfInv

\* The rest of what is to be written.
LEMMA Rest ==
  \A S : \A q \in Seq(S) : q # <<>> =>
    /\ Len(q) \in Nat \ {0} /\ Head(q) \in S /\ Tail(q) \in Seq(S) /\ Len(Tail(q)) = Len(q) - 1
    /\ q = << Head(q) >> \o Tail(q)
    /\ Len(q) = 1 => Tail(q) = <<>> /\ Last(q) = Head(q)
    /\ Len(q) # 1 => Tail(q) # <<>> /\ Last(Tail(q)) = Last(q)
  <1> TAKE S
  <1> TAKE q \in Seq(S)
  <1> HAVE q # <<>>
  <1>1. Len(q) \in Nat \ {0}
    BY EmptySeq, Zenon
  <1>2. /\ Head(q) \in S /\ Tail(q) \in Seq(S) /\ Len(Tail(q)) = Len(q) - 1
        /\ \A i \in 1 .. Len(Tail(q)) : Tail(q)[i] = q[i + 1]
    BY HeadTailProperties
  <1>3. q = << Head(q) >> \o Tail(q)
    BY <1>1
  <1>4. ASSUME Len(q) = 1 PROVE Tail(q) = <<>> /\ Last(q) = Head(q)
    <2>1. Len(Tail(q)) = 0
      BY <1>2, <1>4
    <2>2. Tail(q) = <<>>
      BY <1>2, <2>1, EmptySeq
    <2>3. Head(q) = q[1]
      BY <1>1
    <2> QED BY <1>4, <2>2, <2>3 DEF Last
  <1>5. ASSUME Len(q) # 1 PROVE Tail(q) # <<>> /\ Last(Tail(q)) = Last(q)
    <2>1. Len(Tail(q)) # 0 /\ Len(Tail(q)) \in 1 .. Len(Tail(q)) /\ Len(Tail(q)) + 1 = Len(q)
      BY <1>1, <1>2, <1>5, SMTT(30)
    <2>2. Tail(q)[Len(Tail(q))] = q[Len(q)]
      BY <1>2, <2>1
    <2>3. Len(<<>>) = 0
      BY EmptySeq, SMTT(30)
    <2> QED BY <2>1, <2>2, <2>3, Zenon DEF Last
  <1> QED BY <1>1, <1>2, <1>3, <1>4, <1>5, Zenon

\* Check 3 writes one byte: the monitor has the command only after the last,
\* and answers it then.
LEMMA SendStep == SelfInv /\ send_command => SelfInv'
  <1> SUFFICES ASSUME SelfTypes, Evidence, Cause, send_command PROVE SelfInv'
    BY DEF SelfInv
  <1> DEFINE h == << Head(todo) >>
             Arrives == /\ typed' = Append(typed, Head(todo))
                        /\ toPrint' = IF typed' = HELP_COMMAND THEN toPrint \o Help ELSE toPrint
                        /\ UNCHANGED excuse
             Vanishes == excuse' = TRUE /\ UNCHANGED <<typed, toPrint>>
  <1>1. /\ check = "send" /\ todo' = Tail(todo)
        /\ check' = IF Len(todo) = 1 THEN "marker" ELSE "send"
        /\ Arrives \/ Vanishes
        /\ UNCHANGED <<buf, failures, fifo, scratch, heard>>
    BY Zenon DEF send_command
  <1>2. /\ todo \in Seq(Char) /\ todo # <<>> /\ typed \in Seq(Char) /\ toPrint \in Seq(Char)
        /\ Seen \in Seq(Char) /\ Len(typed) \in Nat /\ Len(HELP_COMMAND) \in Nat
    BY <1>1, AheadIs, Texts, LenProperties, SMTT(30) DEF SelfTypes
  <1>3. /\ Len(todo) \in Nat \ {0} /\ Head(todo) \in Char /\ todo' \in Seq(Char) /\ Len(todo') = Len(todo) - 1
        /\ todo = h \o todo'
        /\ check' = "marker" => todo' = <<>>
        /\ check' = "send" => todo' # <<>>
    BY <1>1, <1>2, Rest, ZenonT(30)
  <1>4. /\ Append(typed, Head(todo)) \in Seq(Char) /\ Len(Append(typed, Head(todo))) = Len(typed) + 1
        /\ Append(typed, Head(todo)) = typed \o h /\ h \in Seq(Char)
    BY <1>2, <1>3, AppendProperties, AppendIsConcat, SMTT(30)
  <1>5. Seen' = Seen /\ check' \in {"send", "marker"}
    BY <1>1, Zenon DEF Seen
  <1>6. toPrint \o Help \in Seq(Char)
    BY <1>2, Texts, ConcatProperties, SMTT(30)
  <1>7. typed' \in Seq(Char) /\ toPrint' \in Seq(Char) /\ Len(typed') <= Len(typed) + 1
    <2>1. CASE Arrives
      BY <1>2, <1>4, <1>6, <2>1
    <2>2. CASE Vanishes
      BY <1>2, <2>2
    <2> QED BY <1>1, <2>1, <2>2
  <1> HIDE DEF h
  <1>8. SelfTypes'
    BY <1>1, <1>3, <1>5, <1>7 DEF SelfTypes
  <1>9. Evidence'
    <2>1. Len(typed) + Len(todo) <= Len(HELP_COMMAND) /\ (failures = 0 => IsPrefix(BANNER_PREFIX, heard))
      BY <1>1 DEF Evidence
    <2>2. Len(typed') \in Nat
      BY <1>7, LenProperties
    <2>3. Len(typed') + Len(todo') <= Len(HELP_COMMAND)
      BY <1>2, <1>3, <1>7, <2>1, <2>2, SMTT(30)
    <2>4. typed # HELP_COMMAND
      <3>1. Len(typed) # Len(HELP_COMMAND)
        BY <1>2, <1>3, <2>1, SMTT(30)
      <3> QED BY <3>1, Zenon
    <2>5. typed' # HELP_COMMAND => toPrint' = toPrint
      BY <1>1, Zenon
    <2>6. typed' # HELP_COMMAND => ~Within(HELP_MARKER, Ahead')
      BY <1>1, <1>5, <2>4, <2>5, ZenonT(30) DEF Evidence, Ahead
    <2> QED BY <1>1, <1>5, <2>1, <2>3, <2>6 DEF Evidence
  <1>10. Cause'
    <2>1. excuse' \in BOOLEAN
      BY <1>1 DEF Cause
    <2> SUFFICES ASSUME ~excuse'
                 PROVE  /\ failures' = 0 /\ typed' \o todo' = HELP_COMMAND
                        /\ check' = "marker" => Within(HELP_MARKER, Ahead')
      BY <1>5, <2>1 DEF Cause
    <2>2. Arrives /\ ~excuse
      BY <1>1
    <2>3. failures = 0 /\ typed \o todo = HELP_COMMAND
      BY <1>1, <2>2 DEF Cause
    <2>4. typed' \o todo' = HELP_COMMAND
      <3>1. typed \in Seq(Char) /\ h \in Seq(Char) /\ todo' \in Seq(Char)
        BY <1>2, <1>3, <1>4, ZenonT(30)
      <3>2. (typed \o h) \o todo' = typed \o (h \o todo')
        BY <3>1, Joined, ZenonT(30)
      <3> QED BY <1>3, <1>4, <2>2, <2>3, <3>2, ZenonT(30)
    <2>5. ASSUME check' = "marker" PROVE Within(HELP_MARKER, Ahead')
      <3>1. typed' \o <<>> = typed'
        BY <1>7, ConcatEmptySeq
      <3>2. typed' = HELP_COMMAND
        BY <1>3, <2>4, <2>5, <3>1, ZenonT(30)
      <3>3. toPrint' = toPrint \o Help
        BY <2>2, <3>2, Zenon
      <3>4. Within(HELP_MARKER, toPrint \o Help)
        BY <1>2, Texts, WithinGrows, SelfTestConstants, ZenonT(30)
      <3> QED BY <1>2, <1>5, <1>6, <3>3, <3>4, Texts, WithinGrows, ZenonT(30) DEF Ahead
    <2> QED BY <1>1, <2>3, <2>4, <2>5, SMTT(30)
  <1> QED BY <1>8, <1>9, <1>10 DEF SelfInv

\* Check 4 writes and reads back one pattern.
LEMMA ScratchStep == SelfInv /\ CheckScratch => SelfInv'
  <1> SUFFICES ASSUME SelfTypes, Evidence, Cause, CheckScratch PROVE SelfInv'
    BY DEF SelfInv
  <1>1. /\ check = "scratch" /\ todo' = Tail(todo)
        /\ failures' = IF scratch' = Head(todo) THEN failures ELSE failures + 1
        /\ check' = IF scratch' # Head(todo) \/ Len(todo) = 1 THEN "burst" ELSE "scratch"
        /\ UNCHANGED <<buf, fifo, toPrint, typed, heard>>
    BY DEF CheckScratch
  <1>2. excuse' \in BOOLEAN /\ (~excuse' => ~excuse /\ scratch' = Head(todo))
    BY DEF CheckScratch, Cause
  <1>3. /\ todo' \in Seq(Nat) /\ (check' = "scratch" => todo' # <<>> /\ Last(todo') = Last(todo))
        /\ Len(todo) = 1 => Last(todo) = Head(todo)
    <2>1. todo \in Seq(Nat) /\ todo # <<>>
      BY <1>1 DEF SelfTypes
    <2> QED BY <1>1, <2>1, Rest, Zenon
  <1>4. failures' \in Nat /\ (failures' = 0 => failures = 0) /\ check' \in {"scratch", "burst"}
    BY <1>1 DEF SelfTypes
  <1>5. SelfTypes'
    BY <1>1, <1>3, <1>4, SMTT(30) DEF SelfTypes
  <1>6. Evidence'
    BY <1>1, <1>4 DEF Evidence
  <1>7. Cause'
    BY <1>1, <1>2, <1>3, <1>4, SMTT(30) DEF Cause
  <1> QED BY <1>5, <1>6, <1>7 DEF SelfInv

\* Check 5 reads the burst.
LEMMA BurstStep == SelfInv /\ CheckBurst => SelfInv'
  <1> SUFFICES ASSUME SelfTypes, Evidence, Cause, CheckBurst PROVE SelfInv'
    BY DEF SelfInv
  <1>1. /\ check = "burst" /\ check' = "end"
        /\ failures' = IF scratch = Last(Patterns) THEN failures ELSE failures + 1
        /\ UNCHANGED <<buf, todo, fifo, toPrint, typed, scratch, heard, excuse>>
    BY DEF CheckBurst
  <1>2. failures' \in Nat /\ (failures' = 0 => failures = 0 /\ scratch = Last(Patterns))
    BY <1>1 DEF SelfTypes
  <1>3. SelfTypes'
    BY <1>1, <1>2 DEF SelfTypes
  <1>4. Evidence'
    BY <1>1, <1>2 DEF Evidence
  <1>5. Cause'
    BY <1>1 DEF Cause
  <1> QED BY <1>3, <1>4, <1>5 DEF SelfInv

\* Every step keeps the invariant.
LEMMA SelfStep == SelfInv /\ [Next]_vars => SelfInv'
  <1>1. SelfInv /\ UNCHANGED vars => SelfInv'
    BY DEF vars, SelfInv, SelfTypes, Evidence, Cause, Ahead, Seen
  <1> QED BY <1>1, MonitorStep, BannerStep, SendStep, MarkerStep, ScratchStep, BurstStep, ZenonT(30) DEF Next

\* The invariant holds throughout.
THEOREM SelfInvariant == Spec => []SelfInv
  <1> QED BY SelfInit, SelfStep, PTL DEF Spec

\* For all texts, commands and patterns, all leftovers of earlier sessions and
\* all ways the polls cut up the output: a run that passes every check has
\* heard the banner first, got its own command to the monitor and left the
\* last pattern in the register.
THEOREM PassShows == Spec => []PassIsEvidence
  <1>1. SelfInv => PassIsEvidence
    BY DEF SelfInv, Evidence, PassIsEvidence
  <1> QED BY <1>1, SelfInvariant, PTL

\* And a board that is fresh, loses no write and prints in time passes.
THEOREM FailureShows == Spec => []FailureHasCause
  <1>1. SelfInv => FailureHasCause
    BY DEF SelfInv, Cause, FailureHasCause
  <1> QED BY <1>1, SelfInvariant, PTL
=============================================================================
