------------------------------ MODULE SelfTest ------------------------------
(***************************************************************************)
(* The checks of soc/host_selftest.py against a board that prints while    *)
(* they run: when do they pass, and what does a pass show?  Etherbone      *)
(* writes are not acknowledged, so each write of a command byte or of a    *)
(* pattern may be lost.  The pops of drain_rx are taken to arrive: a lost  *)
(* one is a matter of ConsoleSession.  A deadline may pass at any moment   *)
(* of the poll it bounds.                                                  *)
(***************************************************************************)
EXTENDS Naturals, Sequences, SequencesExt

CONSTANTS Char,                    \* the characters of the console
          BANNER_PREFIX, Banner,   \* the first bytes of the banner, all of it
          HELP_COMMAND, HELP_MARKER, Help,
          Backlog,                 \* what the FIFO of a running board may hold
          Patterns                 \* the words check 4 writes to ctrl_scratch

\* m in b.
Within(m, b) ==
  \E i \in 0 .. Len(b) - Len(m) : SubSeq(b, i + 1, i + Len(m)) = m

\* The banner begins with the prefix; the marker is in the help text and not
\* in the banner.
ASSUME SelfTestConstants ==
  /\ {BANNER_PREFIX, Banner, HELP_COMMAND, HELP_MARKER, Help} \subseteq Seq(Char)
  /\ Backlog \subseteq Seq(Char) /\ Patterns \in Seq(Nat)
  /\ HELP_COMMAND # <<>> /\ Patterns # <<>>
  /\ IsPrefix(BANNER_PREFIX, Banner)
  /\ Within(HELP_MARKER, Help) /\ ~Within(HELP_MARKER, Banner)

VARIABLES
  check,     \* the check that runs
  buf,       \* bytes the current poll has collected
  todo,      \* what check 3 or 4 still has to write
  failures,
  fifo,      \* the console RX FIFO
  toPrint,   \* what the monitor is printing
  typed,     \* what the monitor has received
  scratch,   \* the ctrl_scratch register
  heard,     \* history: all bytes drained
  excuse     \* history: the board was not fresh, lost a write or was late

vars == <<check, buf, todo, failures, fifo, toPrint, typed, scratch, heard, excuse>>

\* The board is booting, or has been up for a while.
Init ==
  /\ check = "banner" /\ buf = <<>> /\ todo = <<>> /\ failures = 0
  /\ \/ fifo = <<>> /\ toPrint = Banner
     \/ fifo \in Backlog /\ toPrint = <<>>
  /\ typed = <<>> /\ scratch = 0 /\ heard = <<>>
  /\ excuse = ~IsPrefix(BANNER_PREFIX, fifo \o toPrint)

Monitor ==
  /\ toPrint # <<>>
  /\ fifo' = Append(fifo, Head(toPrint)) /\ toPrint' = Tail(toPrint)
  /\ UNCHANGED <<check, buf, todo, failures, typed, scratch, heard, excuse>>

find_prefix_Short(b) == b # <<>> /\ (IsPrefix(b, BANNER_PREFIX) \/ IsPrefix(BANNER_PREFIX, b))
find_prefix(b) == IsPrefix(BANNER_PREFIX, b)

has_marker_Chunk(b) == Within(HELP_MARKER, fifo)
has_marker(b) == Within(HELP_MARKER, b)

drain_rx == fifo' = <<>> /\ heard' = heard \o fifo

\* One turn of poll_banner or poll_marker: found, not yet, or not in time.
Seen == buf \o fifo
Poll(found, next, work) ==
  /\ drain_rx
  /\ \/ /\ found
        /\ check' = next /\ todo' = work /\ buf' = <<>>
        /\ UNCHANGED <<failures, excuse>>
     \/ /\ ~found
        /\ buf' = Seen
        /\ UNCHANGED <<check, todo, failures, excuse>>
     \/ /\ ~found
        /\ check' = next /\ todo' = work /\ buf' = <<>>
        /\ failures' = failures + 1
        /\ excuse' = (excuse \/ toPrint # <<>>)
  /\ UNCHANGED <<toPrint, typed, scratch>>

poll_banner == check = "banner" /\ Poll(find_prefix(Seen), "send", HELP_COMMAND)

poll_marker == check = "marker" /\ Poll(has_marker(Seen), "scratch", Patterns)

\* One byte of send_command; the monitor answers the complete command line.
send_command ==
  /\ check = "send"
  /\ todo' = Tail(todo)
  /\ check' = IF Len(todo) = 1 THEN "marker" ELSE "send"
  /\ \/ /\ typed' = Append(typed, Head(todo))
        /\ toPrint' = IF typed' = HELP_COMMAND THEN toPrint \o Help ELSE toPrint
        /\ UNCHANGED excuse
     \/ excuse' = TRUE /\ UNCHANGED <<typed, toPrint>>
  /\ UNCHANGED <<buf, failures, fifo, scratch, heard>>

\* Check 4: a pattern that does not read back ends the loop.
CheckScratch ==
  /\ check = "scratch"
  /\ \E arrives \in BOOLEAN :
       /\ scratch' = IF arrives THEN Head(todo) ELSE scratch
       /\ excuse' = (excuse \/ ~arrives)
  /\ failures' = IF scratch' = Head(todo) THEN failures ELSE failures + 1
  /\ check' = IF scratch' # Head(todo) \/ Len(todo) = 1 THEN "burst" ELSE "scratch"
  /\ todo' = Tail(todo)
  /\ UNCHANGED <<buf, fifo, toPrint, typed, heard>>

\* Check 5: the burst starts at ctrl_scratch and expects check 4's last word.
CheckBurst ==
  /\ check = "burst"
  /\ failures' = IF scratch = Last(Patterns) THEN failures ELSE failures + 1
  /\ check' = "end"
  /\ UNCHANGED <<buf, todo, fifo, toPrint, typed, scratch, heard, excuse>>

Next == Monitor \/ poll_banner \/ send_command \/ poll_marker \/ CheckScratch \/ CheckBurst

Spec == Init /\ [][Next]_vars

-----------------------------------------------------------------------------
\* A pass is evidence: the console began with the banner, the monitor received
\* this run's command, and the last pattern is in the register.
PassIsEvidence ==
  check = "end" /\ failures = 0 =>
    /\ IsPrefix(BANNER_PREFIX, heard)
    /\ typed = HELP_COMMAND
    /\ scratch = Last(Patterns)

\* A failure has a cause: a board that is fresh, loses no write and prints in
\* time passes every check, however its output is cut up by the polls.
FailureHasCause == check = "end" /\ ~excuse => failures = 0
=============================================================================
