--------------------------- MODULE MCBoardConnect ---------------------------
(* Instances of BoardConnect: two commands on one machine, two addresses.  *)
EXTENDS BoardConnect

CONSTANTS p1, p2, h1, h2

MCProcs == {p1, p2}
MCHosts == {h1, h2}
Cached(cmd) == [cmd |-> cmd, host |-> None, cache |-> TRUE]

\* Discovery by login and by Board.connect, and an explicit host.
AllArgs == {Cached("login"), Cached("selftest"),
            [cmd |-> "status", host |-> h1, cache |-> FALSE]}

\* Which of the two processes runs which command makes no difference.
Rank == [login |-> 1, selftest |-> 2, status |-> 3]
MCInit == Init /\ Rank[arg[p1].cmd] <= Rank[arg[p2].cmd]
MCSpec == MCInit /\ [][Next]_vars /\ Fairness
=============================================================================
