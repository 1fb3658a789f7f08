----------------------------- MODULE MCCoreBoot -----------------------------
(* The bootstrap waits its real 16 edges; the long counters are short      *)
(* enough to explore and long enough for a reset to hit every phase.       *)
EXTENDS CoreBoot
=============================================================================
