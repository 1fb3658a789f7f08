-------------------------- MODULE MCConsoleSession --------------------------
(* Instances of ConsoleSession for TLC.  A scenario bounds what happens in *)
(* a behaviour; a run checks all behaviours of several scenarios.          *)
EXTENDS ConsoleSession

Scenario(print, type, lose, copy, swap, renew) ==
  [print |-> print, type |-> type, lose |-> lose, copy |-> copy,
   swap |-> swap, renew |-> renew]

(* Delay alone; a loss and a renewal; copies and reordering.               *)
Calm      == {Scenario(3, 3, 0, 0, 0, 0)}
Lossy     == {Scenario(2, 2, 1, 0, 0, 1)}
Unordered == {Scenario(2, 1, 0, 1, 1, 0), Scenario(1, 2, 0, 1, 0, 0),
              Scenario(1, 2, 0, 0, 1, 0), Scenario(2, 1, 1, 1, 0, 0),
              Scenario(2, 0, 0, 2, 0, 0)}
All       == Calm \cup Lossy \cup Unordered

OneOfEach  == {Scenario(2, 1, 1, 0, 0, 1)}
OneLoss    == {Scenario(2, 2, 1, 0, 0, 0)}
OneRenewal == {Scenario(2, 2, 0, 0, 0, 1)}
=============================================================================
