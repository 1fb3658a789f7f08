----------------------------- MODULE ByteStream -----------------------------
(***************************************************************************)
(* What the console promises for one direction (SPEC.md S-PROD-3): every   *)
(* byte accepted at one end comes out at the other end exactly once and in *)
(* order, until a reset of the system discards what is under way.          *)
(* `in' and `out' show the last byte accepted and delivered; their bit     *)
(* flips each time, so no transfer can hide behind an equal byte.          *)
(***************************************************************************)
EXTENDS Naturals, Sequences

CONSTANT Byte

VARIABLES queue, in, out, epoch

streamVars == <<queue, in, out, epoch>>

Shown(port, b) == [bit |-> 1 - port.bit, byte |-> << b >>]

Quiet == [bit |-> 0, byte |-> << >>]

Init == queue = << >> /\ in = Quiet /\ out = Quiet /\ epoch = 0

Accept(b) ==
  /\ queue' = Append(queue, b)
  /\ in' = Shown(in, b)
  /\ UNCHANGED <<out, epoch>>

Deliver ==
  /\ queue # << >>
  /\ queue' = Tail(queue)
  /\ out' = Shown(out, Head(queue))
  /\ UNCHANGED <<in, epoch>>

(* Both ends of a synchronous channel may move at the same clock edge.     *)
AcceptAndDeliver(b) ==
  /\ queue # << >>
  /\ queue' = Append(Tail(queue), b)
  /\ in' = Shown(in, b)
  /\ out' = Shown(out, Head(queue))
  /\ UNCHANGED epoch

(* A reset discards the queue, and is itself visible.                      *)
Flush == queue' = << >> /\ epoch' = 1 - epoch /\ UNCHANGED <<in, out>>

Next == \/ \E b \in Byte : Accept(b) \/ AcceptAndDeliver(b)
        \/ Deliver
        \/ Flush

Spec == Init /\ [][Next]_streamVars
=============================================================================
