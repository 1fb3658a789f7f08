----------------------------- MODULE StreamFIFO -----------------------------
(***************************************************************************)
(* stream.SyncFIFO(depth, buffered=True), the FIFO of both console paths.  *)
(* It comes from LiteX/Migen; its behaviour is the one console_bridge.py   *)
(* documents and relies on: an inner FIFO of `depth' words followed by a   *)
(* one-word output register, so that                                       *)
(*   - source.valid is the output register being full,                     *)
(*   - sink.ready only looks at the inner FIFO,                            *)
(*   - level counts both, and can therefore reach depth + 1.               *)
(* A FIFO is a record; `out' is a sequence of length 0 or 1.               *)
(***************************************************************************)
EXTENDS Naturals, Sequences

EmptyFIFO == [inner |-> << >>, out |-> << >>]

FIFOs(Data) == {f \in [inner : Seq(Data), out : Seq(Data)] : Len(f.out) <= 1}

Level(f) == Len(f.inner) + Len(f.out)

Contents(f) == f.out \o f.inner

Valid(f) == f.out # << >>

Writable(f, depth) == Len(f.inner) < depth

(* Faulty variants: a fetch that overwrites a full output register, and    *)
(* one that never fills an empty one.                                      *)
Fetch_Overwrites(f, re) == f.inner # << >>
Fetch_OnlyOnRead(f, re) == f.inner # << >> /\ re

(* The inner FIFO is read as soon as the output register is, or becomes,   *)
(* free: the word reaches the register at the same clock edge.             *)
Fetch(f, re) == f.inner # << >> /\ (~Valid(f) \/ re)

(* One clock edge: `in' is the word on the sink (<< >> when sink.valid is  *)
(* low) and `re' is source.ready.                                          *)
Clocked(f, depth, in, re) ==
  [inner |-> (IF Fetch(f, re) THEN Tail(f.inner) ELSE f.inner)
               \o (IF Writable(f, depth) THEN in ELSE << >>),
   out   |-> IF Fetch(f, re) THEN << Head(f.inner) >>
             ELSE IF re THEN << >> ELSE f.out]

=============================================================================
