--------------------------- MODULE HostAlgorithms ---------------------------
(***************************************************************************)
(* The pure functions of the host tools: the address arithmetic of the     *)
(* sweep and the broadcast (discovery.py, eb_server.py), the identifier    *)
(* read (board.py) and the byte helpers of host_selftest.py.  Each step    *)
(* is one call, over all inputs of the bounded domain; each property       *)
(* compares the result with a definition that does not compute it.         *)
(***************************************************************************)
EXTENDS Integers, Sequences, SequencesExt, Bitwise

CONSTANTS W,        \* bits of an address
          Bytes,    \* byte values
          MaxLen,   \* longest byte string
          IdWords   \* words of identifier_mem that are read

VARIABLE call   \* the function called, its arguments and what it returned

Addresses == 0 .. 2^W - 1
Netmasks == {2^W - 2^k : k \in 0 .. W}
Strings == UNION {[1 .. n -> Bytes] : n \in 0 .. MaxLen}
Memories == [1 .. IdWords -> 0 .. 2 \cup {256}]

Int_to_ip(n) == n % 2^W
Hostmask(mask) == (2^W - 1) - mask

subnet_candidates_All(ip, mask) ==
  LET network == ip & mask
      broadcast == network | Hostmask(mask)
      range == [i \in 1 .. broadcast - network |-> network + i]
  IN SelectSeq(range, LAMBDA h : h # ip)
subnet_candidates(ip, mask) ==
  LET network == ip & mask
      broadcast == network | Hostmask(mask)
      range == [i \in 1 .. broadcast - network - 1 |-> network + i]
  IN SelectSeq(range, LAMBDA h : h # ip)

broadcast_addr(ip, mask) == Int_to_ip(ip | Hostmask(mask))

compare_bytes(expected, actual) ==
  LET n == Min({Len(expected), Len(actual)})
      differ == {i \in 1 .. n : expected[i] # actual[i]}
  IN IF differ # {} THEN <<FALSE, Min(differ) - 1>>
     ELSE IF Len(expected) # Len(actual) THEN <<FALSE, n>> ELSE <<TRUE, -1>>

batches(seq, size) ==
  [k \in 1 .. (Len(seq) + size - 1) \div size |->
     SubSeq(seq, (k - 1) * size + 1, Min({k * size, Len(seq)}))]

\* One character per word, up to the first NUL or the end of the memory.
read_identifier(mem) ==
  LET nul == {i \in DOMAIN mem : mem[i] % 256 = 0}
      n == IF nul = {} THEN Len(mem) ELSE Min(nul) - 1
  IN [i \in 1 .. n |-> mem[i] % 256]

NoCall == call = [fn |-> "none"]

Call ==
  \/ \E ip \in Addresses, mask \in Netmasks :
       call' = [fn |-> "subnet", ip |-> ip, mask |-> mask,
                sweep |-> subnet_candidates(ip, mask), bcast |-> broadcast_addr(ip, mask)]
  \/ \E e \in Strings, a \in Strings :
       call' = [fn |-> "compare", e |-> e, a |-> a, ret |-> compare_bytes(e, a)]
  \/ \E s \in Strings, size \in 1 .. MaxLen + 1 :
       call' = [fn |-> "batches", seq |-> s, size |-> size, ret |-> batches(s, size)]
  \/ \E mem \in Memories :
       call' = [fn |-> "identifier", mem |-> mem, ret |-> read_identifier(mem)]

-----------------------------------------------------------------------------
\* The subnet of an address: those that share its prefix.
Subnet(ip, mask) == {h \in Addresses : h \div (2^W - mask) = ip \div (2^W - mask)}

\* The sweep probes every other host of the subnet once, and neither the
\* network nor the broadcast address, for every netmask down to /31 and /32.
SweepIsSubnet ==
  call.fn = "subnet" =>
    LET net == Subnet(call.ip, call.mask)
    IN /\ ToSet(call.sweep) = net \ {Min(net), Max(net), call.ip}
       /\ IsInjective(call.sweep)

\* Requests of the bridge go to the last address of the subnet, which the
\* sweep never takes for a host.
BroadcastIsLast ==
  call.fn = "subnet" =>
    /\ call.bcast = Max(Subnet(call.ip, call.mask))
    /\ call.bcast \notin ToSet(call.sweep)

\* compare_bytes accepts equal strings only, and points at the end of the
\* longest common prefix of others, also when one string ends there.
CompareFindsFirst ==
  call.fn = "compare" =>
    \/ call.ret = <<TRUE, -1>> /\ call.e = call.a
    \/ /\ call.ret[1] = FALSE /\ call.e # call.a
       /\ SubSeq(call.e, 1, call.ret[2]) = SubSeq(call.a, 1, call.ret[2])
       /\ ~ \E n \in call.ret[2] + 1 .. MaxLen :
              n <= Len(call.e) /\ n <= Len(call.a) /\ SubSeq(call.e, 1, n) = SubSeq(call.a, 1, n)

\* Batches are the string cut up: nothing lost, none empty, all but the last
\* of the size asked for.
BatchesPartition ==
  call.fn = "batches" =>
    /\ FlattenSeq(call.ret) = call.seq
    /\ \A k \in DOMAIN call.ret :
         /\ Len(call.ret[k]) \in 1 .. call.size
         /\ k < Len(call.ret) => Len(call.ret[k]) = call.size

\* The identifier is the longest NUL-free prefix of the memory's low bytes.
IdentifierIsPrefix ==
  call.fn = "identifier" =>
    /\ \A i \in DOMAIN call.ret : call.ret[i] = call.mem[i] % 256 /\ call.ret[i] # 0
    /\ Len(call.ret) < Len(call.mem) => call.mem[Len(call.ret) + 1] % 256 = 0

\* Every helper returns what its definition asks for, on every input.
HelpersAgree ==
  SweepIsSubnet /\ BroadcastIsLast /\ CompareFindsFirst /\ BatchesPartition
    /\ IdentifierIsPrefix
=============================================================================
