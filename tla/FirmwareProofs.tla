--------------------------- MODULE FirmwareProofs ---------------------------
(***************************************************************************)
(* Who the firmware sends to, for every set of hosts and any number of     *)
(* leases, faults and power cycles.                                        *)
(***************************************************************************)
EXTENDS Firmware, TLAPS

\* The peer is broadcast whenever main is not serving; a stashed request
\* carries its own client's MAC; while serving the filter is the address of
\* the offer that was accepted.
PeerInv ==
  /\ phase \in {"discover", "offer", "ack", "serve", "arp"}
  /\ phase \in {"discover", "offer", "ack"} => peer = [ip |-> Any, mac |-> Any]
  /\ phase \in {"serve", "arp"} => my_ip = offer.ip
  /\ pending # None => pending.mac = pending.from
  /\ CacheIsTrue

\* What one step may send.
SendsRight ==
  /\ tx' # None /\ tx'.kind = "dhcp" => tx'.from = None /\ tx'.ip = Any /\ tx'.mac = Any
  /\ tx' # None /\ tx'.kind = "eb" =>
       pending # None /\ tx'.from = offer.ip /\ tx'.ip = pending.from /\ tx'.mac = tx'.ip

\* The firmware starts with the peer set to broadcast.
LEMMA PeerInit == Init => PeerInv
  BY DEF Init, PeerInv, CacheIsTrue

\* A DHCP datagram is received: in the waits it ends the round or advances
\* it, and the peer stays broadcast until the address is bound.
LEMMA DhcpReplyStep ==
  ASSUME PeerInv, NEW r \in net, DhcpReply(r) PROVE PeerInv' /\ SendsRight
  <1> USE FirmwareConstants DEF PeerInv, SendsRight, CacheIsTrue
  <1>1. PICK rest \in {net, net \ {r}} :
          \/ phase = "offer" /\ Request(r, rest)
          \/ phase = "ack" /\ r.ip = offer.ip /\ Bind(r)
          \/ phase \in {"offer", "ack"} /\ Retry
          \/ phase \in {"serve", "arp"} /\ tx' = None /\ UNCHANGED <<round, stack, binding, lost>>
    BY DEF DhcpReply
  <1>2. pending' = pending
    BY DEF DhcpReply
  <1>3. CASE phase = "offer" /\ Request(r, rest)
    BY <1>2, <1>3 DEF Request, DhcpSend, udp_send
  <1>4. CASE phase = "ack" /\ r.ip = offer.ip /\ Bind(r)
    BY <1>2, <1>4 DEF Bind, udp_set_broadcast
  <1>5. CASE phase \in {"offer", "ack"} /\ Retry
    BY <1>2, <1>5 DEF Retry, stack
  <1>6. CASE phase \in {"serve", "arp"} /\ tx' = None /\ UNCHANGED <<round, stack, binding, lost>>
    BY <1>2, <1>6, SMTT(60) DEF round, stack
  <1> QED BY <1>1, <1>3, <1>4, <1>5, <1>6

\* Every step of the firmware keeps the invariant and sends where it should.
LEMMA PeerStep == PeerInv /\ Next => PeerInv' /\ SendsRight
  <1> SUFFICES ASSUME PeerInv, Next PROVE PeerInv' /\ SendsRight
    OBVIOUS
  <1> USE FirmwareConstants DEF PeerInv, SendsRight, CacheIsTrue
  <1>1. CASE Discover
    BY <1>1 DEF Discover, DhcpSend, udp_send
  <1>2. CASE wait_for_reply
    BY <1>2 DEF wait_for_reply, Retry, stack
  <1>3. CASE \E r \in net : DhcpReply(r)
    BY <1>3, DhcpReplyStep
  <1>4. CASE \E c \in Clients : EbRequest(c)
    BY <1>4 DEF EbRequest, round, stack
  <1>5. CASE \E h \in Hosts : ArpReply(h)
    <2>1. PICK h \in Hosts : ArpReply(h)
      BY <1>5
    <2>2. h # Any /\ h # None
      BY DEF Hosts
    <2>3. CASE peer.ip = h
      BY <2>1, <2>2, <2>3 DEF ArpReply, process_arp, Servicing
    <2>4. CASE peer.ip # h
      BY <2>1, <2>4 DEF ArpReply, process_arp, Servicing
    <2> QED BY <2>3, <2>4
  <1>6. CASE eb_serve_pending
    BY <1>6 DEF eb_serve_pending, round
  <1>7. CASE ArpRefresh
    BY <1>7 DEF ArpRefresh
  <1>8. CASE ArpTimeout
    BY <1>8 DEF ArpTimeout, stack
  <1>9. CASE Tick
    BY <1>9 DEF Tick, udp_set_broadcast
  <1>10. CASE Reboot
    BY <1>10 DEF Reboot, udp_set_broadcast
  <1> QED BY <1>1, <1>2, <1>3, <1>4, <1>5, <1>6, <1>7, <1>8, <1>9, <1>10 DEF Next

\* A step that changes nothing changes nothing of it.
LEMMA PeerStutter == PeerInv /\ UNCHANGED vars => PeerInv'
  BY DEF PeerInv, CacheIsTrue, vars, round, stack

\* The invariant holds throughout.
THEOREM PeerInvariant == Spec => []PeerInv
  <1> QED BY PeerInit, PeerStep, PeerStutter, PTL DEF Spec

\* For every set of hosts: the ARP entry never names another host's MAC.
THEOREM CacheSafety == Spec => []CacheIsTrue
  <1>1. PeerInv => CacheIsTrue
    BY DEF PeerInv
  <1> QED BY <1>1, PeerInvariant, PTL

\* Every DISCOVER and REQUEST is broadcast, also after a serve period.
THEOREM RenewalIsBroadcast == Spec => DhcpIsBroadcast
  <1>1. PeerInv /\ [Next]_vars =>
          [tx' # None /\ tx'.kind = "dhcp" => tx'.from = None /\ tx'.ip = Any /\ tx'.mac = Any]_vars
    BY PeerStep DEF SendsRight
  <1> QED BY <1>1, PeerInvariant, PTL DEF Spec, DhcpIsBroadcast

\* Every Etherbone reply goes to the client that asked.
THEOREM RepliesGoHome == Spec => ReplyToRequester
  <1>1. PeerInv /\ [Next]_vars =>
          [tx' # None /\ tx'.kind = "eb" =>
             pending # None /\ tx'.from = offer.ip /\ tx'.ip = pending.from /\ tx'.mac = tx'.ip]_vars
    BY PeerStep DEF SendsRight
  <1> QED BY <1>1, PeerInvariant, PTL DEF Spec, ReplyToRequester

-----------------------------------------------------------------------------
\* The firmware starts in a typed state, before its first serve period.
LEMMA TypeInit == Init => TypeOK
  BY FirmwareConstants DEF Init, TypeOK, Callbacks, Replies

\* The frame and the place of the two DHCP sends are typed.
LEMMA DhcpSendType ==
  ASSUME TypeOK, NEW wait \in {"offer", "ack"}, DhcpSend(wait)
  PROVE  /\ phase' \in {"discover", "offer", "ack"} /\ my_ip' \in {None, Any}
         /\ tx' \in [kind : {"dhcp", "eb"}, from : IPs \cup {None, Any}, ip : Hosts \cup {Any},
                     mac : Hosts \cup {Any}, to : Clients \cup {None}] \cup {None}
  BY DEF TypeOK, DhcpSend, udp_send

\* A DHCP reply keeps the types; an address is bound with a serve period that
\* has a tick, or the serve loop is not entered.
LEMMA DhcpReplyType ==
  ASSUME TypeOK, NEW r \in net, DhcpReply(r) PROVE TypeOK'
  <1> USE FirmwareConstants
  <1>1. r \in Replies /\ r.ip \in IPs /\ r.lease \in Nat /\ xid \in 0 .. Period
    <2>1. r \in Replies /\ xid \in 0 .. Period
      BY DEF TypeOK
    <2>2. r.ip \in IPs /\ r.lease \in Leases \cup {0}
      BY <2>1 DEF Replies
    <2>3. \A l \in Leases \cup {0} : l \in Nat
      OBVIOUS
    <2>4. r.lease \in Nat
      BY <2>2, <2>3, Zenon
    <2> QED BY <2>1, <2>2, <2>4
  <1>2. late' \in 0 .. MaxLate /\ boots' = boots /\ pending' = pending
    BY DEF DhcpReply, TypeOK
  <1>3. PICK rest \in {net, net \ {r}} :
          \/ phase = "offer" /\ parse_reply(r, "OFFER") /\ Request(r, rest)
          \/ phase = "ack" /\ Bind(r) /\ net' = rest
          \/ phase \in {"offer", "ack"} /\ Retry /\ net' = rest
          \/ /\ phase \in {"serve", "arp"} /\ tx' = None /\ net' = rest
             /\ UNCHANGED <<round, stack, binding, lost>>
    BY DEF DhcpReply
  <1>4. rest \subseteq Replies
    BY DEF TypeOK
  <1>5. CASE phase = "offer" /\ parse_reply(r, "OFFER") /\ Request(r, rest)
    <2>1. \A type \in {"ACK", "NAK"}, l \in Leases \cup {0} :
            [type |-> type, xid |-> xid, boot |-> boots, ip |-> r.ip, lease |-> l] \in Replies
      BY <1>1, <1>5 DEF parse_reply, Replies, TypeOK
    <2>2. net' \subseteq Replies
      BY <1>4, <1>5, <2>1 DEF Request
    <2>3. lost' \in 0 .. MaxLost /\ binding' \in IPs \cup {None} /\ offer' = r
      BY <1>1, <1>5 DEF Request, Dropped, LostCount, TypeOK
    <2>4. DhcpSend("ack")
      BY <1>5 DEF Request
    <2> QED BY <1>1, <1>2, <1>5, <2>2, <2>3, <2>4, DhcpSendType DEF Request, TypeOK
  <1>6. CASE phase = "ack" /\ Bind(r) /\ net' = rest
    <2>1. Half(r) \in Nat
      BY <1>1 DEF Half
    <2> QED BY <1>1, <1>2, <1>4, <1>6, <2>1 DEF Bind, udp_set_broadcast, TypeOK, Callbacks
  <1>7. CASE phase \in {"offer", "ack"} /\ Retry /\ net' = rest
    BY <1>2, <1>4, <1>7 DEF Retry, stack, TypeOK
  <1>8. CASE /\ phase \in {"serve", "arp"} /\ tx' = None /\ net' = rest
             /\ UNCHANGED <<round, stack, binding, lost>>
    BY <1>2, <1>4, <1>8 DEF round, stack, TypeOK
  <1> QED BY <1>3, <1>5, <1>6, <1>7, <1>8

\* Every step keeps the types and the serve period.
LEMMA TypeStep == TypeOK /\ [Next]_vars => TypeOK'
  <1> SUFFICES ASSUME TypeOK, [Next]_vars PROVE TypeOK'
    OBVIOUS
  <1> USE FirmwareConstants
  <1>1. CASE Discover
    <2>1. next_xid \in 1 .. Period
      BY DEF next_xid, TypeOK
    <2>2. \A a \in IPs : [type |-> "OFFER", xid |-> next_xid, boot |-> boots, ip |-> a,
                         lease |-> 0] \in Replies
      BY <2>1 DEF Replies, TypeOK
    <2>3. net' \subseteq Replies /\ lost' \in 0 .. MaxLost
      BY <1>1, <2>2 DEF Discover, Dropped, LostCount, TypeOK
    <2>4. DhcpSend("offer")
      BY <1>1 DEF Discover
    <2> QED BY <1>1, <2>1, <2>3, <2>4, DhcpSendType, SMTT(60) DEF Discover, TypeOK, Callbacks
  <1>2. CASE wait_for_reply
    BY <1>2, SMTT(60) DEF wait_for_reply, Retry, stack, TypeOK
  <1>3. CASE \E r \in net : DhcpReply(r)
    BY <1>3, DhcpReplyType
  <1>4. CASE \E c \in Clients : EbRequest(c)
    BY <1>4, SMTT(60) DEF EbRequest, round, stack, world, TypeOK, Hosts
  <1>5. CASE \E h \in Hosts : ArpReply(h)
    BY <1>5 DEF ArpReply, process_arp, world, TypeOK
  <1>6. CASE eb_serve_pending
    BY <1>6, SMTT(60) DEF eb_serve_pending, round, world, TypeOK, Hosts
  <1>7. CASE ArpRefresh
    BY <1>7 DEF ArpRefresh, world, TypeOK, Hosts
  <1>8. CASE ArpTimeout
    BY <1>8 DEF ArpTimeout, stack, world, TypeOK
  <1>9. CASE Tick
    BY <1>9 DEF Tick, udp_set_broadcast, world, TypeOK, Callbacks
  <1>10. CASE Reboot
    BY <1>10 DEF Reboot, udp_set_broadcast, world, TypeOK, Callbacks
  <1>11. CASE UNCHANGED vars
    BY <1>11 DEF vars, round, stack, world, TypeOK
  <1> QED BY <1>1, <1>2, <1>3, <1>4, <1>5, <1>6, <1>7, <1>8, <1>9, <1>10, <1>11 DEF Next

\* For all lease times, also none and one second: main is in the serve loop
\* only with a tick left to serve, and every variable keeps its type.
THEOREM FirmwareTypes == Spec => []TypeOK
  <1> QED BY TypeInit, TypeStep, PTL DEF Spec

-----------------------------------------------------------------------------
(* The address that is served.  Before the first power cycle a transaction *)
(* number that is in use belongs to the current round alone: next_xid      *)
(* outlives the replies of the round that had it before.                   *)

\* Of the replies that carry the current number, only offers are under way
\* while main waits for one, and an ACK for the address it then requested is
\* sent by a server that has bound it.
LeaseInv ==
  boots = 0 =>
    /\ \A r \in net : r.boot = 0
    /\ phase = "offer" => \A r \in net : r.xid = xid => r.type = "OFFER"
    /\ phase = "ack" => \A r \in net :
         r.type = "ACK" /\ r.xid = xid /\ r.ip = offer.ip => binding = offer.ip
    /\ phase \in {"serve", "arp"} => my_ip = binding

\* At power-up no reply is under way.
LEMMA LeaseInit == Init => LeaseInv
  BY DEF Init, LeaseInv

\* A step that neither receives a DHCP reply nor leaves the round: replies,
\* binding and address stay, and no wait begins.
LEMMA LeaseKept ==
  ASSUME LeaseInv, boots' = boots, net' \subseteq net, UNCHANGED <<xid, offer, my_ip, binding>>,
         phase' = phase \/ phase' = "discover" \/ (phase \in {"serve", "arp"} /\ phase' \in {"serve", "arp"})
  PROVE  LeaseInv'
  BY DEF LeaseInv

\* The round is a new one: the replies of the one that had its number before
\* are gone, and all that can come is the offer to this DISCOVER.
LEMMA LeaseDiscover == ASSUME LeaseInv, Discover PROVE LeaseInv'
  <1> SUFFICES ASSUME boots = 0
               PROVE  /\ \A r \in net' : r.boot = 0 /\ (r.xid = xid' => r.type = "OFFER")
                      /\ phase' \in {"discover", "offer"}
    BY DEF LeaseInv, Discover
  <1> DEFINE old == {r \in net : r.xid # next_xid \/ r.boot # boots}
             New(a) == [type |-> "OFFER", xid |-> next_xid, boot |-> boots, ip |-> a, lease |-> 0]
  <1>1. \A r \in old : r.boot = 0 /\ r.xid # next_xid
    BY DEF LeaseInv
  <1>2. \A a : New(a).boot = 0 /\ New(a).type = "OFFER"
    OBVIOUS
  <1>3. net' = old \/ \E a \in IPs : net' = old \cup {New(a)}
    BY DEF Discover
  <1>4. xid' = next_xid /\ phase' \in {"discover", "offer"}
    BY DEF Discover, DhcpSend
  <1> HIDE DEF old, New
  <1> QED BY <1>1, <1>2, <1>3, <1>4

\* A reply in the wait for an offer, or in the wait for an ACK, or late.
LEMMA LeaseReply ==
  ASSUME LeaseInv, NEW r \in net, DhcpReply(r) PROVE LeaseInv'
  <1>1. PICK rest \in {net, net \ {r}} :
          \/ phase = "offer" /\ Request(r, rest)
          \/ phase = "ack" /\ parse_reply(r, "ACK") /\ r.ip = offer.ip /\ Bind(r) /\ net' = rest
          \/ Retry /\ net' = rest
          \/ net' = rest /\ UNCHANGED <<round, stack, binding>>
    BY DEF DhcpReply
  <1>2. rest \subseteq net /\ boots' = boots
    BY DEF DhcpReply
  <1>3. CASE phase = "offer" /\ Request(r, rest)
    <2> DEFINE New(type, l) == [type |-> type, xid |-> xid, boot |-> boots, ip |-> r.ip, lease |-> l]
    <2>1. /\ offer' = r /\ xid' = xid /\ phase' \in {"discover", "ack"}
          /\ \/ binding' = r.ip /\ \E l \in Leases : net' = rest \cup {New("ACK", l)}
             \/ net' = rest \/ net' = rest \cup {New("NAK", 0)}
      BY <1>3 DEF Request, DhcpSend
    <2>2. \A type, l : New(type, l).boot = boots /\ New(type, l).type = type
      OBVIOUS
    <2> HIDE DEF New
    <2> SUFFICES ASSUME boots = 0
                 PROVE  /\ \A s \in net' : s.boot = 0
                        /\ \A s \in net' : s.type = "ACK" /\ s.xid = xid => binding' = r.ip
      BY <1>2, <2>1 DEF LeaseInv
    <2>3. \A s \in rest : s.boot = 0 /\ (s.xid = xid => s.type = "OFFER")
      BY <1>2, <1>3 DEF LeaseInv
    <2> QED BY <2>1, <2>2, <2>3
  <1>4. CASE phase = "ack" /\ parse_reply(r, "ACK") /\ r.ip = offer.ip /\ Bind(r) /\ net' = rest
    <2>1. my_ip' = r.ip /\ binding' = binding /\ phase' \in {"discover", "serve"}
      BY <1>4 DEF Bind
    <2> QED BY <1>2, <1>4, <2>1 DEF LeaseInv, parse_reply
  <1>5. CASE Retry /\ net' = rest
    BY <1>2, <1>5, LeaseKept DEF Retry, stack
  <1>6. CASE net' = rest /\ UNCHANGED <<round, stack, binding>>
    BY <1>2, <1>6, LeaseKept DEF round, stack
  <1> QED BY <1>1, <1>3, <1>4, <1>5, <1>6

\* Every step of the firmware keeps the lease.
LEMMA LeaseStep == TypeOK /\ LeaseInv /\ [Next]_vars => LeaseInv'
  <1> SUFFICES ASSUME TypeOK, LeaseInv, [Next]_vars PROVE LeaseInv'
    OBVIOUS
  <1>1. CASE Discover
    BY <1>1, LeaseDiscover
  <1>2. CASE wait_for_reply
    BY <1>2, LeaseKept DEF wait_for_reply, Retry, stack
  <1>3. CASE \E r \in net : DhcpReply(r)
    BY <1>3, LeaseReply
  <1>4. CASE \E c \in Clients : EbRequest(c)
    BY <1>4, LeaseKept DEF EbRequest, round, stack, world
  <1>5. CASE \E h \in Hosts : ArpReply(h)
    BY <1>5, LeaseKept DEF ArpReply, world
  <1>6. CASE eb_serve_pending
    BY <1>6, LeaseKept DEF eb_serve_pending, round, world
  <1>7. CASE ArpRefresh
    BY <1>7, LeaseKept DEF ArpRefresh, world
  <1>8. CASE ArpTimeout
    BY <1>8, LeaseKept DEF ArpTimeout, stack, world
  <1>9. CASE Tick
    BY <1>9, LeaseKept DEF Tick, world
  <1>10. CASE Reboot
    <2>1. boots' # 0
      BY <1>10, FirmwareConstants DEF Reboot, TypeOK
    <2> QED BY <2>1 DEF LeaseInv
  <1>11. CASE UNCHANGED vars
    BY <1>11, LeaseKept DEF vars, round, stack, world
  <1> QED BY <1>1, <1>2, <1>3, <1>4, <1>5, <1>6, <1>7, <1>8, <1>9, <1>10, <1>11 DEF Next

\* For any number of rounds, losses and late or repeated replies, and any
\* period of next_xid that a reply does not outlive: until the first power
\* cycle the address served is the one the server has bound to the board.
THEOREM LeaseServed == Spec => []ServesItsLease
  <1>1. LeaseInv => ServesItsLease
    BY DEF LeaseInv, ServesItsLease
  <1> QED BY <1>1, LeaseInit, LeaseStep, FirmwareTypes, PTL DEF Spec
=============================================================================
