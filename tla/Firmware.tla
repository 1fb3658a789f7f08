------------------------------ MODULE Firmware ------------------------------
(***************************************************************************)
(* The firmware's main loop (main.c) over its UDP/IP/ARP stack (udp.c):    *)
(* acquire a lease by DHCP, serve Etherbone on it, renew half way.  All    *)
(* three share one receive filter (my_ip), one pair of callbacks and one   *)
(* ARP entry, which is also the destination of everything that is sent.    *)
(*                                                                         *)
(* The network delays, loses and duplicates.  A wait may time out at any   *)
(* moment.  A host is its address and its MAC; frames carry what the stack *)
(* looks at.                                                               *)
(***************************************************************************)
EXTENDS Naturals

CONSTANTS IPs,        \* addresses the DHCP server leases
          Clients,    \* Etherbone clients
          Gateway, Server,
          None, Any,  \* no address or 0.0.0.0; the broadcast address
          Leases,     \* lease times in the server's ACKs
          Default,    \* lease for an ACK without one (3600)
          Period,     \* of next_xid (2^32)
          MaxLost,    \* exchanges the network or the server drops
          MaxLate,    \* replies later than a wait, or delivered twice
          MaxBoots    \* power cycles

ASSUME FirmwareConstants ==
  /\ Leases \subseteq Nat /\ Default \in Nat /\ Default > 1
  /\ Period \in Nat \ {0} /\ MaxLost \in Nat /\ MaxLate \in Nat /\ MaxBoots \in Nat
  /\ None # Any /\ None \notin IPs \cup Clients \cup {Gateway, Server}
  /\ Any \notin IPs \cup Clients \cup {Gateway, Server}

VARIABLES
  phase,     \* where main() is
  boots,
  xid,       \* the round's transaction: the number of its next_xid call
  offer,     \* the OFFER being requested, None before
  ticks,     \* serve ticks left
  my_ip, rx_callback, bx_callback,
  peer,      \* cached_ip and cached_mac
  pending,   \* the stashed request, or None
  tx,        \* the UDP frame sent by the last step, or None
  net,       \* DHCP replies under way
  binding,   \* the address the server has bound to this board
  lost, late

round == <<phase, xid, offer, ticks>>
stack == <<my_ip, rx_callback, bx_callback, peer>>
world == <<net, binding, lost, late>>
vars == <<boots, round, stack, pending, tx, world>>

Hosts == Clients \cup {Gateway, Server}
Callbacks == {"none", "dhcp", "eb"}
Replies == [type : {"OFFER", "ACK", "NAK"}, xid : 1 .. Period, boot : 0 .. MaxBoots,
            ip : IPs, lease : Leases \cup {0}]

\* Types, and: main is in the serve loop only with a tick left to serve.
TypeOK ==
  /\ phase \in {"discover", "offer", "ack", "serve", "arp"}
  /\ boots \in 0 .. MaxBoots /\ lost \in 0 .. MaxLost /\ late \in 0 .. MaxLate
  /\ xid \in 0 .. Period
  /\ offer \in Replies \cup {None} /\ net \subseteq Replies
  /\ ticks \in Nat /\ (phase \in {"serve", "arp"} => ticks > 0)
  /\ my_ip \in IPs \cup {None, Any} /\ binding \in IPs \cup {None}
  /\ rx_callback \in Callbacks /\ bx_callback \in Callbacks
  /\ peer \in [ip : Hosts \cup {Any}, mac : Hosts \cup {Any, None}]
  /\ pending \in [from : Clients, mac : Hosts] \cup {None}
  /\ tx \in [kind : {"dhcp", "eb"}, from : IPs \cup {None, Any}, ip : Hosts \cup {Any},
             mac : Hosts \cup {Any}, to : Clients \cup {None}] \cup {None}

udp_set_broadcast_Skipped == UNCHANGED peer
udp_set_broadcast == peer' = [ip |-> Any, mac |-> Any]

\* main before its loop: nothing received, the peer set to broadcast.
Init ==
  /\ boots = 0
  /\ phase = "discover" /\ xid = 0 /\ offer = None /\ ticks = 0
  /\ my_ip = None /\ rx_callback = "none" /\ bx_callback = "none"
  /\ peer = [ip |-> Any, mac |-> Any] /\ pending = None /\ tx = None
  /\ net = {} /\ binding = None /\ lost = 0 /\ late = 0

-----------------------------------------------------------------------------
(* Acquiring: dhcp_run's attempts, five and a pause again and again.  The  *)
(* pause services nothing, so it is no step of its own.                    *)

\* udp_send goes to the cached peer, from my_ip; the caller has seen to it
\* that the MAC is known.
udp_send(kind, from, to) ==
  [kind |-> kind, from |-> from, ip |-> peer.ip, mac |-> peer.mac, to |-> to]

\* What dhcp_run does around each of its two sends: from 0.0.0.0, then the
\* filter lets broadcasts through.  Without a MAC the attempt is given up.
DhcpSend(wait) ==
  IF peer.mac = None
  THEN phase' = "discover" /\ my_ip' = None /\ tx' = None
  ELSE phase' = wait /\ my_ip' = Any /\ tx' = udp_send("dhcp", None, None)

\* The server hears a broadcast and answers, or one of the two is lost.
Heard == tx' # None /\ tx'.mac = Any
Dropped == lost < MaxLost \/ ~Heard
LostCount == lost' = IF Heard THEN lost + 1 ELSE lost

\* A reply does not outlive the period of the transaction numbers.
next_xid == (xid % Period) + 1
Discover ==
  LET old == {r \in net : r.xid # next_xid \/ r.boot # boots} IN
  /\ phase = "discover"
  /\ xid' = next_xid /\ offer' = None
  /\ rx_callback' = "dhcp"
  /\ DhcpSend("offer")
  /\ \/ /\ Heard /\ UNCHANGED lost
        /\ \E a \in IPs : net' = old \cup {[type |-> "OFFER", xid |-> next_xid, boot |-> boots,
                                         ip |-> a, lease |-> 0]}
     \/ Dropped /\ LostCount /\ net' = old
  /\ UNCHANGED <<boots, ticks, bx_callback, peer, pending, binding, late>>

\* dhcp_parse_offer and dhcp_parse_ack.
parse_reply_AnyXid(r, type) == r.type = type
parse_reply(r, type) == r.type = type /\ r.xid = xid

\* The wait ended without the reply: the next attempt.
Retry ==
  /\ phase' = "discover" /\ tx' = None
  /\ UNCHANGED <<xid, offer, ticks, stack, binding, lost>>

\* The offer is requested.  The server binds the address and says so, refuses,
\* or the exchange is lost.
Request(r, rest) ==
  LET Answer(type, l) == rest \cup {[type |-> type, xid |-> xid, boot |-> boots,
                                    ip |-> r.ip, lease |-> l]}
  IN
  /\ offer' = r
  /\ DhcpSend("ack")
  /\ \/ /\ Heard /\ UNCHANGED lost
        /\ binding' = r.ip /\ \E l \in Leases : net' = Answer("ACK", l)
     \/ /\ Dropped /\ LostCount
        /\ UNCHANGED binding
        /\ net' = rest \/ (Heard /\ net' = Answer("NAK", 0))
  /\ UNCHANGED <<xid, ticks, rx_callback, bx_callback, peer>>

\* main after dhcp_run: serve for half the lease.  With less than two seconds
\* the loop body never runs and main is back at acquiring.
Half(r) == (IF r.lease = 0 THEN Default ELSE r.lease) \div 2
Bind(r) ==
  /\ my_ip' = r.ip /\ bx_callback' = "eb" /\ ticks' = Half(r)
  /\ \/ ticks' > 0 /\ phase' = "serve" /\ rx_callback' = "eb" /\ UNCHANGED peer
     \/ ticks' = 0 /\ phase' = "discover" /\ rx_callback' = "none" /\ udp_set_broadcast
  /\ tx' = None
  /\ UNCHANGED <<xid, offer, binding, lost>>

\* A broadcast DHCP reply is received.  Any one ends the wait.  While serving
\* the Etherbone callback gets it and finds no magic.
DhcpReply(r) ==
  LET offered == phase = "offer" /\ parse_reply(r, "OFFER")
      acked == phase = "ack" /\ parse_reply(r, "ACK") /\ r.ip = offer.ip
  IN
  /\ phase # "discover" /\ (phase = "serve" => pending = None)
  /\ \E rest \in {net, net \ {r}} :
       /\ rest = net => late < MaxLate
       /\ late' = IF rest = net THEN late + 1 ELSE late
       /\ \/ offered /\ Request(r, rest)
          \/ acked /\ Bind(r) /\ net' = rest
          \/ phase \in {"offer", "ack"} /\ ~offered /\ ~acked /\ Retry /\ net' = rest
          \/ /\ phase \in {"serve", "arp"} /\ tx' = None /\ net' = rest
             /\ UNCHANGED <<round, stack, binding, lost>>
  /\ UNCHANGED <<boots, pending>>

\* wait_for_reply's loop runs out, with the reply lost or still to come.
wait_for_reply_Forever ==
  /\ phase \in {"offer", "ack"} /\ net # {} /\ late < MaxLate /\ late' = late + 1
  /\ Retry
  /\ UNCHANGED <<boots, pending, net>>
wait_for_reply ==
  /\ phase \in {"offer", "ack"}
  /\ \/ net = {} /\ UNCHANGED late
     \/ net # {} /\ late < MaxLate /\ late' = late + 1
  /\ Retry
  /\ UNCHANGED <<boots, pending, net>>

-----------------------------------------------------------------------------
(* Serving.                                                                *)

\* Frames are received inside udp_service: in the waits, in the refresh, and
\* in the serve loop, where a stashed request is served before the next one.
Servicing == phase # "discover" /\ (phase = "serve" => pending = None)

\* A broadcast Etherbone request, recorded with its sender's MAC.  While
\* acquiring my_ip is the broadcast address, so it is the DHCP callback's,
\* which ignores its ports.
EbRequest(c) ==
  /\ Servicing
  /\ pending' = IF my_ip # Any /\ bx_callback = "eb" /\ pending = None
                THEN [from |-> c, mac |-> c] ELSE pending
  /\ tx' = None
  /\ UNCHANGED <<boots, round, stack, world>>

\* eb_serve_pending: a request with reads is answered, to the requester that
\* was recorded with it.
eb_serve_pending_NoPin ==
  /\ phase = "serve" /\ pending # None /\ pending' = None
  /\ tx' = IF peer.mac = None THEN None ELSE udp_send("eb", my_ip, pending.from)
  /\ UNCHANGED <<boots, round, stack, world>>
eb_serve_pending ==
  /\ phase = "serve" /\ pending # None /\ pending' = None
  /\ \/ /\ peer' = [ip |-> pending.from, mac |-> pending.mac]
        /\ tx' = [kind |-> "eb", from |-> my_ip, ip |-> pending.from, mac |-> pending.mac,
                  to |-> pending.from]
     \/ tx' = None /\ UNCHANGED peer
  /\ UNCHANGED <<boots, round, my_ip, rx_callback, bx_callback, world>>

\* The cache entry after an ARP reply of h.
process_arp_Any(h) == [peer EXCEPT !.mac = h]
process_arp(h) == IF peer.ip = h THEN [peer EXCEPT !.mac = h] ELSE peer

\* A reply of h arrives; a refresh that now has a MAC is over.
ArpReply(h) ==
  /\ Servicing
  /\ peer' = process_arp(h)
  /\ phase' = IF phase = "arp" /\ peer'.mac # None THEN "serve" ELSE phase
  /\ tx' = None
  /\ UNCHANGED <<boots, xid, offer, ticks, my_ip, rx_callback, bx_callback,
                 pending, world>>

\* udp_arp_refresh(gw): the entry is given up to be resolved anew ...
ArpRefresh ==
  /\ phase = "serve" /\ pending = None
  /\ phase' = "arp" /\ peer' = [ip |-> Gateway, mac |-> None] /\ tx' = None
  /\ UNCHANGED <<boots, xid, offer, ticks, my_ip, rx_callback, bx_callback,
                 pending, world>>

\* ... and stays empty after eight requests without an answer.
ArpTimeout ==
  /\ phase = "arp" /\ phase' = "serve" /\ tx' = None
  /\ UNCHANGED <<boots, xid, offer, ticks, stack, pending, world>>

\* A tick of the serve loop is over; after the last one main renews.
Tick ==
  /\ phase = "serve" /\ pending = None
  /\ ticks' = ticks - 1 /\ tx' = None
  /\ \/ ticks' > 0 /\ UNCHANGED <<phase, rx_callback, peer>>
     \/ ticks' = 0 /\ phase' = "discover" /\ rx_callback' = "none" /\ udp_set_broadcast
  /\ UNCHANGED <<boots, xid, offer, my_ip, bx_callback, pending, world>>

\* A power cycle.  The network and the server do not notice.
Reboot ==
  /\ boots < MaxBoots /\ boots' = boots + 1
  /\ phase' = "discover" /\ xid' = 0 /\ offer' = None /\ ticks' = 0
  /\ my_ip' = None /\ rx_callback' = "none" /\ bx_callback' = "none"
  /\ udp_set_broadcast /\ pending' = None /\ tx' = None
  /\ UNCHANGED world

Next ==
  \/ Discover \/ wait_for_reply
  \/ \E r \in net : DhcpReply(r)
  \/ \E c \in Clients : EbRequest(c)
  \/ \E h \in Hosts : ArpReply(h)
  \/ eb_serve_pending \/ ArpRefresh \/ ArpTimeout \/ Tick \/ Reboot

Spec == Init /\ [][Next]_vars

\* main's loops always go on, and a reply that is not lost arrives.
LiveSpec ==
  /\ Spec
  /\ WF_vars(Discover) /\ WF_vars(wait_for_reply)
  /\ WF_vars(\E r \in net : DhcpReply(r))

-----------------------------------------------------------------------------
\* Every DISCOVER and REQUEST is broadcast from 0.0.0.0, whatever peer the
\* serve period before the renewal left in the cache (main.c:281-285).
DhcpIsBroadcast ==
  [][tx' # None /\ tx'.kind = "dhcp" => tx'.from = None /\ tx'.ip = Any /\ tx'.mac = Any]_vars

\* Every Etherbone reply goes, from the leased address, to the address and the
\* MAC of the client that asked, whatever else was received between the
\* request and the reply (eb_serve.c:47-52, 63-71).
ReplyToRequester ==
  [][tx' # None /\ tx'.kind = "eb" =>
       pending # None /\ tx'.from = offer.ip /\ tx'.ip = pending.from /\ tx'.mac = tx'.ip]_vars

\* The one-entry cache never gives an address the MAC of another host, also
\* when replies of several hosts arrive around a refresh (udp.c:252-257).
CacheIsTrue == peer.mac # None => peer.mac = peer.ip

\* The address served is the one the server has bound to the board, however
\* late or often the replies of earlier rounds arrive (main.c:138-158).  Of
\* the first boot only: later ones repeat its transaction numbers.
ServesItsLease == boots = 0 /\ phase \in {"serve", "arp"} => my_ip = binding

\* While replies are lost but never late, the board without an address gets
\* one, at power-up and at every renewal (main.c:98-107, 116-162, 287-292).
Acquires == (my_ip \notin IPs) ~> (my_ip \in IPs \/ late > 0 \/ boots > 0)

\* main.c:55-57: the transaction numbers keep "retry rounds from colliding with
\* each other": a late reply of one round does not keep the rounds after it
\* from a lease.
LateReplyIsHarmless == (phase = "discover") ~> (phase = "serve")
=============================================================================
