---------------------------- MODULE BoardConnect ----------------------------
(***************************************************************************)
(* Reaching the board: discovery and its cache file (discovery.py), the    *)
(* single-instance lock, the bridge process and the stale-cache retry      *)
(* (board.py), the start-up of the bridge (eb_server.py), and the commands *)
(* that drive them (cli.py, host_selftest.py).                             *)
(*                                                                         *)
(* Several commands run at once on one machine.  They share the lock file, *)
(* the cache file and the two ports of the bridge.  Time is abstract: a    *)
(* deadline may pass at any moment of the wait it bounds.                  *)
(***************************************************************************)
EXTENDS Naturals

CONSTANTS Procs,      \* the b8008net processes on this machine
          Hosts,      \* addresses of the LAN
          None,       \* no host, no process
          Blank,      \* a cache file just truncated
          Args,       \* command lines: [cmd, host, cache]
          MaxFaults   \* how often the board moves or a process is killed

ASSUME ConnectConstants ==
  /\ MaxFaults \in Nat
  /\ None \notin Procs /\ None \notin Hosts /\ Blank \notin Hosts /\ Blank # None
  /\ Args \subseteq [cmd : {"login", "status", "selftest"},
                     host : Hosts \cup {None}, cache : BOOLEAN]

VARIABLES
  arg,         \* each process's command line
  pc,          \* where each process is
  host,        \* the host it connects to
  from_cache,  \* Board.connect's flag: a failure is retried past the cache
  err,         \* an exception is on its way out
  uses,        \* whose bridge the client's TCP connection goes to
  lock,        \* holder of the flock
  bridge,      \* the bridge each process spawned
  cache,       \* contents of the cache file; None when there is none
  fd,          \* the process writes the cache file that is still linked
  addr,        \* where the board answers; None while it does not
  blame,       \* history: cached hosts that failed a process, not seen since
  faults

client == <<pc, host, from_cache, err, uses>>
file == <<cache, fd>>
vars == <<arg, client, lock, bridge, file, addr, blame, faults>>

\* A process inside _connect_to or with a Board in hand.
Critical == {"port", "wait", "open", "identify", "session", "terminate", "release"}
Ended == {"done", "busy", "failed", "dead"}

\* The bridge: "tcp" and "probed" are the two orders of RemoteServer.open.
Listening == {"tcp", "tcpudp", "serving"}
HoldsUdp == {"udp", "tcpudp", "probed", "serving"}

Listener == {b \in Procs : bridge[b] \in Listening}

TypeOK ==
  /\ arg \in [Procs -> Args]
  /\ pc \in [Procs -> Critical \cup Ended \cup
               {"start", "bcast", "dns", "sweep", "truncate", "write", "lock", "clear"}]
  /\ host \in [Procs -> Hosts \cup {None}]
  /\ from_cache \in [Procs -> BOOLEAN]
  /\ err \in [Procs -> BOOLEAN]
  /\ uses \in [Procs -> Procs \cup {None}]
  /\ lock \in Procs \cup {None}
  /\ bridge \in [Procs -> {"off", "start"} \cup Listening \cup HoldsUdp]
  /\ cache \in Hosts \cup {None, Blank}
  /\ fd \in [Procs -> BOOLEAN]
  /\ addr \in Hosts \cup {None}
  /\ blame \in [Procs -> SUBSET Hosts]
  /\ faults \in 0 .. MaxFaults

Init ==
  /\ arg \in [Procs -> Args]
  /\ pc = [p \in Procs |-> "start"]
  /\ host = [p \in Procs |-> None]
  /\ from_cache = [p \in Procs |-> FALSE]
  /\ err = [p \in Procs |-> FALSE]
  /\ uses = [p \in Procs |-> None]
  /\ lock = None
  /\ bridge = [p \in Procs |-> "off"]
  /\ cache \in Hosts \cup {None}
  /\ fd = [p \in Procs |-> FALSE]
  /\ addr \in Hosts \cup {None}
  /\ blame = [p \in Procs |-> {}]
  /\ faults = 0

Goto(p, label) == pc' = [pc EXCEPT ![p] = label]

-----------------------------------------------------------------------------
(* Discovery.                                                              *)

\* discovery.load_cache: a missing and an empty file are the same.
Load(file_) == IF file_ = Blank THEN None ELSE file_

\* Board.connect up to the first use of the network: an explicit host is taken
\* as it is, a cached one is remembered as such.
connect(p, given, use_cache) ==
  LET cached == IF given = None /\ use_cache THEN Load(cache) ELSE None
      h == IF given # None THEN given ELSE cached
  IN /\ pc[p] = "start"
     /\ host' = [host EXCEPT ![p] = h]
     /\ from_cache' = [from_cache EXCEPT ![p] = cached # None]
     /\ Goto(p, IF h = None THEN "bcast" ELSE "lock")
     /\ UNCHANGED <<arg, err, uses, lock, bridge, file, addr, faults>>

cmd_status(p) ==
  /\ arg[p].cmd = "status"
  /\ connect(p, arg[p].host, arg[p].cache)
  /\ blame' = [blame EXCEPT ![p] = IF from_cache'[p] THEN {host'[p]} ELSE {}]

selftest_main(p) ==
  /\ arg[p].cmd = "selftest"
  /\ connect(p, arg[p].host, TRUE)
  /\ blame' = [blame EXCEPT ![p] = IF from_cache'[p] THEN {host'[p]} ELSE {}]

\* login asks discover() itself and gives connect the answer as an explicit
\* host, also when discover() read it from the cache.
cmd_login(p) ==
  LET cached == IF arg[p].host = None /\ arg[p].cache THEN Load(cache) ELSE None
  IN /\ arg[p].cmd = "login"
     /\ connect(p, IF arg[p].host # None THEN arg[p].host ELSE cached, FALSE)
     /\ blame' = [blame EXCEPT ![p] = IF cached # None THEN {cached} ELSE {}]

Start(p) == cmd_status(p) \/ selftest_main(p) \/ cmd_login(p)

\* A datagram the discovery socket receives: only the board's answer parses
\* as an Etherbone probe reply.
Datagram == [from : Hosts, pr : BOOLEAN]
Arrivals ==
  {s \in UNION {[1 .. n -> Datagram] : n \in 0 .. 2} :
     \A i \in DOMAIN s : s[i].pr => s[i].from = addr}

\* The receive loops of probe_broadcast and probe_sweep: h is the outcome of a
\* window in which s arrives.
Hears(s, h) ==
  \/ h = None /\ \A i \in DOMAIN s : ~s[i].pr
  \/ \E i \in DOMAIN s :
       s[i].pr /\ (\A j \in 1 .. i - 1 : ~s[j].pr) /\ h = s[i].from

\* One strategy of discover(): on a hit the host is saved, on a miss the next
\* strategy is tried.
Found(p, h, miss) ==
  /\ host' = [host EXCEPT ![p] = h]
  /\ Goto(p, IF h = None THEN miss ELSE "truncate")
  /\ UNCHANGED <<arg, from_cache, err, uses, lock, bridge, file, addr, blame, faults>>

probe_broadcast(p) ==
  /\ pc[p] = "bcast"
  /\ \E s \in Arrivals, h \in Hosts \cup {None} : Hears(s, h) /\ Found(p, h, "dns")

\* The name server may know an address the board no longer has.
resolve_dns(p) ==
  pc[p] = "dns" /\ \E h \in Hosts \cup {None} : Found(p, h, "sweep")

probe_sweep(p) ==
  /\ pc[p] = "sweep"
  /\ \E s \in Arrivals, h \in Hosts \cup {None} : Hears(s, h) /\ Found(p, h, "failed")

\* discovery.save_cache: open(path, "w") truncates, the write comes later and
\* goes to the file that was opened, even if it has been removed meanwhile.
Truncate(p) ==
  /\ pc[p] = "truncate"
  /\ cache' = Blank
  /\ fd' = [fd EXCEPT ![p] = TRUE]
  /\ Goto(p, "write")
  /\ UNCHANGED <<arg, host, from_cache, err, uses, lock, bridge, addr, blame, faults>>

Write(p) ==
  /\ pc[p] = "write"
  /\ cache' = IF fd[p] THEN host[p] ELSE cache
  /\ fd' = [fd EXCEPT ![p] = FALSE]
  /\ blame' = [q \in Procs |-> blame[q] \ {host[p]}]
  /\ Goto(p, "lock")
  /\ UNCHANGED <<arg, host, from_cache, err, uses, lock, bridge, addr, faults>>

\* The retry of Board.connect starts by dropping the cache.
clear_cache(p) ==
  /\ pc[p] = "clear"
  /\ cache' = None
  /\ fd' = [q \in Procs |-> FALSE]
  /\ from_cache' = [from_cache EXCEPT ![p] = FALSE]
  /\ Goto(p, "bcast")
  /\ UNCHANGED <<arg, host, err, uses, lock, bridge, addr, blame, faults>>

-----------------------------------------------------------------------------
(* Board._connect_to and Board.close.                                      *)

acquire_lock(p) ==
  /\ pc[p] = "lock"
  /\ \/ lock = None /\ lock' = p /\ Goto(p, "port")
     \/ lock # None /\ lock' = lock /\ Goto(p, "busy")
  /\ UNCHANGED <<arg, host, from_cache, err, uses, bridge, file, addr, blame, faults>>

\* An exception inside the protected block: the client is closed first.
Raise(p) ==
  /\ err' = [err EXCEPT ![p] = TRUE]
  /\ uses' = [uses EXCEPT ![p] = None]
  /\ Goto(p, "terminate")

spawn_litex_server(p) == bridge' = [bridge EXCEPT ![p] = "start"]

\* The bridge is spawned unless something already listens on its port.
CheckPort(p) ==
  /\ pc[p] = "port"
  /\ IF Listener # {}
     THEN Goto(p, "open") /\ UNCHANGED bridge
     ELSE Goto(p, "wait") /\ spawn_litex_server(p)
  /\ UNCHANGED <<arg, host, from_cache, err, uses, lock, file, addr, blame, faults>>

\* The poll loop: anything listening ends it, and so does its deadline.
WaitPort(p) ==
  /\ pc[p] = "wait"
  /\ \/ Listener # {} /\ Goto(p, "open") /\ UNCHANGED <<err, uses>>
     \/ Raise(p)
  /\ UNCHANGED <<arg, host, from_cache, lock, bridge, file, addr, blame, faults>>

\* RemoteClient reads csr.csv and connects; either may fail.
Open(p) ==
  /\ pc[p] = "open"
  /\ \/ \E b \in Listener :
          uses' = [uses EXCEPT ![p] = b] /\ Goto(p, "identify") /\ UNCHANGED err
     \/ Raise(p)
  /\ UNCHANGED <<arg, host, from_cache, lock, bridge, file, addr, blame, faults>>

\* The first read of the board.  It waits while the bridge still probes, and
\* fails with the bridge or when the board does not answer.
Identify_Outside(p) ==
  /\ pc[p] = "identify"
  /\ \/ bridge[uses[p]] = "serving" /\ addr # None /\ Goto(p, "session") /\ UNCHANGED <<err, uses>>
     \/ /\ bridge[uses[p]] \in {"serving", "off"}
        /\ err' = [err EXCEPT ![p] = TRUE] /\ UNCHANGED uses
        /\ Goto(p, IF from_cache[p] THEN "clear" ELSE "failed")
  /\ UNCHANGED <<arg, host, from_cache, lock, bridge, file, addr, blame, faults>>
Identify_NoRead(p) ==
  /\ pc[p] = "identify"
  /\ Goto(p, "session")
  /\ UNCHANGED <<arg, host, from_cache, err, uses, lock, bridge, file, addr, blame, faults>>
Identify(p) ==
  /\ pc[p] = "identify"
  /\ \/ bridge[uses[p]] = "serving" /\ addr # None /\ Goto(p, "session") /\ UNCHANGED <<err, uses>>
     \/ bridge[uses[p]] \in {"serving", "off"} /\ Raise(p)
  /\ UNCHANGED <<arg, host, from_cache, lock, bridge, file, addr, blame, faults>>

\* The command is over, or failed: its finally clause closes the board.
Close(p) ==
  /\ pc[p] = "session"
  /\ uses' = [uses EXCEPT ![p] = None]
  /\ Goto(p, "terminate")
  /\ UNCHANGED <<arg, host, from_cache, err, lock, bridge, file, addr, blame, faults>>

\* SIGTERM, a bounded wait, SIGKILL, a final wait: the child is gone.
terminate_server_TermOnly(p) ==
  /\ pc[p] = "terminate"
  /\ bridge' = [bridge EXCEPT ![p] = IF @ = "serving" THEN "off" ELSE @]
  /\ Goto(p, "release")
  /\ UNCHANGED <<arg, host, from_cache, err, uses, lock, file, addr, blame, faults>>
terminate_server(p) ==
  /\ pc[p] = "terminate"
  /\ bridge' = [bridge EXCEPT ![p] = "off"]
  /\ Goto(p, "release")
  /\ UNCHANGED <<arg, host, from_cache, err, uses, lock, file, addr, blame, faults>>

\* Board.connect's except clauses: a cached host gets one more chance.
AfterFailure_GiveUp(p) == "failed"
AfterFailure(p) == IF from_cache[p] THEN "clear" ELSE "failed"

Release(p) ==
  /\ pc[p] = "release"
  /\ lock' = None
  /\ err' = [err EXCEPT ![p] = FALSE]
  /\ Goto(p, IF err[p] THEN AfterFailure(p) ELSE "done")
  /\ UNCHANGED <<arg, host, from_cache, uses, bridge, file, addr, blame, faults>>

-----------------------------------------------------------------------------
(* The bridge process: eb_server.main, CommUDPBroadcast.open and probe.    *)

Bridge(b, s) ==
  /\ bridge' = [bridge EXCEPT ![b] = s]
  /\ UNCHANGED <<arg, client, lock, file, addr, blame, faults>>

\* RemoteServer.open binds the TCP port; a port in use ends the process.
BindTcp(b) ==
  /\ bridge[b] \in {"start", "probed"}
  /\ Bridge(b, IF Listener # {} THEN "off"
               ELSE IF bridge[b] = "start" THEN "tcp" ELSE "serving")

\* CommUDPBroadcast.open binds the UDP port, without sharing it.
BindUdp(b) ==
  /\ bridge[b] \in {"start", "tcp"}
  /\ Bridge(b, IF \E c \in Procs : bridge[c] \in HoldsUdp THEN "off"
               ELSE IF bridge[b] = "start" THEN "udp" ELSE "tcpudp")

\* CommUDPBroadcast.probe: three tries, then the process ends.
Probe_Forever(b) ==
  /\ bridge[b] \in {"udp", "tcpudp"}
  /\ addr # None
  /\ Bridge(b, IF bridge[b] = "udp" THEN "probed" ELSE "serving")
Probe(b) ==
  /\ bridge[b] \in {"udp", "tcpudp"}
  /\ \/ addr # None /\ Bridge(b, IF bridge[b] = "udp" THEN "probed" ELSE "serving")
     \/ Bridge(b, "off")

-----------------------------------------------------------------------------
(* The environment.                                                        *)

\* The board loses its lease, comes back, or comes back elsewhere.
BoardMoves ==
  /\ faults < MaxFaults
  /\ faults' = faults + 1
  /\ \E a \in Hosts \cup {None} : a # addr /\ addr' = a
  /\ UNCHANGED <<arg, client, lock, bridge, file, blame>>

\* A process ends without its cleanup.  The system closes its files, which
\* frees the lock; the bridge it spawned lives on.
Die(p) ==
  /\ faults < MaxFaults
  /\ faults' = faults + 1
  /\ pc[p] \notin Ended
  /\ Goto(p, "dead")
  /\ uses' = [uses EXCEPT ![p] = None]
  /\ lock' = IF lock = p THEN None ELSE lock
  /\ fd' = [fd EXCEPT ![p] = FALSE]
  /\ UNCHANGED <<arg, host, from_cache, err, bridge, cache, addr, blame>>

Step(p) ==
  \/ Start(p) \/ probe_broadcast(p) \/ resolve_dns(p) \/ probe_sweep(p)
  \/ Truncate(p) \/ Write(p) \/ clear_cache(p)
  \/ acquire_lock(p) \/ CheckPort(p) \/ WaitPort(p) \/ Open(p) \/ Identify(p)
  \/ terminate_server(p) \/ Release(p)

BridgeStep(b) == BindTcp(b) \/ BindUdp(b) \/ Probe(b)

Next ==
  \/ \E p \in Procs : Step(p) \/ Close(p) \/ Die(p) \/ BridgeStep(p)
  \/ BoardMoves

Spec == Init /\ [][Next]_vars

\* A process that can go on does, except that a session may last; so does a
\* bridge.
Fairness == \A p \in Procs : WF_vars(Step(p)) /\ WF_vars(BridgeStep(p))

-----------------------------------------------------------------------------
(* Properties.                                                             *)

\* The lock is held exactly by the process that is between the lock and the
\* release of _connect_to or close: no failure, retry or kill leaks it, and no
\* process works on the board without it.
LockIsHeld == \A p \in Procs : lock = p <=> pc[p] \in Critical

\* A bridge process runs only while the command that spawned it is still going
\* to terminate it, or was killed: no failed connect orphans its child.
BridgeHasOwner ==
  \A p \in Procs : bridge[p] # "off" =>
    pc[p] \in {"wait", "open", "identify", "session", "terminate", "dead"}

\* A session's bridge stays up under it, also when the bridge was spawned by
\* another process: close() takes the bridge down before it lets go of the lock.
SessionKeepsBridge ==
  \A p \in Procs : pc[p] = "session" =>
    uses[p] # None /\ bridge[uses[p]] = "serving"

\* A command that leaves the cache to Board.connect and fails on a cached host
\* does not leave that host there for the next one, unless somebody has found
\* it again since: the retry drops the entry before it rediscovers.
RetryDropsHost ==
  \A p \in Procs : pc[p] = "failed" /\ arg[p].cmd # "login" => cache \notin blame[p]

\* Both probes take only the board's own answer for the board, whatever else
\* arrives on the socket before it.
ProbeHearsBoard ==
  [][\A p \in Procs : pc[p] \in {"bcast", "sweep"} /\ pc'[p] = "truncate"
       => host'[p] = addr]_vars

\* Every command gets its session or ends; none hangs on the lock, on the
\* bridge or on a board that does not answer.
ConnectEnds == \A p \in Procs : <>(pc[p] \in Ended \cup {"session"})
=============================================================================
