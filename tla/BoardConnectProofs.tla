------------------------- MODULE BoardConnectProofs -------------------------
(***************************************************************************)
(* The safety of BoardConnect for any number of processes and addresses,   *)
(* any command lines and any number of moves and kills.                    *)
(***************************************************************************)
EXTENDS BoardConnect, TLAPS

\* A process that talks to the board goes through somebody's bridge.
UsesSome == \A p \in Procs : pc[p] \in {"identify", "session"} => uses[p] \in Procs

\* Discovery and failure come after the cached host has been given up.
RetrySpent ==
  \A p \in Procs :
    /\ pc[p] \in {"bcast", "dns", "sweep", "truncate", "write", "failed"} => ~from_cache[p]
    /\ arg[p].cmd # "login" /\ ~from_cache[p] => cache \notin blame[p]
    /\ pc[p] \in {"truncate", "write"} => host[p] \in Hosts

ConnectInv ==
  TypeOK /\ LockIsHeld /\ BridgeHasOwner /\ SessionKeepsBridge /\ UsesSome /\ RetrySpent

USE DEF Critical, Ended, Listening, HoldsUdp

\* Every initial state satisfies the invariant.
LEMMA ConnectInitially == Init => ConnectInv
  BY ConnectConstants, SMTT(60)
  DEF Init, ConnectInv, TypeOK, LockIsHeld, BridgeHasOwner, SessionKeepsBridge,
      UsesSome, RetrySpent

USE DEF Goto, client, file

\* Type correctness is preserved by the steps of a process.
LEMMA StepTyped == ASSUME ConnectInv, NEW p \in Procs, Step(p) PROVE TypeOK'
  <1> USE ConnectConstants DEF ConnectInv, TypeOK
  <1>1. CASE Start(p)
    <2>1. Load(cache) \in Hosts \cup {None} /\ arg[p].host \in Hosts \cup {None} BY DEF Load
    <2>2. ASSUME NEW given \in Hosts \cup {None}, NEW use_cache \in BOOLEAN,
                 connect(p, given, use_cache),
                 NEW B \in SUBSET Hosts, blame' = [blame EXCEPT ![p] = B]
          PROVE  TypeOK'
      <3>1. PICK h \in Hosts \cup {None}, c \in BOOLEAN, l \in {"bcast", "lock"} :
              /\ host' = [host EXCEPT ![p] = h]
              /\ from_cache' = [from_cache EXCEPT ![p] = c]
              /\ pc' = [pc EXCEPT ![p] = l]
        BY <2>1, <2>2, Zenon DEF connect
      <3>2. UNCHANGED <<arg, err, uses, lock, bridge, cache, fd, addr, faults>>
        BY <2>2 DEF connect
      <3> QED BY <2>2, <3>1, <3>2
    <2>3. ASSUME NEW given \in Hosts \cup {None}, NEW use_cache \in BOOLEAN,
                 connect(p, given, use_cache), given = arg[p].host
          PROVE  (IF from_cache'[p] THEN {host'[p]} ELSE {}) \in SUBSET Hosts
      <3>1. host'[p] \in Hosts \cup {None} /\ (from_cache'[p] => host'[p] # None)
        BY <2>1, <2>3, Zenon DEF connect
      <3> QED BY <3>1
    <2>4. CASE cmd_status(p)
      <3>1. arg[p].host \in Hosts \cup {None} /\ arg[p].cache \in BOOLEAN BY <2>1
      <3>2. /\ connect(p, arg[p].host, arg[p].cache)
            /\ blame' = [blame EXCEPT ![p] = IF from_cache'[p] THEN {host'[p]} ELSE {}]
        BY <2>4 DEF cmd_status
      <3>3. (IF from_cache'[p] THEN {host'[p]} ELSE {}) \in SUBSET Hosts
        BY <2>3, <3>1, <3>2
      <3> QED BY <2>2, <3>1, <3>2, <3>3, ZenonT(60)
    <2>5. CASE selftest_main(p)
      <3>1. /\ connect(p, arg[p].host, TRUE)
            /\ blame' = [blame EXCEPT ![p] = IF from_cache'[p] THEN {host'[p]} ELSE {}]
        BY <2>5, Zenon DEF selftest_main
      <3>2. (IF from_cache'[p] THEN {host'[p]} ELSE {}) \in SUBSET Hosts
        BY <2>1, <2>3, <3>1, Zenon
      <3> QED BY <2>1, <2>2, <3>1, <3>2, ZenonT(60)
    <2>6. CASE cmd_login(p)
      <3> DEFINE cached == IF arg[p].host = None /\ arg[p].cache THEN Load(cache) ELSE None
                 given == IF arg[p].host # None THEN arg[p].host ELSE cached
                 B == IF cached # None THEN {cached} ELSE {}
      <3>1. given \in Hosts \cup {None} /\ B \in SUBSET Hosts BY <2>1
      <3>2. connect(p, given, FALSE) /\ blame' = [blame EXCEPT ![p] = B]
        BY <2>6, ZenonT(60) DEF cmd_login
      <3> QED BY <2>2, <3>1, <3>2, Zenon
    <2> QED BY <1>1, <2>4, <2>5, <2>6 DEF Start
  <1>2. CASE probe_broadcast(p)
    BY <1>2 DEF probe_broadcast, Found
  <1>3. CASE resolve_dns(p)
    BY <1>3 DEF resolve_dns, Found
  <1>4. CASE probe_sweep(p)
    BY <1>4 DEF probe_sweep, Found
  <1>5. CASE Truncate(p)
    BY <1>5 DEF Truncate
  <1>6. CASE Write(p)
    BY <1>6 DEF Write, RetrySpent
  <1>7. CASE clear_cache(p)
    BY <1>7 DEF clear_cache
  <1>8. CASE acquire_lock(p)
    BY <1>8 DEF acquire_lock
  <1>9. CASE CheckPort(p)
    BY <1>9, ZenonT(60) DEF CheckPort, spawn_litex_server
  <1>10. CASE WaitPort(p)
    BY <1>10, ZenonT(60) DEF WaitPort, Raise
  <1>11. CASE Open(p)
    <2>1. CASE Raise(p) /\ UNCHANGED <<arg, host, from_cache, lock, bridge, file, addr, blame, faults>>
      BY <2>1 DEF Raise
    <2>2. ASSUME NEW b \in Procs, uses' = [uses EXCEPT ![p] = b], Goto(p, "identify"),
                 UNCHANGED <<err, arg, host, from_cache, lock, bridge, file, addr, blame, faults>>
          PROVE  TypeOK'
      BY <2>2
    <2> QED BY <1>11, <2>1, <2>2 DEF Open, Listener
  <1>12. CASE Identify(p)
    BY <1>12, ZenonT(60) DEF Identify, Raise
  <1>13. CASE terminate_server(p)
    BY <1>13 DEF terminate_server
  <1>14. CASE Release(p)
    BY <1>14 DEF Release, AfterFailure
  <1> QED BY <1>1, <1>2, <1>3, <1>4, <1>5, <1>6, <1>7, <1>8, <1>9, <1>10, <1>11,
             <1>12, <1>13, <1>14, ZenonT(60) DEF Step

\* A move of a process inside its critical section.
LEMMA InsideMove ==
  ASSUME ConnectInv, NEW p \in Procs, NEW l \in Critical, NEW u \in Procs \cup {None},
         pc[p] \in Critical, pc' = [pc EXCEPT ![p] = l], uses' = [uses EXCEPT ![p] = u],
         UNCHANGED <<lock, bridge>>,
         bridge[p] # "off" => l \notin {"port", "release"},
         l \in {"identify", "session"} => u \in Procs,
         l = "session" => bridge[u] = "serving"
  PROVE  (LockIsHeld /\ BridgeHasOwner /\ SessionKeepsBridge /\ UsesSome)'
  <1> USE ConnectConstants DEF ConnectInv, TypeOK
  <1>1. \A q \in Procs : pc'[q] = (IF q = p THEN l ELSE pc[q]) /\ uses'[q] = (IF q = p THEN u ELSE uses[q])
    OBVIOUS
  <1>2. LockIsHeld' BY <1>1 DEF LockIsHeld
  <1>3. BridgeHasOwner' BY <1>1 DEF BridgeHasOwner
  <1>4. SessionKeepsBridge' BY <1>1 DEF SessionKeepsBridge
  <1>5. UsesSome' BY <1>1, SMTT(60) DEF UsesSome
  <1> QED BY <1>2, <1>3, <1>4, <1>5

\* So are the lock, the bridges and the cached hosts.
LEMMA StepSafe ==
  ASSUME ConnectInv, NEW p \in Procs, Step(p)
  PROVE  (LockIsHeld /\ BridgeHasOwner /\ SessionKeepsBridge /\ UsesSome)'
  <1> USE ConnectConstants
      DEF ConnectInv, TypeOK, LockIsHeld, BridgeHasOwner, SessionKeepsBridge, UsesSome
  <1>1. CASE Start(p)
    BY <1>1, SMTT(60) DEF Start, cmd_status, selftest_main, cmd_login, connect
  <1>2. CASE probe_broadcast(p)
    BY <1>2 DEF probe_broadcast, Found
  <1>3. CASE resolve_dns(p)
    BY <1>3, SMTT(60) DEF resolve_dns, Found
  <1>4. CASE probe_sweep(p)
    BY <1>4 DEF probe_sweep, Found
  <1>5. CASE Truncate(p)
    BY <1>5, SMTT(60) DEF Truncate
  <1>6. CASE Write(p)
    BY <1>6 DEF Write
  <1>7. CASE clear_cache(p)
    BY <1>7, SMTT(60) DEF clear_cache
  <1>8. CASE acquire_lock(p)
    <2>1. CASE lock = None /\ lock' = p /\ Goto(p, "port")
      <3>1. \A q \in Procs : pc'[q] = IF q = p THEN "port" ELSE pc[q] BY <2>1
      <3>2. UNCHANGED <<uses, bridge>> BY <1>8 DEF acquire_lock
      <3> QED BY <1>8, <2>1, <3>1, <3>2 DEF acquire_lock
    <2>2. CASE lock # None /\ lock' = lock /\ Goto(p, "busy")
      <3>1. \A q \in Procs : pc'[q] = IF q = p THEN "busy" ELSE pc[q] BY <2>2
      <3>2. UNCHANGED <<uses, bridge>> BY <1>8 DEF acquire_lock
      <3> QED BY <1>8, <2>2, <3>1, <3>2, SMTT(60) DEF acquire_lock
    <2> QED BY <1>8, <2>1, <2>2 DEF acquire_lock
  <1>9. CASE CheckPort(p)
    BY <1>9, SMTT(60) DEF CheckPort, spawn_litex_server
  <1>10. CASE WaitPort(p)
    <2>1. CASE Goto(p, "open") /\ UNCHANGED uses
      <3>1. uses' = [uses EXCEPT ![p] = uses[p]] BY <2>1
      <3> QED BY <1>10, <2>1, <3>1, InsideMove, ZenonT(60) DEF WaitPort
    <2>2. CASE Raise(p)
      BY <1>10, <2>2, InsideMove, ZenonT(60) DEF WaitPort, Raise
    <2> QED BY <1>10, <2>1, <2>2 DEF WaitPort
  <1>11. CASE Open(p)
    <2>1. ASSUME NEW b \in Listener, uses' = [uses EXCEPT ![p] = b], Goto(p, "identify")
          PROVE (LockIsHeld /\ BridgeHasOwner /\ SessionKeepsBridge /\ UsesSome)'
      BY <1>11, <2>1, InsideMove, ZenonT(60) DEF Open, Listener
    <2>2. CASE Raise(p)
      BY <1>11, <2>2, InsideMove, ZenonT(60) DEF Open, Raise
    <2> QED BY <1>11, <2>1, <2>2, SMTT(60) DEF Open
  <1>12. CASE Identify(p)
    <2>1. CASE bridge[uses[p]] = "serving" /\ Goto(p, "session") /\ UNCHANGED uses
      <3>1. uses' = [uses EXCEPT ![p] = uses[p]] BY <2>1, SMTT(60)
      <3> QED BY <1>12, <2>1, <3>1, InsideMove, ZenonT(60) DEF Identify
    <2>2. CASE Raise(p)
      BY <1>12, <2>2, InsideMove, ZenonT(60) DEF Identify, Raise
    <2> QED BY <1>12, <2>1, <2>2, SMTT(60) DEF Identify
  <1>13. CASE terminate_server(p)
    BY <1>13, SMTT(60) DEF terminate_server
  <1>14. CASE Release(p)
    BY <1>14, SMTT(60) DEF Release, AfterFailure
  <1> QED BY <1>1, <1>2, <1>3, <1>4, <1>5, <1>6, <1>7, <1>8, <1>9, <1>10, <1>11,
             <1>12, <1>13, <1>14, ZenonT(60) DEF Step

\* A retry is made at most once, and what it blames is no longer cached.
LEMMA StepRetry == ASSUME ConnectInv, NEW p \in Procs, Step(p) PROVE RetrySpent'
  <1> USE ConnectConstants DEF ConnectInv, TypeOK, RetrySpent
  <1>1. CASE Start(p)
    <2>1. pc[p] = "start" /\ \A q \in Procs \ {p} :
            pc'[q] = pc[q] /\ from_cache'[q] = from_cache[q] /\ blame'[q] = blame[q]
            /\ host'[q] = host[q]
      BY <1>1, SMTT(60) DEF Start, cmd_status, selftest_main, cmd_login, connect
    <2>2. pc'[p] \in {"bcast", "lock"} /\ (pc'[p] = "bcast" => ~from_cache'[p])
      BY <1>1, ZenonT(60) DEF Start, cmd_status, selftest_main, cmd_login, connect
    <2>3. arg[p].cmd # "login" /\ ~from_cache'[p] => blame'[p] = {}
      BY <1>1 DEF Start, cmd_status, selftest_main, cmd_login, connect
    <2>4. UNCHANGED <<arg, cache>>
      BY <1>1 DEF Start, cmd_status, selftest_main, cmd_login, connect
    <2> QED BY <2>1, <2>2, <2>3, <2>4, SMTT(60)
  <1>2. CASE probe_broadcast(p)
    BY <1>2, SMTT(60) DEF probe_broadcast, Found
  <1>3. CASE resolve_dns(p)
    BY <1>3, SMTT(60) DEF resolve_dns, Found
  <1>4. CASE probe_sweep(p)
    BY <1>4, SMTT(60) DEF probe_sweep, Found
  <1>5. CASE Truncate(p)
    BY <1>5 DEF Truncate
  <1>6. CASE Write(p)
    BY <1>6 DEF Write
  <1>7. CASE clear_cache(p)
    BY <1>7 DEF clear_cache
  <1>8. CASE acquire_lock(p)
    BY <1>8 DEF acquire_lock
  <1>9. CASE CheckPort(p)
    BY <1>9, SMTT(60) DEF CheckPort, spawn_litex_server
  <1>10. CASE WaitPort(p)
    BY <1>10 DEF WaitPort, Raise
  <1>11. CASE Open(p)
    BY <1>11, SMTT(60) DEF Open, Raise
  <1>12. CASE Identify(p)
    BY <1>12, SMTT(60) DEF Identify, Raise
  <1>13. CASE terminate_server(p)
    BY <1>13 DEF terminate_server
  <1>14. CASE Release(p)
    BY <1>14, SMTT(60) DEF Release, AfterFailure
  <1> QED BY <1>1, <1>2, <1>3, <1>4, <1>5, <1>6, <1>7, <1>8, <1>9, <1>10, <1>11,
             <1>12, <1>13, <1>14, ZenonT(60) DEF Step

\* Closing, dying, the bridges and the board preserve the invariant too.
LEMMA OthersSafe ==
  ASSUME ConnectInv,
         BoardMoves \/ \E p \in Procs : Close(p) \/ Die(p) \/ BridgeStep(p)
  PROVE  ConnectInv'
  <1> USE ConnectConstants
      DEF ConnectInv, TypeOK, LockIsHeld, BridgeHasOwner, SessionKeepsBridge, UsesSome,
          RetrySpent
  <1>1. CASE BoardMoves
    BY <1>1, SMTT(60) DEF BoardMoves
  <1>2. ASSUME NEW p \in Procs, Close(p) PROVE ConnectInv'
    BY <1>2, SMTT(60) DEF Close
  <1>3. ASSUME NEW p \in Procs, Die(p) PROVE ConnectInv'
    BY <1>3, SMTT(60) DEF Die
  <1>4. ASSUME NEW b \in Procs, BridgeStep(b) PROVE ConnectInv'
    <2>1. PICK s \in {"off", "tcp", "udp", "tcpudp", "probed", "serving"} :
            Bridge(b, s) /\ bridge[b] \notin {"off", "serving"}
      BY <1>4 DEF BridgeStep, BindTcp, BindUdp, Probe
    <2> QED BY <2>1, SMTT(60) DEF Bridge
  <1> HIDE DEF ConnectInv
  <1> QED BY <1>1, <1>2, <1>3, <1>4, Zenon

\* The invariant is inductive.
LEMMA ConnectStep == ConnectInv /\ [Next]_vars => ConnectInv'
  <1> SUFFICES ASSUME ConnectInv, [Next]_vars PROVE ConnectInv'
    OBVIOUS
  <1>1. CASE UNCHANGED vars
    BY <1>1 DEF vars, ConnectInv, TypeOK, LockIsHeld, BridgeHasOwner, SessionKeepsBridge,
                UsesSome, RetrySpent, Listener
  <1>2. ASSUME NEW p \in Procs, Step(p) PROVE ConnectInv'
    BY <1>2, StepTyped, StepSafe, StepRetry DEF ConnectInv
  <1> QED BY <1>1, <1>2, OthersSafe DEF Next

\* The types of the state, the lock, the bridges and the cache are as the
\* module's properties say, whatever the number of commands and faults.
THEOREM ConnectInvariant == Spec => []ConnectInv
  BY ConnectInitially, ConnectStep, PTL DEF Spec

\* The lock is held exactly inside _connect_to, the session and close().
THEOREM LockSafety == Spec => []LockIsHeld
  <1>1. ConnectInv => LockIsHeld BY DEF ConnectInv
  <1> QED BY <1>1, ConnectInvariant, PTL

\* No failed connect leaves its bridge process behind.
THEOREM NoOrphans == Spec => []BridgeHasOwner
  <1>1. ConnectInv => BridgeHasOwner BY DEF ConnectInv
  <1> QED BY <1>1, ConnectInvariant, PTL

\* Nobody takes the bridge away from under a session.
THEOREM BridgeStays == Spec => []SessionKeepsBridge
  <1>1. ConnectInv => SessionKeepsBridge BY DEF ConnectInv
  <1> QED BY <1>1, ConnectInvariant, PTL

\* Board.connect never leaves the cached host that failed it in the cache.
THEOREM CacheSafety == Spec => []RetryDropsHost
  <1>1. ConnectInv => RetryDropsHost BY Zenon DEF ConnectInv, RetrySpent, RetryDropsHost
  <1> QED BY <1>1, ConnectInvariant, PTL

\* Discovery by probe finds the board or nothing.
THEOREM ProbeSafety == Spec => ProbeHearsBoard
  <1> DEFINE Heard == \A p \in Procs : pc[p] \in {"bcast", "sweep"} /\ pc'[p] = "truncate"
                        => host'[p] = addr
  <1>1. ConnectInv /\ [Next]_vars => [Heard]_vars
    <2> SUFFICES ASSUME ConnectInv, Next, NEW q \in Procs,
                        pc[q] \in {"bcast", "sweep"}, pc'[q] = "truncate"
                 PROVE  host'[q] = addr
      OBVIOUS
    <2>1. PICK s \in Arrivals, h \in Hosts \cup {None} :
            Hears(s, h) /\ h # None /\ host' = [host EXCEPT ![q] = h]
      <3> USE DEF ConnectInv, TypeOK
      <3>1. PICK p \in Procs : Step(p) \/ Close(p) \/ Die(p) \/ BridgeStep(p) \/ BoardMoves
        BY DEF Next
      <3>2. pc' = pc \/ \E l : pc' = [pc EXCEPT ![p] = l]
        BY <3>1, Zenon
        DEF Step, Start, cmd_status, selftest_main, cmd_login, connect,
            probe_broadcast, resolve_dns, probe_sweep, Found, Truncate,
           Write, clear_cache, acquire_lock, CheckPort, spawn_litex_server, WaitPort, Open, Identify, Raise,
           terminate_server, Release, Close, Die, BridgeStep, BindTcp, BindUdp, Probe, Bridge,
           BoardMoves
      <3>3. p = q BY <3>2
      <3>4. probe_broadcast(q) \/ probe_sweep(q)
        BY <3>1, <3>3, Zenon
        DEF Step, Start, cmd_status, selftest_main, cmd_login, connect,
            resolve_dns, Found, Truncate,
           Write, clear_cache, acquire_lock, CheckPort, spawn_litex_server, WaitPort, Open, Identify, Raise,
           terminate_server, Release, Close, Die, BridgeStep, BindTcp, BindUdp, Probe, Bridge,
           BoardMoves
      <3> QED BY <3>4 DEF probe_broadcast, probe_sweep, Found
    <2> QED BY <2>1, ConnectConstants DEF Hears, Arrivals, ConnectInv, TypeOK
  <1> QED BY <1>1, ConnectInvariant, PTL DEF ProbeHearsBoard, Spec
=============================================================================
