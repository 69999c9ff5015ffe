------------------------- MODULE ClientSessionProofs -------------------------
(***************************************************************************)
(* Proofs about ClientSession for any callers and handlers and any         *)
(* bounds: its type invariant, and that an open session is fed when one    *)
(* goroutine calls the reconnect callback; about MobileProbe: that its     *)
(* answers are true, whatever a request may take and however many there    *)
(* are; and about the specification of MCClientSession, which runs the     *)
(* binding, the sessions and the probes beside each other: its type        *)
(* invariant, and what MobileRuntimeProofs says of the binding alone.      *)
(***************************************************************************)
EXTENDS MCClientSession, SequenceTheorems, TLAPS

LEMMA InitTypeOK == Init => TypeOK
<1> SUFFICES ASSUME Init PROVE TypeOK
  OBVIOUS
<1>1. Sessions = {} /\ 1 .. conns = {}
  BY DEF Init, Sessions
<1>2. DOMAIN runsOn = {}
  BY DEF Init
<1>3. /\ pc \in [Thread -> {"connect", "idle", "newconn", "newsess", "store", "running",
                        "shutdown", "returned"}]
      /\ \A t \in Thread : pc[t] # "store"
  BY DEF Init
<1>4. /\ created \in Nat /\ conns \in Nat /\ session \in 0 .. created /\ conn \in 0 .. conns
      /\ made \in [Thread -> 0 .. created]
  BY DEF Init, None
<1>5. /\ handler \in [Handlers -> [pc : {"idle", "opening", "relaying"}, seen : 0 .. created]]
      /\ \A h \in Handlers : handler[h].pc = "idle"
  BY DEF Init, NoHandler, None
<1>6. callbacks \in 0 .. MaxCallbacks
  BY ClientAssumption DEF Init
<1> QED
  BY <1>1, <1>2, <1>3, <1>4, <1>5, <1>6 DEF Init, TypeOK

(* A thread that goes to another label than "store".                       *)
LEMMA GotoType ==
  ASSUME TypeOK, NEW t \in Thread, NEW label \in {"idle", "newconn", "newsess", "running",
                                                  "shutdown", "returned"},
         Goto(t, label)
  PROVE  /\ pc' \in [Thread -> {"connect", "idle", "newconn", "newsess", "store", "running",
                                "shutdown", "returned"}]
         /\ pc' = [pc EXCEPT ![t] = label]
         /\ \A u \in Thread : pc'[u] = "store" => pc[u] = "store"
BY DEF Goto, TypeOK

(* CloseBoth closes sessions and conns that were made.                     *)
LEMMA CloseBothType ==
  ASSUME TypeOK, CloseBoth
  PROVE  closed' \subseteq Sessions /\ closedConns' \subseteq 1 .. conns
<1>1. session # None => session \in Sessions
  BY DEF TypeOK, Sessions, None
<1>2. conn # None => conn \in 1 .. conns
  BY DEF TypeOK, None
<1>3. \A n \in {session} \ {None} : runsOn[n] \in 1 .. conns
  BY <1>1 DEF TypeOK
<1> QED
  BY <1>1, <1>2, <1>3 DEF CloseBoth, TypeOK

LEMMA NextTypeOK == TypeOK /\ [Next]_vars => TypeOK'
<1> SUFFICES ASSUME TypeOK, [Next]_vars PROVE TypeOK'
  OBVIOUS
<1>0. Main \in Thread
  BY DEF Thread
<1>1. ASSUME Connected \/ ConnectFails \/ StopRunning PROVE TypeOK'
  <2>1. PICK label \in {"newconn", "returned", "shutdown"} : Goto(Main, label)
    BY <1>1 DEF Connected, ConnectFails, StopRunning
  <2>2. UNCHANGED <<sessVars, broken, handler, callbacks>> /\ cancelled' \in BOOLEAN
    BY <1>1 DEF Connected, ConnectFails, StopRunning, TypeOK
  <2> QED
    BY <1>0, <2>1, <2>2, GotoType DEF TypeOK, sessVars, Sessions
<1>2. ASSUME Cancel PROVE TypeOK'
  BY <1>2 DEF Cancel, TypeOK, sessVars, Sessions
<1>3. ASSUME Shutdown PROVE TypeOK'
  <2>1. Goto(Main, "returned") /\ CloseBoth
    BY <1>3 DEF Shutdown
  <2> QED
    BY <1>0, <1>3, <2>1, GotoType, CloseBothType DEF Shutdown, TypeOK, Sessions
<1>4. ASSUME Break PROVE TypeOK'
  BY <1>4 DEF Break, TypeOK, sessVars, Sessions, Open
<1>5. ASSUME NEW t \in Thread, Clear(t) PROVE TypeOK'
  <2>1. Goto(t, "newconn") /\ CloseBoth
    BY <1>5 DEF Clear
  <2>2. callbacks' \in 0 .. MaxCallbacks
    BY <1>5, ClientAssumption DEF Clear, TypeOK
  <2>3. /\ pc' \in [Thread -> {"connect", "idle", "newconn", "newsess", "store", "running",
                               "shutdown", "returned"}]
        /\ \A u \in Thread : pc'[u] = "store" => pc[u] = "store"
    BY <1>5, <2>1, GotoType
  <2>4. closed' \subseteq Sessions /\ closedConns' \subseteq 1 .. conns
    BY <2>1, CloseBothType
  <2>5. session' = None /\ conn' = None
        /\ UNCHANGED <<made, created, conns, runsOn, crashed, broken, handler, cancelled>>
    BY <1>5 DEF Clear
  <2>6. session' \in 0 .. created' /\ conn' \in 0 .. conns' /\ Sessions' = Sessions
    BY <2>5 DEF TypeOK, Sessions, None
  <2> QED
    BY <2>2, <2>3, <2>4, <2>5, <2>6 DEF TypeOK
<1>6. ASSUME NEW t \in Thread, NewConn(t) PROVE TypeOK'
  <2>1. Goto(t, "newsess") /\ conns' = conns + 1 /\ conn' = conns + 1 /\ conns \in Nat
    BY <1>6 DEF NewConn, TypeOK
  <2>2. conns' \in Nat /\ conn' \in 0 .. conns' /\ 1 .. conns \subseteq 1 .. conns'
    BY <2>1
  <2> QED
    BY <1>6, <2>1, <2>2, GotoType DEF NewConn, TypeOK, Sessions
<1>7. ASSUME NEW t \in Thread, NewSession(t) PROVE TypeOK'
  <2>1. CASE conn = None
    BY <1>7, <2>1 DEF NewSession, TypeOK, Sessions
  <2>2. CASE conn # None
    <3>1. /\ created' = created + 1 /\ created \in Nat /\ Goto(t, "store")
          /\ runsOn' = [n \in 1 .. created + 1 |-> IF n = created + 1 THEN conn ELSE runsOn[n]]
          /\ made' = [made EXCEPT ![t] = created + 1]
          /\ UNCHANGED <<session, conn, conns, closed, closedConns, broken, handler, cancelled,
                         callbacks, crashed>>
      BY <1>7, <2>2 DEF NewSession, TypeOK
    <3>2. created' \in Nat /\ 0 .. created \subseteq 0 .. created' /\ Sessions \subseteq Sessions'
      BY <3>1 DEF Sessions
    <3>3. /\ pc' \in [Thread -> {"connect", "idle", "newconn", "newsess", "store", "running",
                                "shutdown", "returned"}]
          /\ \A u \in Thread : u # t => pc'[u] = pc[u]
      BY <3>1 DEF Goto, TypeOK
    <3>4. made' \in [Thread -> 0 .. created'] /\ \A u \in Thread : pc'[u] = "store" => made'[u] # None
      BY <3>1, <3>2, <3>3 DEF TypeOK, None
    <3>5. DOMAIN runsOn' = Sessions' /\ \A n \in Sessions' : runsOn'[n] \in 1 .. conns'
      <4>1. conn \in 1 .. conns
        BY <2>2 DEF TypeOK, None
      <4>2. \A n \in 1 .. created + 1 : n # created + 1 => n \in Sessions
        BY <3>1 DEF Sessions
      <4> QED
        BY <3>1, <4>1, <4>2 DEF TypeOK, Sessions
    <3>6. handler' \in [Handlers -> [pc : {"idle", "opening", "relaying"}, seen : 0 .. created']]
      BY <3>1, <3>2 DEF TypeOK
    <3> QED
      BY <3>1, <3>2, <3>3, <3>4, <3>5, <3>6 DEF TypeOK
  <2> QED
    BY <2>1, <2>2
<1>8. ASSUME NEW t \in Thread, Store(t) PROVE TypeOK'
  <2>1. PICK label \in {"running", "idle"} : Goto(t, label)
    BY <1>8 DEF Store
  <2>2. made' \in [Thread -> 0 .. created] /\ \A u \in Thread : u # t => made'[u] = made[u]
    BY <1>8 DEF Store, TypeOK, None
  <2>3. pc'[t] # "store" /\ session' \in 0 .. created
    BY <1>8, <2>1 DEF Store, Goto, TypeOK
  <2> QED
    BY <1>8, <2>1, <2>2, <2>3, GotoType DEF Store, TypeOK, Sessions
<1>9. ASSUME NEW h \in Handlers, HandlerStep(h) PROVE TypeOK'
  <2>1. handler' \in [Handlers -> [pc : {"idle", "opening", "relaying"}, seen : 0 .. created]]
    BY <1>9 DEF HandlerStep, TakeSession, OpenStream, TunnelEnds, TypeOK, NoHandler, None
  <2>2. \A g \in Handlers : handler'[g].pc # "idle" => handler'[g].seen # None
    BY <1>9 DEF HandlerStep, TakeSession, OpenStream, TunnelEnds, TypeOK, NoHandler
  <2>3. UNCHANGED <<pc, sessVars, broken, cancelled, callbacks>>
    BY <1>9 DEF HandlerStep, TakeSession, OpenStream, TunnelEnds
  <2> QED
    BY <2>1, <2>2, <2>3 DEF TypeOK, sessVars, Sessions
<1>10. CASE UNCHANGED vars
  BY <1>10 DEF vars, TypeOK, sessVars, Sessions
<1> QED
  BY <1>1, <1>2, <1>3, <1>4, <1>5, <1>6, <1>7, <1>8, <1>9, <1>10 DEF Next, ThreadStep

(* Sessions and conns are numbered in the order they are made, a session   *)
(* runs on a conn that was made, a goroutine that is about to store a      *)
(* session has made one, and a SOCKS5 connection at work has been given    *)
(* one (handleReconnect, bringUpLink, handleSocks5).                       *)
THEOREM ClientTypeCorrect == Spec => []TypeOK
<1>1. (Init => TypeOK) /\ (TypeOK /\ [Next]_vars => TypeOK')
  BY InitTypeOK, NextTypeOK
<1> QED
  BY <1>1, PTL DEF Spec


-----------------------------------------------------------------------------
(* With one caller of the reconnect callback, and calls only once the      *)
(* client is up, one goroutine at a time makes a session; nothing is open  *)
(* from the moment it begins until it has made it.                         *)
Busy == {"newconn", "newsess", "store"}
OneCallerOnly == \A t, u \in Callers : t = u
AtWork(t) == pc[t] \in Busy
TurnsInv ==
  /\ pc[Main] # "idle" /\ \A t \in Callers : pc[t] = "idle" \/ AtWork(t)
  /\ pc[Main] = "connect" \/ AtWork(Main) => \A t \in Callers : pc[t] = "idle"
FedInv ==
  /\ TypeOK /\ TurnsInv
  /\ \A n \in Open : runsOn[n] = conn
  /\ (pc[Main] = "connect" \/ \E t \in Thread : pc[t] \in {"newconn", "newsess"}) => Open = {}
  /\ \A t \in Thread : pc[t] = "store" => Open \subseteq {made[t]}
  /\ (\A t \in Thread : ~AtWork(t)) => Open \subseteq {session}

LEMMA InitFedInv == Init => FedInv
<1> SUFFICES ASSUME Init PROVE FedInv
  OBVIOUS
<1>1. Open = {}
  BY DEF Init, Open, Sessions
<1>2. pc[Main] = "connect" /\ \A t \in Callers : pc[t] = "idle"
  BY ClientAssumption DEF Init, Thread
<1>3. \A t \in Thread : pc[t] # "store"
  BY <1>2 DEF Thread
<1> QED
  BY <1>1, <1>2, <1>3, InitTypeOK DEF FedInv, TurnsInv, AtWork, Busy

(* Whoever is at work is alone.                                            *)
LEMMA AloneAtWork ==
  ASSUME OneCallerOnly, TurnsInv, NEW t \in Thread, NEW u \in Thread, AtWork(t), AtWork(u)
  PROVE  t = u
BY DEF OneCallerOnly, TurnsInv, AtWork, Busy, Thread

LEMMA NextFedInv ==
  ASSUME OneCallerOnly
  PROVE  FedInv /\ [Next]_vars => FedInv'
<1> SUFFICES ASSUME FedInv, [Next]_vars PROVE FedInv'
  OBVIOUS
<1>0. TypeOK' /\ TypeOK /\ Main \in Thread /\ Main \notin Callers
  BY NextTypeOK, ClientAssumption DEF FedInv, Thread
<1> DEFINE Frame == UNCHANGED <<made, session, conn, created, runsOn>>
<1> DEFINE Rest ==
  /\ TurnsInv'
  /\ \A n \in Open' : runsOn'[n] = conn'
  /\ (pc'[Main] = "connect" \/ \E t \in Thread : pc'[t] \in {"newconn", "newsess"}) => Open' = {}
  /\ \A t \in Thread : pc'[t] = "store" => Open' \subseteq {made'[t]}
  /\ (\A t \in Thread : ~AtWork(t)') => Open' \subseteq {session'}
<1> SUFFICES Rest
  BY <1>0, Zenon DEF FedInv
<1>1. ASSUME NEW label \in {"newconn", "returned"}, pc[Main] = "connect", Goto(Main, label),
             UNCHANGED sessVars
      PROVE  Rest
  <2>1. pc' = [pc EXCEPT ![Main] = label] /\ \A t \in Callers : pc'[t] = "idle"
    BY <1>0, <1>1 DEF Goto, FedInv, TurnsInv, TypeOK, Thread
  <2>2. Open' = {}
    BY <1>1 DEF FedInv, Open, Sessions, sessVars
  <2>3. pc'[Main] = label /\ \A t \in Thread : pc'[t] # "store"
    BY <1>0, <2>1 DEF TypeOK, Thread
  <2> QED
    BY <2>1, <2>2, <2>3 DEF TurnsInv, AtWork, Busy
<1>2. ASSUME Connected \/ ConnectFails PROVE Rest
  BY <1>1, <1>2 DEF Connected, ConnectFails
<1>3. ASSUME StopRunning \/ Shutdown PROVE Rest
  <2>1. PICK from \in {"running", "shutdown"}, to \in {"shutdown", "returned"} :
          pc[Main] = from /\ Goto(Main, to)
    BY <1>3 DEF StopRunning, Shutdown
  <2>2. Open' \subseteq Open /\ UNCHANGED <<made, session, conn, runsOn>>
    BY <1>3 DEF StopRunning, Shutdown, CloseBoth, sessVars, Open, Sessions
  <2>3. pc'[Main] = to /\ \A t \in Callers : pc'[t] = pc[t]
    BY <1>0, <2>1 DEF Goto, TypeOK, Thread
  <2>4. \A t \in Thread : (AtWork(t)' <=> AtWork(t)) /\ (AtWork(t) => pc'[t] = pc[t])
    BY <2>1, <2>3 DEF AtWork, Busy, Thread
  <2>5. TurnsInv'
    BY <2>1, <2>3, <2>4 DEF TurnsInv, FedInv, AtWork, Busy
  <2> QED
    BY <2>1, <2>2, <2>3, <2>4, <2>5 DEF FedInv, AtWork, Busy
<1>4. ASSUME NEW t \in Thread, Clear(t) PROVE Rest
  <2>1. t \in Callers /\ Goto(t, "newconn") /\ pc[Main] \in {"running", "shutdown", "returned"}
    BY <1>4 DEF Clear, CameUp
  <2>2. \A u \in Thread : ~AtWork(u)
    BY <1>4, <2>1 DEF Clear, FedInv, TurnsInv, AtWork, Busy, OneCallerOnly, Thread
  <2>3. Open \subseteq {session} /\ \A n \in Open : n # None
    BY <2>2 DEF FedInv, Open, Sessions, None
  <2>4. Open' = {}
    BY <1>4, <2>3 DEF Clear, CloseBoth, Open, Sessions
  <2>5. pc'[t] = "newconn" /\ \A u \in Thread : u # t => pc'[u] = pc[u] /\ pc'[u] \notin Busy
    BY <2>1, <2>2, <1>0 DEF Goto, TypeOK, AtWork
  <2>6. TurnsInv'
    BY <1>0, <2>1, <2>5 DEF TurnsInv, FedInv, AtWork, Busy, OneCallerOnly, Thread
  <2> QED
    BY <2>4, <2>5, <2>6 DEF AtWork, Busy
<1>5. ASSUME NEW t \in Thread, NewConn(t) \/ NewSession(t) PROVE Rest
  <2>1. pc[t] \in {"newconn", "newsess"} /\ AtWork(t) /\ Open = {}
    BY <1>5 DEF NewConn, NewSession, FedInv, AtWork, Busy
  <2>2. \A u \in Thread : u # t => ~AtWork(u)
    BY <2>1, AloneAtWork DEF FedInv
  <2>3. ASSUME NEW label \in Busy, Goto(t, label)
        PROVE  /\ TurnsInv' /\ pc'[t] = label /\ AtWork(t)'
               /\ \A u \in Thread : u # t => pc'[u] = pc[u] /\ pc'[u] \notin Busy
    <3>1. pc'[t] = label /\ \A u \in Thread : u # t => pc'[u] = pc[u]
      BY <2>3, <1>0 DEF Goto, TypeOK
    <3>2. AtWork(t)' /\ \A u \in Thread : u # t => pc'[u] \notin Busy
      BY <2>2, <3>1 DEF AtWork
    <3>3. TurnsInv'
      BY <1>0, <2>1, <3>1, <3>2 DEF TurnsInv, FedInv, AtWork, Busy, Thread
    <3> QED
      BY <3>1, <3>2, <3>3
  <2>4. CASE NewConn(t)
    <3>1. Goto(t, "newsess") /\ Open' = {}
      BY <2>1, <2>4 DEF NewConn, Open, Sessions
    <3>2. /\ TurnsInv' /\ pc'[t] = "newsess" /\ AtWork(t)'
          /\ \A u \in Thread : u # t => pc'[u] = pc[u] /\ pc'[u] \notin Busy
      BY <2>3, <3>1 DEF Busy
    <3> QED
      BY <3>1, <3>2 DEF AtWork, Busy
  <2>5. CASE NewSession(t) /\ conn = None
    BY <2>5 DEF NewSession, FedInv, TurnsInv, Open, Sessions, AtWork
  <2>6. CASE NewSession(t) /\ conn # None
    <3>1. /\ created' = created + 1 /\ created \in Nat /\ Goto(t, "store") /\ t \in DOMAIN made
          /\ runsOn' = [n \in 1 .. created + 1 |-> IF n = created + 1 THEN conn ELSE runsOn[n]]
          /\ made' = [made EXCEPT ![t] = created + 1]
          /\ UNCHANGED <<conn, closed>>
      BY <1>0, <2>6 DEF NewSession, TypeOK
    <3>2. /\ TurnsInv' /\ pc'[t] = "store" /\ AtWork(t)'
          /\ \A u \in Thread : u # t => pc'[u] = pc[u] /\ pc'[u] \notin Busy
      BY <2>3, <3>1 DEF Busy
    <3>3. Open' \subseteq {created + 1} /\ made'[t] = created + 1 /\ runsOn'[created + 1] = conn
      BY <2>1, <3>1 DEF Open, Sessions
    <3>4. pc'[Main] # "connect" /\ \A u \in Thread : pc'[u] \notin {"newconn", "newsess"}
      BY <1>0, <3>2 DEF Busy, TurnsInv, Thread
    <3>5. \A u \in Thread : pc'[u] = "store" => u = t
      BY <3>2 DEF Busy
    <3>6. conn' = conn
      BY <3>1
    <3> QED
      BY <3>2, <3>3, <3>4, <3>5, <3>6
  <2> QED
    BY <1>5, <2>4, <2>5, <2>6
<1>6. ASSUME NEW t \in Thread, Store(t) PROVE Rest
  <2>1. PICK label \in {"running", "idle"} :
          Goto(t, label) /\ label = IF t = Main THEN "running" ELSE "idle"
    BY <1>6 DEF Store
  <2>2. pc[t] = "store" /\ AtWork(t) /\ \A u \in Thread : u # t => ~AtWork(u)
    BY <1>6, AloneAtWork DEF Store, FedInv, AtWork, Busy
  <2>3. pc'[t] = label /\ \A u \in Thread : u # t => pc'[u] = pc[u]
    BY <2>1, <1>0 DEF Goto, TypeOK
  <2>4. /\ \A u \in Thread : ~AtWork(u)' /\ pc'[u] \notin Busy
    BY <2>2, <2>3 DEF AtWork, Busy
  <2>5. TurnsInv' /\ pc'[Main] # "connect"
    BY <1>0, <2>1, <2>2, <2>3, <2>4 DEF TurnsInv, FedInv, AtWork, Busy, Thread
  <2>6. Open' = Open /\ session' = made[t] /\ UNCHANGED <<conn, runsOn>>
    BY <1>6 DEF Store, Open, Sessions
  <2> QED
    BY <2>2, <2>4, <2>5, <2>6 DEF FedInv, Busy
<1>7. ASSUME UNCHANGED <<pc, sessVars>> PROVE Rest
  BY <1>7 DEF FedInv, TurnsInv, AtWork, Open, Sessions, sessVars
<1>8. ASSUME NEW h \in Handlers, HandlerStep(h) PROVE Rest
  BY <1>7, <1>8 DEF HandlerStep, TakeSession, OpenStream, TunnelEnds
<1> QED
  BY <1>2, <1>3, <1>4, <1>5, <1>6, <1>7, <1>8 DEF Next, ThreadStep, Cancel, Break, vars

(* With one goroutine that calls the reconnect callback (the provider's    *)
(* WatchConnection), a session that is open runs on the conn onData pushes *)
(* to, and is the one requests are given or is about to be: however calls  *)
(* of handleReconnect interleave with shutdown, with sessions that the peer*)
(* breaks and with requests.                                               *)
THEOREM OpenFed ==
  ASSUME OneCallerOnly
  PROVE  Spec => []OpenIsFed
<1>1. FedInv => OpenIsFed
  <2> SUFFICES ASSUME FedInv, NEW n \in Open
               PROVE  runsOn[n] = conn /\ (n = session \/ \E t \in Thread : pc[t] = "store" /\ made[t] = n)
    BY DEF OpenIsFed
  <2>1. CASE \A t \in Thread : ~AtWork(t)
    BY <2>1 DEF FedInv
  <2>2. CASE \E t \in Thread : AtWork(t)
    BY <2>2 DEF FedInv, AtWork, Busy
  <2> QED
    BY <2>1, <2>2
<1>2. (Init => FedInv) /\ (FedInv /\ [Next]_vars => FedInv')
  BY InitFedInv, NextFedInv
<1> QED
  BY <1>1, <1>2, PTL DEF Spec

-----------------------------------------------------------------------------
(* MobileProbe. The answer is given once and is true from then on: a client*)
(* that was ready stays so, the samples are complete before the answer, and*)
(* doneCh holds something only of a client that returned.                  *)
BestInv ==
  /\ samples \in Seq(Nat \cup {Failed}) /\ best \in Nat
  /\ \A s \in Positive : best <= s
  /\ IF best = 0 THEN Positive = {} ELSE best \in Positive
ProbeInv ==
  /\ probe \in [kind : {"none", "check", "ping"},
                pc : {"idle", "select", "warmup", "sample", "finish", "returned"}]
  /\ inDone # "empty" => runs = "returned"
  /\ probe.pc = "idle" => runs = "none"
  /\ probe.pc \in {"idle", "select", "warmup", "sample"} => result = NoResult
  /\ probe.pc \in {"warmup", "sample"} => isReady
  /\ probe.pc = "finish" => ctxDone
  /\ BestInv /\ ProbeAnswersAreTrue

LEMMA RangeOfAppend ==
  ASSUME NEW S, NEW s \in Seq(S), NEW e \in S
  PROVE  Range(Append(s, e)) = Range(s) \cup {e}
<1>1. /\ DOMAIN s = 1 .. Len(s) /\ DOMAIN Append(s, e) = 1 .. Len(s) + 1 /\ Len(s) \in Nat
      /\ \A i \in 1 .. Len(s) : Append(s, e)[i] = s[i]
      /\ Append(s, e)[Len(s) + 1] = e
  OBVIOUS
<1>2. \A i \in 1 .. Len(s) + 1 : i \in 1 .. Len(s) \/ i = Len(s) + 1
  BY <1>1
<1>3. 1 .. Len(s) \subseteq 1 .. Len(s) + 1 /\ Len(s) + 1 \in 1 .. Len(s) + 1
  BY <1>1
<1> QED
  BY <1>1, <1>2, <1>3 DEF Range

LEMMA InitProbeInv == ProbeInit => ProbeInv
<1> SUFFICES ASSUME ProbeInit PROVE ProbeInv
  OBVIOUS
<1>1. Range(samples) = {} /\ Positive = {} /\ samples \in Seq(Nat \cup {Failed})
  BY DEF ProbeInit, Range, Positive
<1>2. result[1] = "none" /\ result # <<"latency", best>>
  BY DEF ProbeInit, NoResult
<1> QED
  BY <1>1, <1>2 DEF ProbeInit, ProbeInv, BestInv, ProbeAnswersAreTrue

(* bestPositiveLatency keeps the least of the positive samples.            *)
LEMMA BestOfSamples ==
  ASSUME BestInv, NEW elapsed \in Nat \cup {Failed},
         samples' = Append(samples, elapsed),
         best' = IF elapsed = Failed THEN best ELSE BestPositiveLatency(best, elapsed)
  PROVE  BestInv'
<1>1. samples' \in Seq(Nat \cup {Failed})
  BY DEF BestInv
<1>2. Range(samples') = Range(samples) \cup {elapsed}
  BY RangeOfAppend DEF BestInv
<1>3. Positive' = IF elapsed > 0 THEN Positive \cup {elapsed} ELSE Positive
  BY <1>2 DEF Positive
<1>4. Positive \subseteq Nat /\ elapsed \in Int /\ (elapsed > 0 <=> elapsed \in Nat \ {0})
  <2>1. Range(samples) \subseteq Nat \cup {Failed}
    BY DEF BestInv, Range
  <2> QED
    BY <2>1 DEF Positive, Failed
<1>5. CASE elapsed > 0 /\ (best = 0 \/ elapsed < best)
  BY <1>1, <1>3, <1>4, <1>5 DEF BestInv, BestPositiveLatency, Failed
<1>6. CASE ~(elapsed > 0 /\ (best = 0 \/ elapsed < best))
  <2>1. best' = best
    BY <1>4, <1>6 DEF BestInv, BestPositiveLatency, Failed
  <2> QED
    BY <1>1, <1>3, <1>4, <1>6, <2>1 DEF BestInv
<1> QED
  BY <1>5, <1>6

LEMMA NextProbeInv ==
  ASSUME Samples > 0
  PROVE  ProbeInv /\ [ProbeNext]_probeVars => ProbeInv'
<1> SUFFICES ASSUME ProbeInv, [ProbeNext]_probeVars PROVE ProbeInv'
  OBVIOUS
<1> DEFINE Same == UNCHANGED <<samples, best>>
<1>0. ASSUME Same PROVE BestInv' /\ Positive' = Positive
  BY <1>0 DEF ProbeInv, BestInv, Positive
<1>1. ASSUME NEW kind \in {"check", "ping"}, NEW args \in Args, Begins(kind, args) PROVE ProbeInv'
  <2>1. Same
    BY <1>1 DEF Begins
  <2>2. \/ probe' = [kind |-> kind, pc |-> "select"] /\ UNCHANGED result
        \/ probe' = [kind |-> kind, pc |-> "returned"] /\ UNCHANGED runs /\ result'[1] = "error"
    BY <1>1 DEF Begins
  <2>3. result' # <<"latency", best>>
    BY <1>1, <2>2 DEF Begins, ProbeInv, NoResult
  <2> QED
    BY <1>0, <1>1, <2>1, <2>2, <2>3 DEF Begins, ProbeInv, ProbeAnswersAreTrue, NoResult
<1>2. ASSUME IsReady PROVE ProbeInv'
  BY <1>0, <1>2 DEF IsReady, ProbeInv, ProbeAnswersAreTrue
<1>3. ASSUME Returns PROVE ProbeInv'
  BY <1>0, <1>3 DEF Returns, ProbeInv, ProbeAnswersAreTrue
<1>4. ASSUME DeadlinePasses PROVE ProbeInv'
  BY <1>0, <1>4 DEF DeadlinePasses, ProbeInv, ProbeAnswersAreTrue
<1>5. ASSUME AnswerReady PROVE ProbeInv'
  <2>1. result' \in {NoResult, <<"latency">>} /\ result' # <<"latency", best>>
    BY <1>5 DEF AnswerReady, ProbeInv, NoResult
  <2>2. result'[1] \in {"none", "latency"}
    BY <2>1 DEF NoResult
  <2> QED
    BY <1>0, <1>5, <2>1, <2>2 DEF AnswerReady, ProbeInv, ProbeAnswersAreTrue
<1>6. ASSUME AnswerDone PROVE ProbeInv'
  <2>1. result' # <<"latency", best>> /\ result'[1] \in {"error", "errStoppedBeforeReady"}
    BY <1>6 DEF AnswerDone
  <2> QED
    BY <1>0, <1>6, <2>1 DEF AnswerDone, ProbeInv, ProbeAnswersAreTrue
<1>7. ASSUME AnswerTimeout PROVE ProbeInv'
  <2>1. result' # <<"latency", best>> /\ result'[1] = "errStartTimedOut"
    BY <1>7 DEF AnswerTimeout
  <2> QED
    BY <1>0, <1>7, <2>1 DEF AnswerTimeout, ProbeInv, ProbeAnswersAreTrue
<1>8. ASSUME WarmsUp \/ Finishes PROVE ProbeInv'
  BY <1>0, <1>8 DEF WarmsUp, Finishes, ProbeInv, ProbeAnswersAreTrue
<1>9. ASSUME TakesSample PROVE ProbeInv'
  <2>1. BestInv'
    BY <1>9, BestOfSamples, ProbeAssumption DEF TakesSample, PingRequest, ProbeInv
  <2>2. result' = NoResult /\ result'[1] = "none" /\ result' # <<"latency", best'>>
    BY <1>9 DEF TakesSample, ProbeInv, NoResult
  <2> QED
    BY <1>9, <2>1, <2>2 DEF TakesSample, ProbeInv, ProbeAnswersAreTrue
<1>10. ASSUME AnswerBest PROVE ProbeInv'
  <2>1. Same /\ isReady' /\ ctxDone' /\ UNCHANGED <<runs, inDone>>
        /\ probe' = [probe EXCEPT !.pc = "finish"]
    BY <1>10 DEF AnswerBest, ProbeInv
  <2>2. CASE best > 0
    <3>1. result'[1] = "latency" /\ best \in Positive
      BY <1>10, <2>2 DEF AnswerBest, ProbeInv, BestInv
    <3> QED
      BY <1>0, <2>1, <3>1 DEF ProbeInv, BestInv, ProbeAnswersAreTrue
  <2>3. CASE ~(best > 0) /\ Failed \in Range(samples)
    <3>1. result'[1] = "error" /\ result'[2] = "request" /\ best \in Nat
      BY <1>10, <2>3 DEF AnswerBest, ProbeInv, BestInv
    <3>2. result' # <<"latency", best>>
      BY <3>1
    <3> QED
      BY <1>0, <2>1, <3>1, <3>2 DEF ProbeInv, ProbeAnswersAreTrue
  <2>4. CASE ~(best > 0) /\ Failed \notin Range(samples)
    <3>1. result' = <<"errHTTPPingTimedOut">> /\ result'[1] = "errHTTPPingTimedOut"
      BY <1>10, <2>4 DEF AnswerBest
    <3>2. result' # <<"latency", best>>
      BY <3>1
    <3>3. samples # <<>> /\ 1 \in DOMAIN samples
      BY <1>10, ProbeAssumption DEF AnswerBest, ProbeInv, BestInv
    <3>4. Positive = {} /\ Range(samples) \subseteq Nat
      BY <2>4 DEF ProbeInv, BestInv, Range
    <3>5. \A s \in Range(samples) : s = 0
      BY <3>4 DEF Positive
    <3>6. samples[1] \in Range(samples)
      BY <3>3 DEF Range
    <3>7. Range(samples) = {0}
      BY <3>5, <3>6
    <3> QED
      BY <1>0, <2>1, <3>1, <3>2, <3>3, <3>7 DEF ProbeInv, ProbeAnswersAreTrue
  <2> QED
    BY <2>2, <2>3, <2>4
<1>11. CASE UNCHANGED probeVars
  BY <1>0, <1>11 DEF probeVars, ProbeInv, ProbeAnswersAreTrue
<1> QED
  BY <1>1, <1>2, <1>3, <1>4, <1>5, <1>6, <1>7, <1>8, <1>9, <1>10, <1>11 DEF ProbeNext, Answers

(* What Check and Ping answer is true, whichever channel their select took *)
(* and whatever the requests took: a client that was ready, the least of   *)
(* the latencies measured, requests that all took less than a millisecond, *)
(* a client that ended.                                                    *)
THEOREM ProbeAnswersTrue ==
  ASSUME Samples > 0
  PROVE  ProbeInit /\ [][ProbeNext]_probeVars => []ProbeAnswersAreTrue
<1>1. ProbeInv => ProbeAnswersAreTrue
  BY DEF ProbeInv
<1>2. (ProbeInit => ProbeInv) /\ (ProbeInv /\ [ProbeNext]_probeVars => ProbeInv')
  BY InitProbeInv, NextProbeInv
<1> QED
  BY <1>1, <1>2, PTL

-----------------------------------------------------------------------------
(* The three ways a client runs, together (MCClientSession). The runtime's *)
(* theorems are those of MobileRuntimeProofs, about an instance of the same*)
(* module over the same state.                                             *)
Proved == INSTANCE MobileRuntimeProofs

LEMMA SameState ==
  /\ Runtime!Run = Proved!Run /\ Runtime!None = Proved!None /\ Runtime!Idle = Proved!Idle
  /\ Runtime!Started = Proved!Started /\ Runtime!Answer = Proved!Answer
  /\ Runtime!histVars = Proved!histVars /\ Runtime!runVars = Proved!runVars
  /\ \A n : Runtime!Ended(n) <=> Proved!Ended(n)
<1>1. Runtime!Run = Proved!Run
  BY DEF Runtime!Run, Proved!Run
<1>2. Runtime!Started = Proved!Started
  BY <1>1 DEF Runtime!Started, Proved!Started
<1>3. \A n : Runtime!Ended(n) <=> Proved!Ended(n)
  BY DEF Runtime!Ended, Proved!Ended
<1> QED
  BY <1>1, <1>2, <1>3 DEF Runtime!None, Proved!None, Runtime!Idle, Proved!Idle,
     Runtime!Answer, Proved!Answer, Runtime!histVars, Proved!histVars, Runtime!runVars,
     Proved!runVars

LEMMA SameInit == Runtime!Init => Proved!Init
BY SameState DEF Runtime!Init, Proved!Init

LEMMA SameNext == Runtime!Next => Proved!Next
<1> USE SameState DEF Runtime!runVars, Proved!runVars, Runtime!histVars, Proved!histVars
<1> SUFFICES ASSUME Runtime!Next PROVE Proved!Next
  OBVIOUS
<1>1. ASSUME NEW n \in Proved!Run PROVE Runtime!Ready(n) => Proved!Ready(n)
  BY DEF Runtime!Ready, Proved!Ready
<1>2. ASSUME NEW n \in Proved!Run PROVE Runtime!ClientReturns(n) => Proved!ClientReturns(n)
  BY DEF Runtime!ClientReturns, Proved!ClientReturns
<1>3. ASSUME NEW n \in Proved!Run PROVE Runtime!RunStep(n) => Proved!RunStep(n)
  BY DEF Runtime!RunStep, Proved!RunStep, Runtime!EndRun, Proved!EndRun, Runtime!CloseDone,
     Proved!CloseDone
<1>4. ASSUME NEW a \in App PROVE Runtime!Start(a) => Proved!Start(a)
  BY DEF Runtime!Start, Proved!Start
<1>5. ASSUME NEW a \in App PROVE Runtime!Stop(a) => Proved!Stop(a)
  BY DEF Runtime!Stop, Proved!Stop, Runtime!Enter, Proved!Enter
<1>6. ASSUME NEW a \in App PROVE Runtime!WaitReady(a) => Proved!WaitReady(a)
  BY DEF Runtime!WaitReady, Proved!WaitReady, Runtime!Enter, Proved!Enter
<1>7. ASSUME NEW a \in App PROVE Runtime!CallStep(a) => Proved!CallStep(a)
  BY DEF Runtime!CallStep, Proved!CallStep, Runtime!CancelRun, Proved!CancelRun,
     Runtime!StopReturns, Proved!StopReturns, Runtime!WaitReadyReady, Proved!WaitReadyReady,
     Runtime!WaitReadyDone, Proved!WaitReadyDone, Runtime!WaitReadyTimeout,
     Proved!WaitReadyTimeout, Runtime!Answered, Proved!Answered
<1> QED
  BY <1>1, <1>2, <1>3, <1>4, <1>5, <1>6, <1>7 DEF Runtime!Next, Proved!Next

LEMMA SameProperties ==
  /\ Proved!TypeOK <=> Runtime!TypeOK
  /\ Proved!AtMostOneClient <=> AtMostOneClient
  /\ Proved!AnswersAreTrue <=> AnswersAreTrue
<1>1. Proved!TypeOK <=> Runtime!TypeOK
  BY SameState DEF Runtime!TypeOK, Proved!TypeOK
<1>2. Proved!AtMostOneClient <=> AtMostOneClient
  BY SameState DEF AtMostOneClient, Runtime!AtMostOneClient, Proved!AtMostOneClient,
     Runtime!Cardinality, Proved!Cardinality, Runtime!IsFiniteSet, Proved!IsFiniteSet
<1>3. Proved!AnswersAreTrue <=> AnswersAreTrue
  BY SameState DEF AnswersAreTrue, Runtime!AnswersAreTrue, Proved!AnswersAreTrue,
     Runtime!StopStops, Proved!StopStops
<1> QED
  BY <1>1, <1>2, <1>3

(* A step of AllSpec is a step of one part, and the others stand still.    *)
LEMMA AllSteps ==
  [AllNext]_allVars => [Next]_vars /\ [ProbeNext]_probeVars /\ [Proved!Next]_(Proved!vars)
<1>1. UNCHANGED runtimeVars => UNCHANGED Proved!vars
  BY DEF runtimeVars, Proved!vars, Proved!runVars, Proved!histVars
<1>2. OfClient \/ OfProbe \/ OfRuntime \/ UNCHANGED allVars =>
        /\ Next \/ UNCHANGED vars
        /\ ProbeNext \/ UNCHANGED probeVars
        /\ Proved!Next \/ UNCHANGED runtimeVars
  BY SameNext DEF OfClient, OfProbe, OfRuntime, allVars
<1> QED
  BY <1>1, <1>2 DEF AllNext

LEMMA AllTypeInv ==
  /\ AllInit => TypeOK /\ Proved!AnswerInv
  /\ TypeOK /\ Proved!AnswerInv /\ [AllNext]_allVars => TypeOK' /\ Proved!AnswerInv'
<1>1. AllInit => TypeOK /\ Proved!AnswerInv
  BY InitTypeOK, SameInit, Proved!InitAnswerInv, RuntimeAssumption DEF AllInit
<1>2. TypeOK /\ Proved!AnswerInv /\ [AllNext]_allVars => TypeOK' /\ Proved!AnswerInv'
  BY AllSteps, NextTypeOK, Proved!NextAnswerInv, RuntimeAssumption
<1> QED
  BY <1>1, <1>2

(* The states of the client and of the mobile runtime are well-formed.     *)
THEOREM AllTypeCorrect == AllSpec => []AllTypeOK
<1>1. TypeOK /\ Proved!AnswerInv => AllTypeOK
  BY SameProperties DEF AllTypeOK, Proved!AnswerInv, Proved!TypeInv
<1> QED
  BY <1>1, AllTypeInv, PTL DEF AllSpec

(* Two clients of the mobile binding never run at once.                    *)
THEOREM BindingRunsOneClient == AllSpec => []AtMostOneClient
<1>1. Proved!AnswerInv => AtMostOneClient
  BY SameProperties, Proved!OneUnended, RuntimeAssumption DEF Proved!AnswerInv
<1> QED
  BY <1>1, AllTypeInv, PTL DEF AllSpec

(* Stop and WaitReady of the mobile binding tell the truth, as long as no  *)
(* run closed the done channel of another.                                 *)
THEOREM BindingAnswersTrue == AllSpec => []AnswersAreTrue
<1>1. Proved!AnswerInv => AnswersAreTrue
  BY SameProperties DEF Proved!AnswerInv
<1> QED
  BY <1>1, AllTypeInv, PTL DEF AllSpec

=============================================================================
