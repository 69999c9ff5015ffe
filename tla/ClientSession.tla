---------------------------- MODULE ClientSession ---------------------------
(***************************************************************************)
(* How the client (internal/client/client.go) keeps a smux session over a  *)
(* link that reconnects, and lends it to SOCKS5 requests. Unlike the       *)
(* server, handleReconnect takes no lock of its own, and it writes c.conn  *)
(* and reads it back outside sessMu: conn and session are separate here.   *)
(*                                                                         *)
(* What the peer sends is external: it may break a session (a frame that   *)
(* smux rejects), and nothing at the client replaces a broken one.         *)
(***************************************************************************)
EXTENDS Integers, FiniteSets

CONSTANTS
  Callers,       (* goroutines of the link that call the reconnect callback *)
  Handlers,      (* SOCKS5 connections (handleSocks5)                       *)
  MaxCallbacks,  (* bound: reconnect callbacks in all                       *)
  MaxBreaks      (* bound: sessions broken by the peer in all               *)

Main == "run"
Thread == Callers \cup {Main}
None == 0

ASSUME ClientAssumption ==
  /\ Main \notin Callers \cup Handlers /\ Callers \cap Handlers = {}
  /\ MaxCallbacks \in Nat /\ MaxBreaks \in Nat

VARIABLES
  pc,           (* where Run and the callers are                            *)
  made,         (* the session (sess) each of them made and has yet to store*)
  session,      (* c.session, None when nil                                 *)
  conn,         (* c.conn, None when nil                                    *)
  created,      (* sessions made so far: 1 .. created                       *)
  conns,        (* conns made so far: 1 .. conns                            *)
  runsOn,       (* runsOn[n]: the conn session n reads and writes           *)
  closed,       (* sessions that were closed                                *)
  closedConns,  (* conns that were closed                                   *)
  broken,       (* sessions whose streams fail though nobody closed them    *)
  handler,      (* the state of each SOCKS5 connection and its session      *)
  cancelled,    (* the context of RunWithReady is done                      *)
  crashed,      (* the process died of a nil conn                           *)
  callbacks     (* history: reconnect callbacks so far                      *)

sessVars == <<made, session, conn, created, conns, runsOn, closed, closedConns, crashed>>
vars == <<pc, sessVars, broken, handler, cancelled, callbacks>>

Sessions == 1 .. created
Open == Sessions \ closed
NoHandler == [pc |-> "idle", seen |-> None]

(* A goroutine about to store a session has made one; a SOCKS5 connection  *)
(* at work has a session.                                                  *)
TypeOK ==
  /\ pc \in [Thread -> {"connect", "idle", "newconn", "newsess", "store", "running",
                        "shutdown", "returned"}]
  /\ created \in Nat /\ conns \in Nat
  /\ session \in 0 .. created /\ conn \in 0 .. conns
  /\ made \in [Thread -> 0 .. created]
  /\ \A t \in Thread : pc[t] = "store" => made[t] # None
  /\ DOMAIN runsOn = Sessions /\ \A n \in Sessions : runsOn[n] \in 1 .. conns
  /\ closed \subseteq Sessions /\ broken \subseteq Sessions /\ closedConns \subseteq 1 .. conns
  /\ handler \in [Handlers -> [pc : {"idle", "opening", "relaying"}, seen : 0 .. created]]
  /\ \A h \in Handlers : handler[h].pc # "idle" => handler[h].seen # None
  /\ cancelled \in BOOLEAN /\ crashed \in BOOLEAN /\ callbacks \in 0 .. MaxCallbacks

Init ==
  /\ pc = [t \in Thread |-> IF t = Main THEN "connect" ELSE "idle"]
  /\ made = [t \in Thread |-> None]
  /\ session = None /\ conn = None
  /\ created = 0 /\ conns = 0 /\ runsOn = [n \in {} |-> None]
  /\ closed = {} /\ closedConns = {} /\ broken = {}
  /\ handler = [h \in Handlers |-> NoHandler]
  /\ cancelled = FALSE /\ crashed = FALSE /\ callbacks = 0

Goto(t, label) == pc' = [pc EXCEPT ![t] = label]

(* session.Close, which closes the conn the session runs on (smux), and    *)
(* conn.Close, on whichever of the two is not nil.                         *)
CloseBoth ==
  /\ closed' = closed \cup ({session} \ {None})
  /\ closedConns' = closedConns
       \cup {runsOn[n] : n \in {session} \ {None}} \cup ({conn} \ {None})

-----------------------------------------------------------------------------
(* bringUpLink: the link is connected, or it is not and Run returns.       *)
Connected ==
  /\ pc[Main] = "connect"
  /\ Goto(Main, "newconn")
  /\ UNCHANGED <<sessVars, broken, handler, cancelled, callbacks>>

ConnectFails ==
  /\ pc[Main] = "connect"
  /\ Goto(Main, "returned")
  /\ cancelled' = TRUE
  /\ UNCHANGED <<sessVars, broken, handler, callbacks>>

(* bringUpLink succeeded.                                                  *)
CameUp == created > 0 /\ pc[Main] \in {"running", "shutdown", "returned"}

(* Mutant of Clear: the old session is forgotten without being closed.     *)
ClearKeepsOpen(t) ==
  /\ t \in Callers /\ pc[t] = "idle" /\ CameUp
  /\ callbacks < MaxCallbacks
  /\ callbacks' = callbacks + 1
  /\ session' = None /\ conn' = None
  /\ Goto(t, "newconn")
  /\ UNCHANGED <<made, created, conns, runsOn, closed, closedConns, crashed, broken, handler,
                 cancelled>>

(* handleReconnect up to the release of sessMu. The callers modelled call  *)
(* it once the client is up.                                               *)
Clear(t) ==
  /\ t \in Callers /\ pc[t] = "idle" /\ CameUp
  /\ callbacks < MaxCallbacks
  /\ callbacks' = callbacks + 1
  /\ CloseBoth
  /\ session' = None /\ conn' = None
  /\ Goto(t, "newconn")
  /\ UNCHANGED <<made, created, conns, runsOn, crashed, broken, handler, cancelled>>

(* c.conn = muxconn.New, in handleReconnect and in bringUpLink: no lock.   *)
NewConn(t) ==
  /\ pc[t] = "newconn"
  /\ conns' = conns + 1
  /\ conn' = conns + 1
  /\ Goto(t, "newsess")
  /\ UNCHANGED <<made, session, created, runsOn, closed, closedConns, crashed, broken,
                 handler, cancelled, callbacks>>

(* Mutant of NewSession: the error of smux.Client is dropped and the nil   *)
(* session is stored.                                                      *)
NewSessionFails(t) ==
  /\ pc[t] = "newsess"
  /\ Goto(t, "store")
  /\ UNCHANGED <<sessVars, broken, handler, cancelled, callbacks>>

(* smux.Client(c.conn): whatever c.conn holds by now. The receive loop of a*)
(* session over a nil conn ends the process.                               *)
NewSession(t) ==
  /\ pc[t] = "newsess"
  /\ IF conn = None
     THEN /\ crashed' = TRUE
          /\ UNCHANGED <<pc, made, created, runsOn>>
     ELSE /\ created' = created + 1
          /\ runsOn' = [n \in 1 .. created + 1 |-> IF n = created + 1 THEN conn ELSE runsOn[n]]
          /\ made' = [made EXCEPT ![t] = created + 1]
          /\ Goto(t, "store")
          /\ UNCHANGED crashed
  /\ UNCHANGED <<session, conn, conns, closed, closedConns, broken, handler, cancelled,
                 callbacks>>

(* Mutant of Store: handleReconnect returns without storing the session.   *)
StoreNothing(t) ==
  /\ pc[t] = "store"
  /\ made' = [made EXCEPT ![t] = None]
  /\ Goto(t, IF t = Main THEN "running" ELSE "idle")
  /\ UNCHANGED <<session, conn, created, conns, runsOn, closed, closedConns, crashed, broken,
                 handler, cancelled, callbacks>>

(* c.session = sess, under sessMu.                                         *)
Store(t) ==
  /\ pc[t] = "store"
  /\ session' = made[t]
  /\ made' = [made EXCEPT ![t] = None]
  /\ Goto(t, IF t = Main THEN "running" ELSE "idle")
  /\ UNCHANGED <<conn, created, conns, runsOn, closed, closedConns, crashed, broken, handler,
                 cancelled, callbacks>>

(* The context is cancelled: by the caller, or by the ended callback.      *)
Cancel ==
  /\ ~cancelled
  /\ cancelled' = TRUE
  /\ UNCHANGED <<pc, sessVars, broken, handler, callbacks>>

(* RunWithReady leaves <-runCtx.Done().                                    *)
StopRunning ==
  /\ pc[Main] = "running" /\ cancelled
  /\ Goto(Main, "shutdown")
  /\ UNCHANGED <<sessVars, broken, handler, cancelled, callbacks>>

(* shutdown: what it closes stays stored. The link's goroutines and the    *)
(* SOCKS5 handlers are not waited for.                                     *)
Shutdown ==
  /\ pc[Main] = "shutdown"
  /\ CloseBoth
  /\ Goto(Main, "returned")
  /\ UNCHANGED <<made, session, conn, created, conns, runsOn, crashed, broken, handler,
                 cancelled, callbacks>>

-----------------------------------------------------------------------------
(* handleSocks5: a request takes the session, unless it is nil or closed   *)
(* (the client answers host unreachable).                                  *)
TakeSession(h) ==
  /\ handler[h].pc = "idle" /\ pc[Main] = "running"
  /\ session # None /\ session \notin closed
  /\ handler' = [handler EXCEPT ![h] = [pc |-> "opening", seen |-> session]]
  /\ UNCHANGED <<pc, sessVars, broken, cancelled, callbacks>>

(* tunnel: OpenStream fails on a session closed or broken meanwhile.       *)
OpenStream(h) ==
  /\ handler[h].pc = "opening"
  /\ handler' = [handler EXCEPT ![h] =
       IF @.seen \in closed \cup broken THEN NoHandler ELSE [@ EXCEPT !.pc = "relaying"]]
  /\ UNCHANGED <<pc, sessVars, broken, cancelled, callbacks>>

(* The tunnel ends: either side closed, or its stream failed.              *)
TunnelEnds(h) ==
  /\ handler[h].pc = "relaying"
  /\ handler' = [handler EXCEPT ![h] = NoHandler]
  /\ UNCHANGED <<pc, sessVars, broken, cancelled, callbacks>>

Break ==
  /\ session \in Open \ broken /\ Cardinality(broken) < MaxBreaks
  /\ broken' = broken \cup {session}
  /\ UNCHANGED <<pc, sessVars, handler, cancelled, callbacks>>

-----------------------------------------------------------------------------
ThreadStep(t) == NewConn(t) \/ NewSession(t) \/ Store(t)
HandlerStep(h) == TakeSession(h) \/ OpenStream(h) \/ TunnelEnds(h)

Next == /\ ~crashed
        /\ \/ Connected \/ ConnectFails \/ Cancel \/ StopRunning \/ Shutdown \/ Break
           \/ \E t \in Thread : Clear(t) \/ ThreadStep(t)
           \/ \E h \in Handlers : HandlerStep(h)

Spec == Init /\ [][Next]_vars

(* Goroutines run and the link connects or fails to.                       *)
Fairness ==
  /\ WF_vars(~crashed /\ (Connected \/ ConnectFails))
  /\ WF_vars(~crashed /\ StopRunning) /\ WF_vars(~crashed /\ Shutdown)
  /\ \A t \in Thread : WF_vars(~crashed /\ ThreadStep(t))
  /\ \A h \in Handlers : WF_vars(~crashed /\ OpenStream(h))
FairSpec == Spec /\ Fairness

-----------------------------------------------------------------------------
(* "Push must be set as the link's OnData callback before this conn is     *)
(* used" (internal/muxconn/conn.go): onData pushes to c.conn, so a session *)
(* that is open, and every tunnel on it, must run on c.conn, and it must be*)
(* the one requests are given, or is about to be.                          *)
OpenIsFed == \A n \in Open :
  /\ runsOn[n] = conn
  /\ n = session \/ \E t \in Thread : pc[t] = "store" /\ made[t] = n

(* A reconnect leaves the client able to serve again: requests are given a *)
(* session that works, unless the client is stopped.                       *)
Usable == session \in Open \ broken /\ runsOn[session] = conn /\ conn \notin closedConns
ReconnectRecovers == \A t \in Callers : pc[t] # "idle" ~> (Usable \/ cancelled)

=============================================================================
