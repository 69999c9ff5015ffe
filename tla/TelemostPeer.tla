---------------------------- MODULE TelemostPeer ----------------------------
(***************************************************************************)
(* The life of a telemost peer that carries a data channel                 *)
(* (internal/provider/telemost/peer.go): Connect makes a session (peer     *)
(* connections, a data channel, a websocket, goroutines that use them);    *)
(* goroutines that see it fail queue a trigger; WatchConnection takes the  *)
(* trigger, tears the session down and connects again; Close ends it all.  *)
(*                                                                         *)
(* Sessions are numbered in the order Connect makes them; the fields of    *)
(* the peer (p.dc, p.pcPub, ..) are those of the last one. A failed peer   *)
(* connection counts as a failure of its data channel. queueReconnect is   *)
(* one step. The pause of three seconds in reconnect is taken to be long   *)
(* enough for the reader, the keepalive and the close callback of a session*)
(* that was torn down to notice it (Settled).                              *)
(***************************************************************************)
EXTENDS Integers, FiniteSets

CONSTANTS
  Workers,        (* the send workers of a session (4 in the code)          *)
  MaxReconnects,  (* maxReconnects                                          *)
  QueueCap,       (* bound: messages in sendQueue (5000 in the code)        *)
  MaxSessions,    (* bound: sessions made                                   *)
  MaxFailures     (* bound: failures of websockets and data channels        *)

Session == 1 .. MaxSessions
Reader == "reader"
KeepAlive == "keepalive"
NoSession == 0

ASSUME TelemostAssumption ==
  /\ IsFiniteSet(Workers) /\ Reader \notin Workers /\ KeepAlive \notin Workers
  /\ MaxReconnects \in Nat /\ QueueCap \in Nat /\ MaxSessions \in Nat /\ MaxFailures \in Nat

VARIABLES
  manager,       (* where the goroutine is that runs the first Connect and  *)
                 (* then WatchConnection                                    *)
  cur,           (* the last session made, NoSession before                 *)
  ws,            (* the websocket of each session                           *)
  dc,            (* the data channel of each session                        *)
  opened,        (* sessions whose data channel opened (dcReady is closed)  *)
  told,          (* sessions whose data channel's OnClose was called        *)
  stopped,       (* sessions whose keepAliveCh and sessionCloseCh are closed*)
  running,       (* the goroutines of the sessions                          *)
  queue,         (* messages in sendQueue                                   *)
  trigger,       (* reconnectCh holds a trigger                             *)
  reconnecting,  (* the flag reconnecting                                   *)
  count,         (* reconnectCount                                          *)
  peerClosed,    (* the flag closed                                         *)
  closer,        (* the call of Close: "none", "leaving", "done" (closeCh is*)
                 (* closed by then)                                         *)
  peerCancelled, (* the context of Connect and WatchConnection is done      *)
  failures,      (* failures so far                                         *)
  attempts,      (* history: triggers taken by WatchConnection              *)
  dropped,       (* history: a trigger for the session that reconnect just  *)
                 (* made was refused                                        *)
  remade         (* history: Connect made a session or a websocket after    *)
                 (* Close had closed those there were                       *)

linkVars == <<cur, ws, dc, opened, told, stopped, running>>
flagVars == <<trigger, reconnecting, count, peerClosed>>
histVars == <<failures, attempts, dropped, remade>>
peerVars == <<manager, linkVars, queue, flagVars, closer, peerCancelled, histVars>>

Dialed(n) == ws[n] # "none" /\ \A m \in Session : m > n => ws[m] = "none"
InCallback == manager \in {"await", "callback"}

(* Goroutines and channels belong to sessions that were made; workers run  *)
(* only once the data channel opened, the websocket's goroutines only once *)
(* it was dialed.                                                          *)
PeerTypeOK ==
  /\ manager \in {"begin", "create", "dial", "await", "failed", "watch", "attempt", "teardown",
                  "info", "callback", "backoff", "returned"}
  /\ cur \in 0 .. MaxSessions
  /\ ws \in [Session -> {"none", "up", "down", "closed"}]
  /\ dc \in [Session -> {"none", "opening", "open", "down", "closed"}]
  /\ \A n \in Session : (n > cur <=> dc[n] = "none") /\ (n > cur => ws[n] = "none")
  /\ opened \subseteq 1 .. cur /\ told \subseteq 1 .. cur /\ stopped \subseteq 1 .. cur
  /\ running \subseteq (1 .. cur) \X (Workers \cup {Reader, KeepAlive})
  /\ \A g \in running : IF g[2] \in Workers THEN g[1] \in opened ELSE ws[g[1]] # "none"
  /\ queue \in 0 .. QueueCap /\ count \in 0 .. MaxReconnects + 1
  /\ closer \in {"none", "leaving", "done"}
  /\ {trigger, reconnecting, peerClosed, peerCancelled, dropped, remade} \subseteq BOOLEAN
  /\ failures \in 0 .. MaxFailures /\ attempts \in Nat

PeerInit ==
  /\ manager = "begin" /\ cur = NoSession
  /\ ws = [n \in Session |-> "none"] /\ dc = [n \in Session |-> "none"]
  /\ opened = {} /\ told = {} /\ stopped = {} /\ running = {}
  /\ queue = 0 /\ trigger = FALSE /\ reconnecting = FALSE /\ count = 0
  /\ peerClosed = FALSE /\ closer = "none" /\ peerCancelled = FALSE
  /\ failures = 0 /\ attempts = 0 /\ dropped = FALSE /\ remade = FALSE

-----------------------------------------------------------------------------
(* queueReconnect, called for session n: refused while the peer is closed  *)
(* or reconnecting; a trigger that is already queued is enough.            *)
QueueReconnect(n) ==
  /\ trigger' = (trigger \/ (~peerClosed /\ ~reconnecting))
  /\ dropped' = (dropped \/ (~peerClosed /\ reconnecting /\ InCallback /\ n = cur))

(* stopSession and the Close calls on the fields of the peer.              *)
CloseLast ==
  /\ stopped' = stopped \cup ({cur} \ {NoSession})
  /\ dc' = [n \in Session |-> IF n = cur THEN "closed" ELSE dc[n]]
  /\ ws' = [n \in Session |-> IF Dialed(n) THEN "closed" ELSE ws[n]]

-----------------------------------------------------------------------------
(* Connect: the peer is not closed any more.                               *)
Begin ==
  /\ manager = "begin"
  /\ peerClosed' = FALSE
  /\ manager' = "create"
  /\ UNCHANGED <<linkVars, queue, trigger, reconnecting, count, closer, peerCancelled, histVars>>

(* setupPeerConnections, resetSession, CreateDataChannel.                  *)
Create ==
  /\ manager = "create" /\ cur < MaxSessions
  /\ cur' = cur + 1
  /\ dc' = [dc EXCEPT ![cur + 1] = "opening"]
  /\ remade' = (remade \/ closer = "done")
  /\ manager' = "dial"
  /\ UNCHANGED <<ws, opened, told, stopped, running, queue, flagVars, closer, peerCancelled,
                 failures, attempts, dropped>>

(* dialWebSocket, startBackgroundGoroutines.                               *)
Dial ==
  /\ manager = "dial"
  /\ ws' = [ws EXCEPT ![cur] = "up"]
  /\ running' = running \cup ({cur} \X {Reader, KeepAlive})
  /\ remade' = (remade \/ closer = "done")
  /\ manager' = "await"
  /\ UNCHANGED <<cur, dc, opened, told, stopped, queue, flagVars, closer, peerCancelled, failures,
                 attempts, dropped>>

(* The select of Connect takes dcReady. The first Connect is followed by   *)
(* WatchConnection, the others return to reconnect.                        *)
ConnectReturns ==
  /\ manager = "await" /\ cur \in opened
  /\ manager' = IF reconnecting THEN "callback" ELSE "watch"
  /\ UNCHANGED <<linkVars, queue, flagVars, closer, peerCancelled, histVars>>

(* GetConnectionInfo or a step of Connect fails, times out or finds the    *)
(* context done; what the step made stays. reconnect returns the error.    *)
PeerConnectFails ==
  /\ manager \in {"info", "create", "dial", "await"}
  /\ manager' = IF reconnecting THEN "backoff" ELSE "failed"
  /\ reconnecting' = FALSE
  /\ UNCHANGED <<linkVars, queue, trigger, count, peerClosed, closer, peerCancelled, histVars>>

-----------------------------------------------------------------------------
(* WatchConnection returns or takes a trigger.                             *)
WatchReturns ==
  /\ manager = "watch" /\ (peerCancelled \/ closer = "done")
  /\ manager' = "returned"
  /\ UNCHANGED <<linkVars, queue, flagVars, closer, peerCancelled, histVars>>
WatchTakes ==
  /\ manager = "watch" /\ trigger
  /\ trigger' = FALSE
  /\ attempts' = attempts + 1
  /\ manager' = "attempt"
  /\ UNCHANGED <<linkVars, queue, reconnecting, count, peerClosed, closer, peerCancelled, failures,
                 dropped, remade>>

(* handleReconnectAttempt: the count starts again if the last attempt is   *)
(* longer ago than the window; beyond the limit the session is over.       *)
Attempt ==
  /\ manager = "attempt"
  /\ \E before \in {0, count} : count' = before + 1
  /\ IF count' > MaxReconnects
     THEN /\ peerClosed' = TRUE /\ peerCancelled' = TRUE
          /\ manager' = "returned"
          /\ UNCHANGED reconnecting
     ELSE /\ reconnecting' = TRUE
          /\ manager' = "teardown"
          /\ UNCHANGED <<peerClosed, peerCancelled>>
  /\ UNCHANGED <<linkVars, queue, trigger, closer, histVars>>

(* Mutant of Teardown: the websocket is left open.                         *)
TeardownKeepsSocket ==
  /\ manager = "teardown"
  /\ stopped' = stopped \cup ({cur} \ {NoSession})
  /\ dc' = [n \in Session |-> IF n = cur THEN "closed" ELSE dc[n]]
  /\ manager' = "info"
  /\ UNCHANGED <<cur, ws, opened, told, running, queue, flagVars, closer, peerCancelled, histVars>>

(* reconnect up to its first callback.                                     *)
Teardown ==
  /\ manager = "teardown"
  /\ CloseLast
  /\ manager' = "info"
  /\ UNCHANGED <<cur, opened, told, running, queue, flagVars, closer, peerCancelled, histVars>>

(* The pause, then GetConnectionInfo succeeds.                             *)
Settled == opened \subseteq told /\ \A n \in 1 .. cur :
  <<n, Reader>> \notin running /\ <<n, KeepAlive>> \notin running
GetConnectionInfo ==
  /\ manager = "info" /\ ~peerCancelled /\ Settled
  /\ manager' = "begin"
  /\ UNCHANGED <<linkVars, queue, flagVars, closer, peerCancelled, histVars>>

(* Mutant of Finish: the trigger queue is not drained.                     *)
FinishKeepsTrigger ==
  /\ manager = "callback"
  /\ reconnecting' = FALSE
  /\ manager' = "watch"
  /\ UNCHANGED <<linkVars, queue, trigger, count, peerClosed, closer, peerCancelled, histVars>>

(* The end of reconnect: the second callback, drainReconnectQueue, then    *)
(* the flag (triggers are refused until then).                             *)
Finish ==
  /\ manager = "callback"
  /\ trigger' = FALSE
  /\ reconnecting' = FALSE
  /\ manager' = "watch"
  /\ UNCHANGED <<linkVars, queue, count, peerClosed, closer, peerCancelled, histVars>>

(* retryReconnect: the end, or reconnect again after the backoff.          *)
BackoffEnds ==
  /\ manager = "backoff"
  /\ IF peerCancelled \/ closer = "done"
     THEN manager' = "returned" /\ UNCHANGED reconnecting
     ELSE manager' = "teardown" /\ reconnecting' = TRUE
  /\ UNCHANGED <<linkVars, queue, trigger, count, peerClosed, closer, peerCancelled, histVars>>

-----------------------------------------------------------------------------
(* Mutant of DataChannelOpens: dcReady is not closed.                      *)
OpensNotReady(n) ==
  /\ dc[n] = "opening" /\ ws[n] # "none"
  /\ dc' = [dc EXCEPT ![n] = "open"]
  /\ running' = running \cup ({n} \X Workers)
  /\ UNCHANGED <<manager, cur, ws, opened, told, stopped, queue, flagVars, closer, peerCancelled,
                 histVars>>

(* The data channel opens, which takes signaling: its workers start.       *)
DataChannelOpens(n) ==
  /\ dc[n] = "opening" /\ ws[n] # "none"
  /\ dc' = [dc EXCEPT ![n] = "open"]
  /\ opened' = opened \cup {n}
  /\ running' = running \cup ({n} \X Workers)
  /\ UNCHANGED <<manager, cur, ws, told, stopped, queue, flagVars, closer, peerCancelled, histVars>>

(* The network: the websocket or the data channel of a session fails.      *)
Fails(n) ==
  /\ failures < MaxFailures
  /\ failures' = failures + 1
  /\ \/ ws[n] = "up" /\ ws' = [ws EXCEPT ![n] = "down"] /\ UNCHANGED dc
     \/ dc[n] = "open" /\ dc' = [dc EXCEPT ![n] = "down"] /\ UNCHANGED ws
  /\ UNCHANGED <<manager, cur, opened, told, stopped, running, queue, flagVars, closer,
                 peerCancelled, attempts, dropped, remade>>

(* Mutant of OnDataChannelClose: the callback does nothing.                *)
IgnoreDataChannelClose(n) ==
  /\ n \in opened \ told /\ dc[n] \in {"down", "closed"}
  /\ told' = told \cup {n}
  /\ UNCHANGED <<manager, cur, ws, dc, opened, stopped, running, queue, flagVars, closer,
                 peerCancelled, histVars>>

(* onDataChannelClose: once for a channel that opened, whoever closed it.  *)
OnDataChannelClose(n) ==
  /\ n \in opened \ told /\ dc[n] \in {"down", "closed"}
  /\ told' = told \cup {n}
  /\ QueueReconnect(n)
  /\ UNCHANGED <<manager, cur, ws, dc, opened, stopped, running, queue, reconnecting, count,
                 peerClosed, closer, peerCancelled, failures, attempts, remade>>

(* handleSignaling: the read fails, or the conference is over (signalEnded;*)
(* the ended callback cancels the context).                                *)
ReaderEnds(n) ==
  /\ <<n, Reader>> \in running /\ ws[n] \in {"down", "closed"}
  /\ running' = running \ {<<n, Reader>>}
  /\ QueueReconnect(n)
  /\ UNCHANGED <<manager, cur, ws, dc, opened, told, stopped, queue, reconnecting, count,
                 peerClosed, closer, peerCancelled, failures, attempts, remade>>
ConferenceEnds(n) ==
  /\ <<n, Reader>> \in running /\ ws[n] = "up"
  /\ running' = running \ {<<n, Reader>>}
  /\ peerClosed' = TRUE /\ peerCancelled' = TRUE
  /\ UNCHANGED <<manager, cur, ws, dc, opened, told, stopped, queue, trigger, reconnecting,
                 count, closer, histVars>>

(* keepAlive: a ping on the peer's websocket fails, or it is told to stop. *)
PingFails(n) ==
  /\ <<n, KeepAlive>> \in running
  /\ \E m \in Session : Dialed(m) /\ ws[m] \in {"down", "closed"}
  /\ running' = running \ {<<n, KeepAlive>>}
  /\ QueueReconnect(cur)
  /\ UNCHANGED <<manager, cur, ws, dc, opened, told, stopped, queue, reconnecting, count,
                 peerClosed, closer, peerCancelled, failures, attempts, remade>>
Told(n) == n \in stopped \/ closer = "done"
KeepAliveStops(n) ==
  /\ <<n, KeepAlive>> \in running /\ Told(n)
  /\ running' = running \ {<<n, KeepAlive>>}
  /\ UNCHANGED <<manager, cur, ws, dc, opened, told, stopped, queue, flagVars, closer,
                 peerCancelled, histVars>>

-----------------------------------------------------------------------------
(* Send: while the data channel is open and Close was not called.          *)
Send ==
  /\ cur # NoSession /\ dc[cur] = "open" /\ closer = "none"
  /\ queue < QueueCap
  /\ queue' = queue + 1
  /\ UNCHANGED <<manager, linkVars, flagVars, closer, peerCancelled, histVars>>

(* processSendQueue: a worker, even of a session that is over, takes a     *)
(* message and sends it on the data channel of the peer.                   *)
WorkerSends(n, w) ==
  /\ <<n, w>> \in running /\ queue > 0 /\ dc[cur] = "open"
  /\ queue' = queue - 1
  /\ UNCHANGED <<manager, linkVars, flagVars, closer, peerCancelled, histVars>>
WorkerFails(n, w) ==
  /\ <<n, w>> \in running /\ queue > 0 /\ dc[cur] # "open"
  /\ queue' = queue - 1
  /\ running' = running \ {<<n, w>>}
  /\ QueueReconnect(cur)
  /\ UNCHANGED <<manager, cur, ws, dc, opened, told, stopped, reconnecting, count, peerClosed,
                 closer, peerCancelled, failures, attempts, remade>>
(* It is told to stop, perhaps while it waits with a message for buffer.   *)
WorkerStops(n, w) ==
  /\ <<n, w>> \in running /\ Told(n)
  /\ running' = running \ {<<n, w>>}
  /\ \E taken \in {0, 1} : queue >= taken /\ queue' = queue - taken
  /\ UNCHANGED <<manager, cur, ws, dc, opened, told, stopped, flagVars, closer, peerCancelled,
                 histVars>>

-----------------------------------------------------------------------------
(* The owner of the peer: its context ends; then it calls Close, unless    *)
(* the first Connect has not returned or failed.                           *)
PeerCancel ==
  /\ ~peerCancelled
  /\ peerCancelled' = TRUE
  /\ UNCHANGED <<manager, linkVars, queue, flagVars, closer, histVars>>

CloseBegins ==
  /\ peerCancelled /\ closer = "none"
  /\ manager \in {"begin", "create", "dial", "await"} => reconnecting
  /\ manager # "failed"
  /\ peerClosed' = TRUE
  /\ closer' = "leaving"
  /\ UNCHANGED <<manager, linkVars, queue, trigger, reconnecting, count, peerCancelled, histVars>>

(* Mutant of CloseAll: stopSession is called, nothing else is closed.      *)
CloseStopsOnly ==
  /\ closer = "leaving"
  /\ closer' = "done"
  /\ stopped' = stopped \cup ({cur} \ {NoSession})
  /\ UNCHANGED <<manager, cur, ws, dc, opened, told, running, queue, flagVars, peerCancelled,
                 histVars>>

(* The rest of Close, once the leave was answered or timed out. The wait   *)
(* for the goroutines at its end gives up after two seconds.               *)
CloseAll ==
  /\ closer = "leaving"
  /\ closer' = "done"
  /\ CloseLast
  /\ UNCHANGED <<manager, cur, opened, told, running, queue, flagVars, peerCancelled, histVars>>

-----------------------------------------------------------------------------
ConnectStep == Begin \/ Create \/ Dial \/ ConnectReturns \/ PeerConnectFails
WatchStep == WatchReturns \/ WatchTakes \/ Attempt \/ Teardown \/ GetConnectionInfo \/ Finish
             \/ BackoffEnds
StopStep(n) == ReaderEnds(n) \/ KeepAliveStops(n) \/ OnDataChannelClose(n)
               \/ \E w \in Workers : WorkerStops(n, w)

PeerNext ==
  \/ ConnectStep \/ WatchStep \/ Send \/ PeerCancel \/ CloseBegins \/ CloseAll
  \/ \E n \in Session :
       \/ DataChannelOpens(n) \/ Fails(n) \/ ConferenceEnds(n) \/ StopStep(n) \/ PingFails(n)
       \/ \E w \in Workers : WorkerSends(n, w) \/ WorkerFails(n, w)

PeerSpec == PeerInit /\ [][PeerNext]_peerVars

(* Goroutines run, what waits times out, callbacks are called; nothing is  *)
(* assumed of the network or of who cancels.                               *)
PeerFairness ==
  /\ WF_peerVars(ConnectStep \/ WatchStep) /\ WF_peerVars(CloseAll)
  /\ \A n \in Session : WF_peerVars(StopStep(n))
PeerFairSpec == PeerSpec /\ PeerFairness

-----------------------------------------------------------------------------
(* Only the last session is in use: the ones before it were stopped and    *)
(* closed, through every failed attempt and with Close in the middle.      *)
SupersededIsDown == \A n \in 1 .. cur - 1 :
  n \in stopped /\ dc[n] = "closed" /\ ws[n] \in {"none", "closed"}

(* No attempt without a failure: the several goroutines that notice one    *)
(* failure, the sessions that reconnect itself closes and its own failed   *)
(* attempts lead to no further reconnect of a session that works. (A peer  *)
(* being closed is another matter: a Connect on its way clears the flag    *)
(* that Close set, and what Close closes then looks like a failure.)       *)
ReconnectsAreCaused == closer = "none" => attempts <= failures

(* A failure of the session is not overlooked: WatchConnection starts a    *)
(* reconnect, unless the peer is closed, or the failure was noticed while  *)
(* reconnect was finishing and its trigger refused.                        *)
Dead == cur # NoSession /\ (ws[cur] = "down" \/ dc[cur] = "down")
FailureIsNoticed ==
  (manager = "watch" /\ Dead) ~> (manager # "watch" \/ peerClosed \/ dropped)

(* "Close closes the peer connection and cleans up resources": after it    *)
(* WatchConnection returns, and no goroutine of a session stays, unless a  *)
(* Connect that Close met on its way made a session or a websocket anew.   *)
CloseEnds == closer = "done" ~> (manager = "returned" /\ (running = {} \/ remade))

=============================================================================
