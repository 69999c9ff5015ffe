------------------------- MODULE TelemostPeerProofs -------------------------
(***************************************************************************)
(* Proofs about TelemostPeer for every number of workers, reconnects,      *)
(* messages, sessions and failures: its type invariant, that the sessions  *)
(* before the last one are down, and that reconnects have a cause.         *)
(***************************************************************************)
EXTENDS TelemostPeer, TLAPS

USE DEF peerVars, linkVars, flagVars, histVars

(* The attempt beyond the limit is the last.                               *)
LimitInv == count > MaxReconnects => manager = "returned"
(* A session was made when its websocket is dialed.                        *)
MadeInv == manager = "dial" => cur # NoSession
TypeInv == PeerTypeOK /\ LimitInv /\ MadeInv

(* A session is down: stopped, and what was made of it is closed.          *)
Down(n) == n \in stopped /\ dc[n] = "closed" /\ ws[n] \in {"none", "closed"}

(* From the teardown on, until the next session is made, the last session  *)
(* is down as well: Connect supersedes only what reconnect closed.         *)
ClosedFirst == manager \in {"info", "begin", "create"} /\ cur # NoSession => Down(cur)

LEMMA InitType == PeerInit => TypeInv
<1> SUFFICES ASSUME PeerInit PROVE TypeInv
  OBVIOUS
<1>1. MaxSessions \in Nat /\ MaxReconnects \in Nat /\ QueueCap \in Nat /\ MaxFailures \in Nat
  BY TelemostAssumption
<1>2. {trigger, reconnecting, peerClosed, peerCancelled, dropped, remade} \subseteq BOOLEAN
  BY DEF PeerInit
<1>3. opened = {} /\ told = {} /\ stopped = {} /\ running = {}
  BY DEF PeerInit
<1>4. LimitInv /\ MadeInv
  BY <1>1 DEF PeerInit, LimitInv, MadeInv
<1>5. QED
  BY <1>1, <1>2, <1>3, <1>4 DEF PeerInit, TypeInv, PeerTypeOK, Session, NoSession

LEMMA NextType == TypeInv /\ [PeerNext]_peerVars => TypeInv'
<1> SUFFICES ASSUME TypeInv, [PeerNext]_peerVars PROVE TypeInv'
  OBVIOUS
<1> USE TelemostAssumption DEF TypeInv, LimitInv, MadeInv, PeerTypeOK, Session, Reader, KeepAlive, NoSession
<1>1. CASE Begin
  BY <1>1 DEF Begin
<1>2. CASE Create
  BY <1>2 DEF Create
<1>3. CASE Dial
  BY <1>3 DEF Dial
<1>4. CASE ConnectReturns
  BY <1>4 DEF ConnectReturns
<1>5. CASE PeerConnectFails
  BY <1>5 DEF PeerConnectFails
<1>6. CASE WatchReturns
  BY <1>6 DEF WatchReturns
<1>7. CASE WatchTakes
  <2>1. attempts \in Nat /\ attempts' \in Nat
    BY <1>7 DEF WatchTakes
  <2>2. {trigger', reconnecting', peerClosed', peerCancelled', dropped', remade'} \subseteq BOOLEAN
    BY <1>7 DEF WatchTakes
  <2>3. manager' = "attempt" /\ count <= MaxReconnects
    BY <1>7 DEF WatchTakes
  <2>4. QED
    BY <1>7, <2>1, <2>2, <2>3 DEF WatchTakes
<1>8. CASE Attempt
  <2>1. count \in 0 .. MaxReconnects /\ count' \in 1 .. MaxReconnects + 1
    BY <1>8 DEF Attempt
  <2>2. {trigger', reconnecting', peerClosed', peerCancelled', dropped', remade'} \subseteq BOOLEAN
    BY <1>8 DEF Attempt
  <2>3. manager' \in {"returned", "teardown"} /\ (count' > MaxReconnects => manager' = "returned")
    BY <1>8 DEF Attempt
  <2>4. QED
    BY <1>8, <2>1, <2>2, <2>3 DEF Attempt
<1>9. CASE Teardown
  BY <1>9 DEF Teardown, CloseLast, Dialed
<1>10. CASE GetConnectionInfo
  BY <1>10 DEF GetConnectionInfo
<1>11. CASE Finish
  BY <1>11 DEF Finish
<1>12. CASE BackoffEnds
  BY <1>12 DEF BackoffEnds
<1>13. CASE Send
  BY <1>13 DEF Send
<1>14. CASE PeerCancel
  BY <1>14 DEF PeerCancel
<1>15. CASE CloseBegins
  BY <1>15 DEF CloseBegins
<1>16. CASE CloseAll
  BY <1>16 DEF CloseAll, CloseLast, Dialed
<1>17. ASSUME NEW n \in Session, DataChannelOpens(n) PROVE TypeInv'
  BY <1>17 DEF DataChannelOpens
<1>18. ASSUME NEW n \in Session, Fails(n) PROVE TypeInv'
  BY <1>18 DEF Fails
<1>19. ASSUME NEW n \in Session, ConferenceEnds(n) PROVE TypeInv'
  BY <1>19 DEF ConferenceEnds
<1>20. ASSUME NEW n \in Session, ReaderEnds(n) PROVE TypeInv'
  BY <1>20 DEF ReaderEnds, QueueReconnect
<1>21. ASSUME NEW n \in Session, KeepAliveStops(n) PROVE TypeInv'
  BY <1>21 DEF KeepAliveStops
<1>22. ASSUME NEW n \in Session, OnDataChannelClose(n) PROVE TypeInv'
  BY <1>22 DEF OnDataChannelClose, QueueReconnect
<1>23. ASSUME NEW n \in Session, PingFails(n) PROVE TypeInv'
  BY <1>23 DEF PingFails, QueueReconnect
<1>24. ASSUME NEW n \in Session, NEW w \in Workers, WorkerStops(n, w) PROVE TypeInv'
  BY <1>24 DEF WorkerStops
<1>25. ASSUME NEW n \in Session, NEW w \in Workers, WorkerSends(n, w) PROVE TypeInv'
  BY <1>25 DEF WorkerSends
<1>26. ASSUME NEW n \in Session, NEW w \in Workers, WorkerFails(n, w) PROVE TypeInv'
  BY <1>26 DEF WorkerFails, QueueReconnect
<1>27. CASE UNCHANGED peerVars
  BY <1>27
<1>28. QED
  BY <1>1, <1>2, <1>3, <1>4, <1>5, <1>6, <1>7, <1>8, <1>9, <1>10, <1>11, <1>12, <1>13, <1>14, <1>15, <1>16, <1>17, <1>18, <1>19, <1>20, <1>21, <1>22, <1>23, <1>24, <1>25, <1>26, <1>27
  DEF PeerNext, ConnectStep, WatchStep, StopStep

(* Sessions, goroutines, the queue, attempts and failures stay within their*)
(* bounds, and goroutines belong to sessions that were made.               *)
THEOREM TelemostTypeCorrect == PeerSpec => []PeerTypeOK
<1>1. TypeInv => PeerTypeOK
  BY DEF TypeInv
<1> QED
  BY InitType, NextType, <1>1, PTL DEF PeerSpec

-----------------------------------------------------------------------------
DownInv == TypeInv /\ SupersededIsDown /\ ClosedFirst

(* What is down stays down, and only the last session is ever touched.     *)
LEMMA NextDown == DownInv /\ [PeerNext]_peerVars => DownInv'
<1> SUFFICES ASSUME DownInv, [PeerNext]_peerVars PROVE (SupersededIsDown /\ ClosedFirst)'
  BY NextType DEF DownInv
<1>0. TypeInv /\ SupersededIsDown /\ ClosedFirst
  BY DEF DownInv
<1> USE TelemostAssumption, <1>0 DEF Down, ClosedFirst, SupersededIsDown, TypeInv, PeerTypeOK, MadeInv, Session, NoSession
<1>1. CASE Begin
  BY <1>1 DEF Begin
<1>2. CASE Create
  BY <1>2 DEF Create
<1>3. CASE Dial
  BY <1>3 DEF Dial
<1>4. CASE ConnectReturns
  BY <1>4 DEF ConnectReturns
<1>5. CASE PeerConnectFails
  BY <1>5 DEF PeerConnectFails
<1>6. CASE WatchReturns
  BY <1>6 DEF WatchReturns
<1>7. CASE WatchTakes
  BY <1>7 DEF WatchTakes
<1>8. CASE Attempt
  BY <1>8 DEF Attempt
<1>9. CASE Teardown
  BY <1>9 DEF Teardown, CloseLast, Dialed
<1>10. CASE GetConnectionInfo
  BY <1>10 DEF GetConnectionInfo
<1>11. CASE Finish
  BY <1>11 DEF Finish
<1>12. CASE BackoffEnds
  BY <1>12 DEF BackoffEnds
<1>13. CASE Send
  BY <1>13 DEF Send
<1>14. CASE PeerCancel
  BY <1>14 DEF PeerCancel
<1>15. CASE CloseBegins
  BY <1>15 DEF CloseBegins
<1>16. CASE CloseAll
  BY <1>16 DEF CloseAll, CloseLast, Dialed
<1>17. ASSUME NEW n \in Session, DataChannelOpens(n) PROVE (SupersededIsDown /\ ClosedFirst)'
  BY <1>17 DEF DataChannelOpens
<1>18. ASSUME NEW n \in Session, Fails(n) PROVE (SupersededIsDown /\ ClosedFirst)'
  BY <1>18 DEF Fails
<1>19. ASSUME NEW n \in Session, ConferenceEnds(n) PROVE (SupersededIsDown /\ ClosedFirst)'
  BY <1>19 DEF ConferenceEnds
<1>20. ASSUME NEW n \in Session, ReaderEnds(n) PROVE (SupersededIsDown /\ ClosedFirst)'
  BY <1>20 DEF ReaderEnds
<1>21. ASSUME NEW n \in Session, KeepAliveStops(n) PROVE (SupersededIsDown /\ ClosedFirst)'
  BY <1>21 DEF KeepAliveStops
<1>22. ASSUME NEW n \in Session, OnDataChannelClose(n) PROVE (SupersededIsDown /\ ClosedFirst)'
  BY <1>22 DEF OnDataChannelClose
<1>23. ASSUME NEW n \in Session, PingFails(n) PROVE (SupersededIsDown /\ ClosedFirst)'
  BY <1>23 DEF PingFails
<1>24. ASSUME NEW n \in Session, NEW w \in Workers, WorkerStops(n, w) PROVE (SupersededIsDown /\ ClosedFirst)'
  BY <1>24 DEF WorkerStops
<1>25. ASSUME NEW n \in Session, NEW w \in Workers, WorkerSends(n, w) PROVE (SupersededIsDown /\ ClosedFirst)'
  BY <1>25 DEF WorkerSends
<1>26. ASSUME NEW n \in Session, NEW w \in Workers, WorkerFails(n, w) PROVE (SupersededIsDown /\ ClosedFirst)'
  BY <1>26 DEF WorkerFails
<1>27. CASE UNCHANGED peerVars
  BY <1>27
<1>28. QED
  BY <1>1, <1>2, <1>3, <1>4, <1>5, <1>6, <1>7, <1>8, <1>9, <1>10, <1>11, <1>12, <1>13, <1>14, <1>15, <1>16, <1>17, <1>18, <1>19, <1>20, <1>21, <1>22, <1>23, <1>24, <1>25, <1>26, <1>27
  DEF PeerNext, ConnectStep, WatchStep, StopStep

(* Only the last session is in use: through every failed attempt, and with *)
(* Close in the middle, Connect supersedes only a session that is down.    *)
THEOREM TelemostSuperseded == PeerSpec => []SupersededIsDown
<1>1. PeerInit => DownInv
  BY InitType, TelemostAssumption DEF PeerInit, DownInv, SupersededIsDown, ClosedFirst, NoSession
<1>2. DownInv => SupersededIsDown
  BY DEF DownInv
<1> QED
  BY <1>1, <1>2, NextDown, PTL DEF PeerSpec

-----------------------------------------------------------------------------
(* The first Connect, during which a trigger may be queued as well.        *)
First == manager \in {"begin", "create", "dial", "await"} /\ ~reconnecting
Listening == manager = "watch" \/ First

(* The flag reconnecting is set from handleReconnectAttempt to the end of  *)
(* reconnect; what Connect waits for is a data channel that opened.        *)
PhaseInv ==
  /\ manager \in {"teardown", "info", "callback"} => reconnecting
  /\ manager \in {"watch", "attempt", "backoff", "failed", "returned"} => ~reconnecting
  /\ First => cur <= 1 /\ (manager \in {"begin", "create"} => cur = NoSession)
  /\ manager \in {"dial", "await"} => cur # NoSession
  /\ manager \in {"callback", "watch"} => cur \in opened
  /\ \A n \in opened : dc[n] \in {"open", "down", "closed"}

(* Nothing is left of a session that would notice that it was closed.      *)
Quiet(n) == /\ n \in opened => n \in told
            /\ <<n, Reader>> \notin running /\ <<n, KeepAlive>> \notin running

(* From its creation on, the last session goes down by a failure only, and *)
(* that failure is one no attempt has answered yet.                        *)
UpToFailure == manager \in {"dial", "await", "callback", "watch"} =>
  /\ \A n \in 1 .. cur - 1 : Quiet(n)
  /\ dc[cur] # "closed" /\ ws[cur] # "closed"
  /\ dc[cur] = "down" \/ ws[cur] = "down" => attempts < failures

CausedInv == closer = "none" =>
  /\ manager \in {"begin", "create"} => \A n \in 1 .. cur : Quiet(n)
  /\ UpToFailure
  /\ attempts <= failures
  /\ trigger /\ Listening => attempts < failures


LEMMA NextPhase == TypeInv /\ PhaseInv /\ [PeerNext]_peerVars => PhaseInv'
<1> SUFFICES ASSUME TypeInv, PhaseInv, [PeerNext]_peerVars PROVE PhaseInv'
  OBVIOUS
<1> USE TelemostAssumption DEF PhaseInv, First, TypeInv, MadeInv, PeerTypeOK, Session, NoSession
<1>1. ASSUME Begin PROVE PhaseInv'
  BY <1>1 DEF Begin
<1>2. ASSUME Create PROVE PhaseInv'
  BY <1>2 DEF Create
<1>3. ASSUME Dial PROVE PhaseInv'
  BY <1>3 DEF Dial
<1>4. ASSUME ConnectReturns PROVE PhaseInv'
  BY <1>4 DEF ConnectReturns
<1>5. ASSUME PeerConnectFails PROVE PhaseInv'
  BY <1>5 DEF PeerConnectFails
<1>6. ASSUME WatchReturns PROVE PhaseInv'
  BY <1>6 DEF WatchReturns
<1>7. ASSUME WatchTakes PROVE PhaseInv'
  BY <1>7 DEF WatchTakes
<1>8. ASSUME Attempt PROVE PhaseInv'
  BY <1>8 DEF Attempt
<1>9. ASSUME Teardown PROVE PhaseInv'
  BY <1>9 DEF Teardown, CloseLast
<1>10. ASSUME GetConnectionInfo PROVE PhaseInv'
  BY <1>10 DEF GetConnectionInfo
<1>11. ASSUME Finish PROVE PhaseInv'
  BY <1>11 DEF Finish
<1>12. ASSUME BackoffEnds PROVE PhaseInv'
  BY <1>12 DEF BackoffEnds
<1>13. ASSUME Send PROVE PhaseInv'
  BY <1>13 DEF Send
<1>14. ASSUME PeerCancel PROVE PhaseInv'
  BY <1>14 DEF PeerCancel
<1>15. ASSUME CloseBegins PROVE PhaseInv'
  BY <1>15 DEF CloseBegins
<1>16. ASSUME CloseAll PROVE PhaseInv'
  BY <1>16 DEF CloseAll, CloseLast
<1>17. ASSUME NEW n \in Session, DataChannelOpens(n) PROVE PhaseInv'
  BY <1>17 DEF DataChannelOpens
<1>18. ASSUME NEW n \in Session, Fails(n) PROVE PhaseInv'
  BY <1>18 DEF Fails
<1>19. ASSUME NEW n \in Session, ConferenceEnds(n) PROVE PhaseInv'
  BY <1>19 DEF ConferenceEnds
<1>20. ASSUME NEW n \in Session, ReaderEnds(n) PROVE PhaseInv'
  BY <1>20 DEF ReaderEnds, QueueReconnect
<1>21. ASSUME NEW n \in Session, KeepAliveStops(n) PROVE PhaseInv'
  BY <1>21 DEF KeepAliveStops
<1>22. ASSUME NEW n \in Session, OnDataChannelClose(n) PROVE PhaseInv'
  BY <1>22 DEF OnDataChannelClose, QueueReconnect
<1>23. ASSUME NEW n \in Session, PingFails(n) PROVE PhaseInv'
  BY <1>23 DEF PingFails, QueueReconnect
<1>24. ASSUME NEW n \in Session, NEW w \in Workers, WorkerStops(n, w) PROVE PhaseInv'
  BY <1>24 DEF WorkerStops
<1>25. ASSUME NEW n \in Session, NEW w \in Workers, WorkerSends(n, w) PROVE PhaseInv'
  BY <1>25 DEF WorkerSends
<1>26. ASSUME NEW n \in Session, NEW w \in Workers, WorkerFails(n, w) PROVE PhaseInv'
  BY <1>26 DEF WorkerFails, QueueReconnect
<1>27. ASSUME UNCHANGED peerVars PROVE PhaseInv'
  BY <1>27
<1> QED
  BY <1>1, <1>2, <1>3, <1>4, <1>5, <1>6, <1>7, <1>8, <1>9, <1>10, <1>11, <1>12, <1>13, <1>14, <1>15, <1>16, <1>17, <1>18, <1>19, <1>20, <1>21, <1>22, <1>23, <1>24, <1>25, <1>26, <1>27
  DEF PeerNext, ConnectStep, WatchStep, StopStep

(* Close is called once, and for good.                                     *)
LEMMA NextCloser == closer # "none" /\ [PeerNext]_peerVars => closer' # "none"
BY DEF PeerNext, ConnectStep, WatchStep, StopStep, Begin, Create, Dial, ConnectReturns, PeerConnectFails,
   WatchReturns, WatchTakes, Attempt, Teardown, GetConnectionInfo, Finish, BackoffEnds, Send,
   PeerCancel, CloseBegins, CloseAll, DataChannelOpens, Fails, ConferenceEnds, ReaderEnds,
   KeepAliveStops, OnDataChannelClose, PingFails, WorkerStops, WorkerSends, WorkerFails

(* Whoever may queue a trigger while one is accepted belongs to the last   *)
(* session, which went down by a failure.                                  *)
LEMMA NoticedFailure ==
  ASSUME TypeInv, PhaseInv, CausedInv, closer = "none", Listening, NEW n \in Session,
         \/ n \in opened \ told /\ dc[n] \in {"down", "closed"}
         \/ <<n, Reader>> \in running /\ ws[n] \in {"down", "closed"}
         \/ /\ <<n, KeepAlive>> \in running
            /\ \E m \in Session : Dialed(m) /\ ws[m] \in {"down", "closed"}
  PROVE  attempts < failures
<1>1. n \in 1 .. cur /\ cur \in Nat
  BY DEF TypeInv, PeerTypeOK, Session
<1>2. manager \in {"dial", "await", "callback", "watch"}
  BY <1>1 DEF Listening, First, PhaseInv, NoSession
<1>3. n = cur /\ UpToFailure
  BY <1>1, <1>2 DEF CausedInv, UpToFailure, Quiet
<1>4. ASSUME NEW m \in Session, Dialed(m), <<n, KeepAlive>> \in running PROVE m = cur
  <2>1. KeepAlive \notin Workers
    BY TelemostAssumption
  <2>2. ws[cur] # "none"
    BY <1>3, <1>4, <2>1 DEF TypeInv, PeerTypeOK
  <2>3. m \in Nat /\ ~(cur > m) /\ ~(m > cur)
    BY <1>1, <1>3, <1>4, <2>2 DEF Dialed, TypeInv, PeerTypeOK, Session
  <2> QED
    BY <1>1, <2>3
<1> QED
  BY <1>2, <1>3, <1>4 DEF UpToFailure

LEMMA NextCaused == DownInv /\ PhaseInv /\ CausedInv /\ [PeerNext]_peerVars => CausedInv'
<1> SUFFICES ASSUME DownInv, PhaseInv, CausedInv, [PeerNext]_peerVars, closer' = "none"
             PROVE  /\ manager' \in {"begin", "create"} => \A n \in 1 .. cur' : Quiet(n)'
                    /\ UpToFailure'
                    /\ attempts' <= failures'
                    /\ trigger' /\ Listening' => attempts' < failures'
  BY Zenon DEF CausedInv
<1> DEFINE Goal == /\ manager' \in {"begin", "create"} => \A n \in 1 .. cur' : Quiet(n)'
                   /\ UpToFailure'
                   /\ attempts' <= failures'
                   /\ trigger' /\ Listening' => attempts' < failures'
<1> SUFFICES Goal
  OBVIOUS
<1>a. closer = "none"
  BY NextCloser
<1>b. DownInv /\ TypeInv
  BY DEF DownInv
<1>c. PhaseInv /\ CausedInv
  OBVIOUS
<1> USE TelemostAssumption, <1>a, <1>b DEF Quiet, UpToFailure, CausedInv, PhaseInv, First, Listening, TypeInv, MadeInv, PeerTypeOK, Session, Reader, KeepAlive, NoSession
<1>1. ASSUME Begin PROVE Goal
  BY <1>1 DEF Begin
<1>2. ASSUME Create PROVE Goal
  BY <1>2 DEF Create
<1>3. ASSUME Dial PROVE Goal
  BY <1>3 DEF Dial
<1>4. ASSUME ConnectReturns PROVE Goal
  BY <1>4 DEF ConnectReturns
<1>5. ASSUME PeerConnectFails PROVE Goal
  BY <1>5 DEF PeerConnectFails
<1>6. ASSUME WatchReturns PROVE Goal
  BY <1>6 DEF WatchReturns
<1>7. ASSUME WatchTakes PROVE Goal
  BY <1>7 DEF WatchTakes
<1>8. ASSUME Attempt PROVE Goal
  BY <1>8 DEF Attempt
<1>9. ASSUME Teardown PROVE Goal
  BY <1>9 DEF Teardown, CloseLast
<1>10. ASSUME GetConnectionInfo PROVE Goal
  BY <1>10 DEF GetConnectionInfo, Settled
<1>11. ASSUME Finish PROVE Goal
  BY <1>11 DEF Finish
<1>12. ASSUME BackoffEnds PROVE Goal
  BY <1>12 DEF BackoffEnds
<1>13. ASSUME Send PROVE Goal
  BY <1>13 DEF Send
<1>14. ASSUME PeerCancel PROVE Goal
  BY <1>14 DEF PeerCancel
<1>15. ASSUME CloseBegins PROVE Goal
  BY <1>15 DEF CloseBegins
<1>16. ASSUME CloseAll PROVE Goal
  BY <1>16 DEF CloseAll, CloseLast
<1>17. ASSUME NEW n \in Session, DataChannelOpens(n) PROVE Goal
  BY <1>17 DEF DataChannelOpens, DownInv, SupersededIsDown, ClosedFirst, Down
<1>18. ASSUME NEW n \in Session, Fails(n) PROVE Goal
  BY <1>18 DEF Fails
<1>19. ASSUME NEW n \in Session, ConferenceEnds(n) PROVE Goal
  BY <1>19 DEF ConferenceEnds
<1>20. ASSUME NEW n \in Session, ReaderEnds(n) PROVE Goal
  <2>1. Listening => attempts < failures
    BY <1>20, NoticedFailure DEF ReaderEnds
  <2> QED
    BY <1>20, <2>1 DEF ReaderEnds, QueueReconnect
<1>21. ASSUME NEW n \in Session, KeepAliveStops(n) PROVE Goal
  BY <1>21 DEF KeepAliveStops
<1>22. ASSUME NEW n \in Session, OnDataChannelClose(n) PROVE Goal
  <2>1. Listening => attempts < failures
    BY <1>22, NoticedFailure DEF OnDataChannelClose
  <2> QED
    BY <1>22, <2>1 DEF OnDataChannelClose, QueueReconnect
<1>23. ASSUME NEW n \in Session, PingFails(n) PROVE Goal
  <2>1. Listening => attempts < failures
    BY <1>23, NoticedFailure DEF PingFails
  <2> QED
    BY <1>23, <2>1 DEF PingFails, QueueReconnect
<1>24. ASSUME NEW n \in Session, NEW w \in Workers, WorkerStops(n, w) PROVE Goal
  BY <1>24 DEF WorkerStops
<1>25. ASSUME NEW n \in Session, NEW w \in Workers, WorkerSends(n, w) PROVE Goal
  BY <1>25 DEF WorkerSends
<1>26. ASSUME NEW n \in Session, NEW w \in Workers, WorkerFails(n, w) PROVE Goal
  BY <1>26 DEF WorkerFails, QueueReconnect
<1>27. ASSUME UNCHANGED peerVars PROVE Goal
  BY <1>27
<1> QED
  BY <1>1, <1>2, <1>3, <1>4, <1>5, <1>6, <1>7, <1>8, <1>9, <1>10, <1>11, <1>12, <1>13, <1>14, <1>15, <1>16, <1>17, <1>18, <1>19, <1>20, <1>21, <1>22, <1>23, <1>24, <1>25, <1>26, <1>27
  DEF PeerNext, ConnectStep, WatchStep, StopStep

LEMMA InitCaused == PeerInit => PhaseInv /\ CausedInv
BY TelemostAssumption
DEF PeerInit, PhaseInv, First, CausedInv, UpToFailure, Listening, Quiet, NoSession

(* No attempt without a failure, until Close is called: what notices a     *)
(* failure first queues the trigger, what notices it later belongs to a    *)
(* session that reconnect already replaced, and the notices of the sessions*)
(* reconnect closes itself are over or refused (queueReconnect, the pause  *)
(* and drainReconnectQueue).                                               *)
THEOREM TelemostReconnectsCaused == PeerSpec => []ReconnectsAreCaused
<1> DEFINE Inv == DownInv /\ PhaseInv /\ CausedInv
<1>1. PeerInit => Inv
  BY InitType, InitCaused, TelemostAssumption DEF PeerInit, DownInv, SupersededIsDown, ClosedFirst, NoSession
<1>2. Inv /\ [PeerNext]_peerVars => Inv'
  <2>1. DownInv => TypeInv
    BY DEF DownInv
  <2> QED
    BY <2>1, NextDown, NextPhase, NextCaused
<1>3. Inv => ReconnectsAreCaused
  BY DEF CausedInv, ReconnectsAreCaused
<1> HIDE DEF Inv
<1> QED
  BY <1>1, <1>2, <1>3, PTL DEF PeerSpec

=============================================================================
