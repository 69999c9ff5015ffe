------------------------------ MODULE JazzPeer -------------------------------
(***************************************************************************)
(* The SaluteJazz peer (internal/provider/jazz/peer.go) with a data        *)
(* channel: Connect dials a websocket, on which a goroutine negotiates a   *)
(* subscriber and a publisher connection; the data channel opens on the    *)
(* publisher and starts the send worker. Failures put a trigger into       *)
(* reconnectCh, which WatchConnection takes and does nothing about.        *)
(*                                                                         *)
(* The SFU is external: it offers the subscriber connection, answers the   *)
(* publisher's offer, and fails at any time. ICE candidates and server     *)
(* lists change nothing modelled here.                                     *)
(***************************************************************************)
EXTENDS SendQueue, JazzPacket

VARIABLES
  jClosed,   (* closed and sendQueueClosed are set, closeCh is closed       *)
  ws,        (* the websocket                                               *)
  dc,        (* the data channel _reliable                                  *)
  pub,       (* the publisher connection (pcPub)                            *)
  signaler,  (* the goroutine of handleSignaling; between the two offers it *)
             (* sleeps 300 ms ("offering")                                  *)
  trigger    (* reconnectCh holds a trigger                                 *)

jazzVars == <<jClosed, ws, dc, pub, signaler, trigger>>

JazzTypeOK ==
  /\ jClosed \in BOOLEAN /\ trigger \in BOOLEAN
  /\ ws \in {"none", "open", "closed"}
  /\ dc \in {"none", "connecting", "open", "closed"}
  /\ pub \in {"none", "new", "offered", "stable", "closed"}
  /\ signaler \in {"none", "reading", "offering", "gone"}
  /\ dc = "open" => pub \in {"offered", "stable"} /\ worker[1].pc # "none"
  /\ signaler = "none" <=> ws = "none"

JazzInit ==
  /\ jClosed = FALSE /\ trigger = FALSE
  /\ ws = "none" /\ dc = "none" /\ pub = "none"
  /\ signaler = "none"

(* queueReconnect: not once the peer is closed; the channel holds one.     *)
QueueReconnect == trigger' = (trigger \/ ~jClosed)

-----------------------------------------------------------------------------
(* Connect: the two connections and the data channel are created, the      *)
(* websocket is dialled and joined, the reader of the websocket starts.    *)
JazzCreate ==
  /\ connect = "idle"
  /\ connect' = "dial" /\ pub' = "new" /\ dc' = "connecting"
  /\ UNCHANGED <<queue, worker, wire, closer, taken, dropped, jClosed, ws, signaler, trigger>>

JazzDial ==
  /\ connect = "dial"
  /\ connect' = "wait" /\ ws' = "open" /\ signaler' = "reading"
  /\ UNCHANGED <<queue, worker, wire, closer, taken, dropped, jClosed, dc, pub, trigger>>

(* A step of Connect fails, or waitForReady ends after 30 s or by its      *)
(* context. What was created stays: the owner drops the link.              *)
JazzConnectFails ==
  /\ connect \in {"idle", "dial", "wait"}
  /\ connect' = "failed"
  /\ UNCHANGED <<queue, worker, wire, closer, taken, dropped, jazzVars>>

(* OnOpen closed dcReady.                                                  *)
JazzReady ==
  /\ connect = "wait" /\ worker[1].pc # "none"
  /\ connect' = "ok"
  /\ UNCHANGED <<queue, worker, wire, closer, taken, dropped, jClosed, ws, dc, pub, signaler,
                 trigger>>

(* handleSubscriberOffer up to its sleep. Bound: the SFU offers once.       *)
ReadOffer ==
  /\ signaler = "reading" /\ ws = "open" /\ pub = "new"
  /\ signaler' = "offering"
  /\ UNCHANGED <<queueVars, jClosed, ws, dc, pub, trigger>>

(* sendPublisherOffer; what it writes to a closed websocket is lost.       *)
SendPublisherOffer ==
  /\ signaler = "offering"
  /\ signaler' = "reading"
  /\ pub' = IF ws = "open" /\ pub # "closed" THEN "offered" ELSE pub
  /\ UNCHANGED <<queueVars, jClosed, ws, dc, trigger>>

ReadAnswer ==
  /\ signaler = "reading" /\ ws = "open" /\ pub = "offered"
  /\ pub' = "stable"
  /\ UNCHANGED <<queueVars, jClosed, ws, dc, signaler, trigger>>

(* ReadJSON fails.                                                         *)
ReadFails ==
  /\ signaler = "reading" /\ ws = "closed"
  /\ signaler' = "gone"
  /\ QueueReconnect
  /\ UNCHANGED <<queueVars, jClosed, ws, dc, pub>>

(* OnOpen: the worker starts.                                              *)
JazzOpens ==
  /\ dc = "connecting" /\ pub = "stable"
  /\ dc' = "open"
  /\ Start({1})
  /\ UNCHANGED <<connect, queue, wire, closer, taken, dropped, jClosed, ws, pub, signaler,
                 trigger>>

-----------------------------------------------------------------------------
(* The server ends the websocket, or it is silent for 60 s.                *)
JazzSocketFails ==
  /\ ws = "open"
  /\ ws' = "closed"
  /\ UNCHANGED <<queueVars, jClosed, dc, pub, signaler, trigger>>

(* The data channel closes by itself (OnClose).                            *)
JazzChannelFails ==
  /\ dc = "open"
  /\ dc' = "closed"
  /\ QueueReconnect
  /\ LoseWire
  /\ UNCHANGED <<connect, queue, worker, closer, taken, dropped, jClosed, ws, pub, signaler>>

(* A connection is disconnected or failed: its state handler.              *)
JazzConnectionDown ==
  /\ pub \in {"offered", "stable"}
  /\ QueueReconnect
  /\ UNCHANGED <<queueVars, jClosed, ws, dc, pub, signaler>>

(* WatchConnection only takes the triggers, until the peer is closed.      *)
Watch ==
  /\ connect = "ok" /\ trigger /\ ~jClosed
  /\ trigger' = FALSE
  /\ UNCHANGED <<queueVars, jClosed, ws, dc, pub, signaler>>

-----------------------------------------------------------------------------
(* Mutant of JazzCanSend: the length of the queue is not looked at.        *)
CanSendOpen == dc = "open"

JazzCanSend == dc = "open" /\ Len(queue) < HighWater

(* Send up to its select: the channel is open and the peer is not closed.  *)
JazzMaySend == dc = "open" /\ ~jClosed

(* The worker: a message beyond the limit is dropped and only logged. Once *)
(* closeCh is closed the select may take either case.                      *)
JazzTake ==
  /\ Take(1)
  /\ UNCHANGED <<connect, wire, closer, taken, dropped, jazzVars>>

JazzWorkerSends ==
  /\ worker[1].pc = "sending"
  /\ IF Head(worker[1].item) \in Large
     THEN Drop(1, "waiting") /\ UNCHANGED trigger
     ELSE IF dc = "open"
          THEN Put(1, EncodeDataPacket(worker[1].item)) /\ UNCHANGED trigger
          ELSE Drop(1, "gone") /\ QueueReconnect
  /\ UNCHANGED <<connect, queue, closer, taken, jClosed, ws, dc, pub, signaler>>

JazzWorkerStops ==
  /\ worker[1].pc = "waiting" /\ jClosed
  /\ Goes(1, "gone")
  /\ UNCHANGED <<connect, queue, wire, closer, taken, dropped, jazzVars>>

(* handleIncomingMessage: a packet that does not decode is handed on raw.  *)
Incoming(packet) ==
  LET decoded == DecodeDataPacket(packet)
  IN  IF decoded.ok THEN decoded.data ELSE packet

(* Close: it wakes the goroutines, then waits for them 2 s at most; the    *)
(* websocket, whose reader is one of them, is closed only after that.      *)
JazzCloseBegins ==
  /\ closer = "open"
  /\ closer' = "waiting" /\ jClosed' = TRUE
  /\ UNCHANGED <<connect, queue, worker, wire, taken, dropped, ws, dc, pub, signaler, trigger>>

(* Mutant of JazzCloseEnds: the websocket is left open.                    *)
JazzCloseKeepsSocket ==
  /\ closer = "waiting"
  /\ closer' = "done" /\ dc' = "closed" /\ pub' = "closed"
  /\ LoseWire
  /\ UNCHANGED <<connect, queue, worker, taken, dropped, jClosed, ws, signaler, trigger>>

JazzCloseEnds ==
  /\ closer = "waiting"
  /\ closer' = "done" /\ dc' = "closed" /\ pub' = "closed" /\ ws' = "closed"
  /\ LoseWire
  /\ UNCHANGED <<connect, queue, worker, taken, dropped, jClosed, signaler, trigger>>

-----------------------------------------------------------------------------
JazzConnects == JazzCreate \/ JazzDial \/ JazzConnectFails \/ JazzReady
JazzFails == JazzSocketFails \/ JazzChannelFails \/ JazzConnectionDown
JazzWorks == JazzTake \/ JazzWorkerSends \/ JazzWorkerStops
=============================================================================
