------------------------------ MODULE DataPath -------------------------------
(***************************************************************************)
(* The path of a session's bytes over the datachannel transport: muxconn,  *)
(* the peer of the carrier with its queue and worker, and the muxconn of   *)
(* the other side. The layers between them (direct link, datachannel       *)
(* transport, carrier adapter) pass every call on unchanged.               *)
(*                                                                         *)
(* The owner (client.go, server.go) connects the link, runs a session over *)
(* it, and at its end closes the session and then the link. A link that    *)
(* fails to connect it drops without closing it.                           *)
(***************************************************************************)
EXTENDS MuxConn, JazzPeer, WbstreamPeer, TelemostSend

CONSTANT Kinds  (* the carriers to explore                                  *)

ASSUME PathAssumption == Kinds \subseteq {"jazz", "wbstream", "telemost"}

VARIABLE kind  (* the carrier                                               *)

peerVars == <<jazzVars, wbVars, tdc>>
pathVars == <<kind, muxVars, queueVars, peerVars>>

PathTypeOK ==
  /\ kind \in Kinds
  /\ MuxTypeOK /\ JazzTypeOK /\ WbTypeOK /\ TeleTypeOK
  /\ connect \in {"idle", "dial", "tracks", "wait", "ok", "failed"}
  /\ Len(queue) <= Capacity /\ \A i \in DOMAIN queue : queue[i] \in Sealed
  /\ \A w \in Worker : /\ worker[w].pc \in {"none", "waiting", "sending", "gone"}
                        /\ worker[w].pc = "sending" <=> worker[w].item # NoItem
  /\ closer \in {"open", "waiting", "leaving", "left", "done"}
  /\ dropped \subseteq Sealed

PathInit ==
  /\ kind \in Kinds
  /\ MuxInit /\ QueueInit /\ JazzInit /\ WbInit /\ TeleInit

-----------------------------------------------------------------------------
(* The writer of the near session, while the link is the owner's.          *)
CanSend ==
  CASE kind = "jazz" -> JazzCanSend [] kind = "wbstream" -> WbCanSend [] OTHER -> TeleCanSend
MaySend ==
  CASE kind = "jazz" -> JazzMaySend [] kind = "wbstream" -> WbMaySend [] OTHER -> TeleMaySend

WriterPolls ==
  /\ connect = "ok"
  /\ WriteBegins \/ CheckClosed \/ CheckCanSend(CanSend)
  /\ UNCHANGED <<kind, queueVars, peerVars>>

(* Send looks at the state of the peer before it turns to the queue.       *)
SendChecks ==
  /\ writer.pc = "send"
  /\ IF MaySend THEN WriteGoesOn("enqueue") ELSE WriteFails("down")
  /\ UNCHANGED <<kind, queueVars, peerVars>>

(* The select of Send: jazz and telemost wait 50 ms for room, wbstream does*)
(* not wait, and a send on a closed queue panics even there.               *)
SendEnqueues ==
  /\ writer.pc = "enqueue" /\ Room /\ ~queueClosed
  /\ Enqueue(Seal(writer.msg))
  /\ WriteGoesOn("idle")
  /\ UNCHANGED <<kind, peerVars>>

SendFindsNoRoom ==
  /\ writer.pc = "enqueue" /\ ~Room /\ ~queueClosed
  /\ WriteFails(IF kind = "wbstream" THEN "full" ELSE "timeout")
  /\ UNCHANGED <<kind, queueVars, peerVars>>

SendPanics ==
  /\ writer.pc = "enqueue" /\ queueClosed
  /\ panicked' = TRUE
  /\ UNCHANGED <<kind, muxVars, queueVars, jazzVars, wClosed, room, queueClosed, ended, tdc>>

-----------------------------------------------------------------------------
(* The other side: the carrier's callback, through the transport and onData*)
(* to Push, and the reader of its session.                                 *)
Receive ==
  /\ wire # <<>>
  /\ wire' = Tail(wire)
  /\ Push(IF kind = "jazz" THEN Incoming(Head(wire)) ELSE Head(wire))
  /\ UNCHANGED <<kind, connect, queue, worker, closer, taken, dropped, peerVars>>

ReaderReads == Read /\ UNCHANGED <<kind, queueVars, peerVars>>

(* Either side closes its conn: the session ends, or is replaced. The near *)
(* owner has one once the link is connected.                               *)
NearCloses ==
  /\ connect = "ok"
  /\ CloseConn("near")
  /\ UNCHANGED <<kind, queueVars, peerVars>>

FarCloses ==
  /\ CloseConn("far")
  /\ UNCHANGED <<kind, queueVars, peerVars>>

(* shutdown: the session is closed before the link.                        *)
Closes ==
  /\ "near" \in connClosed
  /\ \/ /\ kind = "jazz"
        /\ JazzCloseBegins \/ JazzCloseEnds
        /\ UNCHANGED <<wbVars, tdc>>
     \/ /\ kind = "wbstream"
        /\ WbCloses
        /\ UNCHANGED <<jazzVars, tdc>>
     \/ /\ kind = "telemost"
        /\ TeleCloses
        /\ UNCHANGED <<jazzVars, wbVars>>
  /\ UNCHANGED <<kind, muxVars>>

-----------------------------------------------------------------------------
Carrier ==
  \/ /\ kind = "jazz"
     /\ JazzConnects \/ JazzFails
     /\ UNCHANGED <<kind, muxVars, wbVars, tdc>>
  \/ /\ kind = "wbstream"
     /\ WbConnects \/ RoomLost
     /\ UNCHANGED <<kind, muxVars, jazzVars, tdc>>
  \/ /\ kind = "telemost"
     /\ TeleConnects \/ TeleOpens \/ TeleFails
     /\ UNCHANGED <<kind, muxVars, jazzVars, wbVars>>

WorkerRuns ==
  \/ kind = "jazz" /\ JazzWorks /\ UNCHANGED <<kind, muxVars, wbVars, tdc>>
  \/ kind = "wbstream" /\ WbWorks /\ UNCHANGED <<kind, muxVars, jazzVars, tdc>>
  \/ kind = "telemost" /\ TeleWorks /\ UNCHANGED <<kind, muxVars, jazzVars, wbVars>>

(* The steps of handleSignaling that nothing outside has to cause.         *)
SignalerRuns ==
  /\ kind = "jazz" /\ (SendPublisherOffer \/ ReadFails)
  /\ UNCHANGED <<kind, muxVars, wbVars, tdc>>

Negotiates ==
  /\ kind = "jazz" /\ (ReadOffer \/ ReadAnswer \/ JazzOpens \/ Watch)
  /\ UNCHANGED <<kind, muxVars, wbVars, tdc>>

(* What telemost's reconnect goes on to do once a session has failed or was*)
(* stopped: it closes the channel and calls back, upon which the owner     *)
(* closes its conn. At the limit of reconnects the owner is told to end.   *)
Reconnects ==
  /\ kind = "telemost"
  /\ \/ tdc = "closed" /\ NearCloses
     \/ tdc = "stopped" /\ TeleChannelFails /\ UNCHANGED <<kind, muxVars, jazzVars, wbVars>>

WriterRuns == WriterPolls \/ SendChecks \/ SendEnqueues \/ SendFindsNoRoom \/ SendPanics

PathNext ==
  /\ ~panicked
  /\ \/ Carrier \/ Negotiates \/ SignalerRuns \/ WorkerRuns \/ WriterRuns
     \/ Receive \/ ReaderReads \/ NearCloses \/ FarCloses \/ Closes

-----------------------------------------------------------------------------
(* "Ordered: true" (transport/datachannel/transport.go, 98): whatever      *)
(* slices Read returns and whatever fails, the far session reads messages  *)
(* Send took, each whole, once and in the order of their Writes, and only  *)
(* one that a worker dropped is missing before another that arrived. It    *)
(* does not say that nothing is missing: that is EachSendArrives. On the   *)
(* data channel a worker drops for size alone while the channel is open.   *)
(* With more than one worker, as at telemost, the order is not kept.       *)
Kept ==
  FlattenSeq([i \in DOMAIN taken |->
                IF taken[i] \in dropped THEN <<>> ELSE Text(Head(taken[i]))])
CarrierUp ==
  CASE kind = "jazz" -> dc = "open" [] kind = "wbstream" -> room = "up" [] OTHER -> tdc = "open"
UnderWay ==
  queue # <<>> \/ wire # <<>> \/ \E w \in Worker : worker[w].pc = "sending"
ReadInOrder ==
  /\ IsPrefix(received, Kept)
  /\ CarrierUp /\ "far" \notin connClosed /\ ~UnderWay => received \o buf = Kept
  /\ (kind # "wbstream" /\ CarrierUp => \A m \in dropped : Head(m) \in Large)

(* "each Send produces exactly one OnData on the peer" (muxconn/conn.go, 6)*)
(* and "Reliable: true" (transport/datachannel/transport.go, 97): while the*)
(* carrier is up, what the far session was given is all that Send took,    *)
(* once nothing is under way any more.                                     *)
EachSendArrives ==
  CarrierUp /\ "far" \notin connClosed /\ ~UnderWay =>
    received \o buf = FlattenSeq([i \in DOMAIN taken |-> Text(Head(taken[i]))])

(* The margin between 4000 and 5000 is what makes the Send of jazz and     *)
(* telemost never wait its 50 ms and fail a session that CanSend held back;*)
(* wbstream, which has no such check, fails its session when the queue is  *)
(* full. And only a Write under way when the owner closes can panic.       *)
ErrorsAreCaused ==
  /\ failure # "timeout"
  /\ failure = "closed" => "near" \in connClosed
  /\ failure = "full" => kind = "wbstream"
  /\ failure = "down" => \/ "near" \in connClosed
                         \/ kind # "wbstream" /\ ~CarrierUp
  /\ panicked => "near" \in connClosed

(* A Write does not wait for ever on a link that works: the worker makes   *)
(* room, the owner closes the conn, telemost's reconnect calls back. But   *)
(* from a data channel that is down jazz never recovers (WatchConnection   *)
(* does not reconnect).                                                    *)
WriteReturns == Writing ~> (~Writing \/ panicked \/ (kind = "jazz" /\ dc = "closed"))

(* Close wakes the reader wherever it is: the receive loop of the far      *)
(* session ends, after the bytes that were left.                           *)
ReaderEnds == "far" \in connClosed ~> (reader = "eof" \/ panicked)

(* Close returns and leaves no goroutine of the peer behind, although jazz *)
(* stops waiting for them before it closes the websocket one of them reads.*)
CloseEnds ==
  closer # "open" ~>
    (panicked \/ (closer = "done" /\ WorkersEnded /\ signaler \in {"none", "gone"}))
=============================================================================
