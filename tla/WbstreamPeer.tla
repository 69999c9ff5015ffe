---------------------------- MODULE WbstreamPeer -----------------------------
(***************************************************************************)
(* The WB Stream peer (internal/provider/wbstream/peer.go): a LiveKit room *)
(* joined with a token, one worker that publishes what Send queued, and a  *)
(* Close that closes the queue. Nothing reconnects: the end of the room is *)
(* reported to the owner, which closes the peer.                           *)
(***************************************************************************)
EXTENDS SendQueue

VARIABLES
  wClosed,      (* closed is set, done is closed                            *)
  room,         (* the LiveKit room                                         *)
  queueClosed,  (* sendQueue is closed                                      *)
  ended,        (* OnDisconnected reported the end of the session           *)
  panicked      (* a goroutine sent on the closed sendQueue: the process is *)
                (* dead                                                     *)

wbVars == <<wClosed, room, queueClosed, ended, panicked>>

WbTypeOK ==
  /\ wClosed \in BOOLEAN /\ queueClosed \in BOOLEAN
  /\ ended \in BOOLEAN /\ panicked \in BOOLEAN
  /\ room \in {"none", "up", "down", "left"}
  /\ queueClosed => wClosed

WbInit ==
  /\ wClosed = FALSE /\ queueClosed = FALSE /\ ended = FALSE /\ panicked = FALSE
  /\ room = "none"

-----------------------------------------------------------------------------
(* Connect: the token, the room, the tracks, the worker.                   *)
WbJoins ==
  /\ connect = "idle"
  /\ connect' = "tracks" /\ room' = "up"
  /\ UNCHANGED <<queue, worker, wire, closer, taken, dropped, wClosed, queueClosed, ended,
                 panicked>>

WbPublishes ==
  /\ connect = "tracks"
  /\ connect' = "ok"
  /\ Start({1})
  /\ UNCHANGED <<queue, wire, closer, taken, dropped, wbVars>>

(* A request for the token, the room or a track fails; a room that was     *)
(* joined is not left.                                                     *)
WbConnectFails ==
  /\ connect \in {"idle", "tracks"}
  /\ connect' = "failed"
  /\ UNCHANGED <<queue, worker, wire, closer, taken, dropped, wbVars>>

(* The room is lost: OnDisconnected.                                       *)
RoomLost ==
  /\ room = "up"
  /\ room' = "down"
  /\ ended' = (ended \/ ~wClosed)
  /\ LoseWire
  /\ UNCHANGED <<connect, queue, worker, closer, taken, dropped, wClosed, queueClosed,
                 panicked>>

-----------------------------------------------------------------------------
(* Neither a full queue nor a lost room makes CanSend refuse.              *)
WbCanSend == ~wClosed /\ room # "none"

WbMaySend == ~wClosed

WbTake ==
  /\ Take(1)
  /\ UNCHANGED <<connect, wire, closer, taken, dropped, wbVars>>

(* PublishDataPacket may fail: the error is logged, the message is gone.   *)
WbWorkerPublishes ==
  /\ worker[1].pc = "sending"
  /\ \/ room = "up" /\ Put(1, worker[1].item)
     \/ Drop(1, "waiting")
  /\ UNCHANGED <<connect, queue, closer, taken, wbVars>>

(* done is closed, or the closed queue is empty.                           *)
WbWorkerStops ==
  /\ worker[1].pc = "waiting" /\ wClosed
  /\ Goes(1, "gone")
  /\ UNCHANGED <<connect, queue, wire, closer, taken, dropped, wbVars>>

-----------------------------------------------------------------------------
(* Close: closed, cancel and done; the room; the queue; then it waits for  *)
(* the worker.                                                             *)
WbCloseBegins ==
  /\ closer = "open"
  /\ closer' = "leaving" /\ wClosed' = TRUE
  /\ UNCHANGED <<connect, queue, worker, wire, taken, dropped, room, queueClosed, ended,
                 panicked>>

WbLeaves ==
  /\ closer = "leaving"
  /\ closer' = "left"
  /\ room' = IF room = "none" THEN "none" ELSE "left"
  /\ LoseWire
  /\ UNCHANGED <<connect, queue, worker, taken, dropped, wClosed, queueClosed, ended, panicked>>

WbClosesQueue ==
  /\ closer = "left"
  /\ closer' = "waiting" /\ queueClosed' = TRUE
  /\ UNCHANGED <<connect, queue, worker, wire, taken, dropped, wClosed, room, ended, panicked>>

WbCloseReturns ==
  /\ closer = "waiting" /\ WorkersEnded
  /\ closer' = "done"
  /\ UNCHANGED <<connect, queue, worker, wire, taken, dropped, wbVars>>

-----------------------------------------------------------------------------
WbConnects == WbJoins \/ WbPublishes \/ WbConnectFails
WbWorks == WbTake \/ WbWorkerPublishes \/ WbWorkerStops
WbCloses == WbCloseBegins \/ WbLeaves \/ WbClosesQueue \/ WbCloseReturns
=============================================================================
