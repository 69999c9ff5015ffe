----------------------------- MODULE TelemostSend -----------------------------
(***************************************************************************)
(* How the Telemost peer (internal/provider/telemost/peer.go) sends over   *)
(* the data channel of one session: several workers empty one queue onto   *)
(* it. How a session comes up and is replaced is TelemostPeer's subject;   *)
(* here it opens, and fails or is stopped, and the reconnect that follows  *)
(* has the owner close the conn that was using it.                         *)
(***************************************************************************)
EXTENDS SendQueue

VARIABLE tdc  (* the data channel olcrtc; "stopped" while it is open and    *)
              (* stopSession has closed sessionCloseCh                      *)

TeleTypeOK == tdc \in {"none", "connecting", "open", "stopped", "closed"}
IsOpen == tdc \in {"open", "stopped"}
TeleInit == tdc = "none"

-----------------------------------------------------------------------------
(* Connect up to its wait for dcReady, which fails after 15 s or by its    *)
(* context.                                                                *)
TeleCreate ==
  /\ connect = "idle"
  /\ connect' = "wait" /\ tdc' = "connecting"
  /\ UNCHANGED <<queue, worker, wire, closer, taken, dropped>>

TeleConnectFails ==
  /\ connect \in {"idle", "wait"}
  /\ connect' = "failed"
  /\ UNCHANGED <<queue, worker, wire, closer, taken, dropped, tdc>>

TeleReady ==
  /\ connect = "wait" /\ tdc # "connecting"
  /\ connect' = "ok"
  /\ UNCHANGED <<queue, worker, wire, closer, taken, dropped, tdc>>

(* OnOpen: the workers start.                                              *)
TeleOpens ==
  /\ tdc = "connecting"
  /\ tdc' = "open"
  /\ Start(Worker)
  /\ UNCHANGED <<connect, queue, wire, closer, taken, dropped>>

(* reconnect stops the session before it closes the channel.               *)
TeleStops ==
  /\ tdc = "open"
  /\ tdc' = "stopped"
  /\ UNCHANGED <<connect, queue, worker, wire, closer, taken, dropped>>

(* The channel or the connection under it fails, or reconnect closes it.   *)
TeleChannelFails ==
  /\ IsOpen
  /\ tdc' = "closed"
  /\ LoseWire
  /\ UNCHANGED <<connect, queue, worker, closer, taken, dropped>>

-----------------------------------------------------------------------------
TeleCanSend == IsOpen /\ Len(queue) < HighWater
TeleMaySend == IsOpen /\ closer = "open"

TeleTake(w) ==
  /\ Take(w)
  /\ UNCHANGED <<connect, wire, closer, taken, dropped, tdc>>

(* dc.Send, whichever worker gets to it first. A message beyond the limit  *)
(* is dropped, as is one that finds the channel closed, or the session     *)
(* stopped while it waits for the channel's buffer to drain.               *)
TeleWorkerSends(w) ==
  /\ worker[w].pc = "sending"
  /\ \/ Head(worker[w].item) \in Large /\ Drop(w, "waiting")
     \/ Head(worker[w].item) \notin Large /\ IsOpen /\ Put(w, worker[w].item)
     \/ Head(worker[w].item) \notin Large /\ tdc # "open" /\ Drop(w, "gone")
  /\ UNCHANGED <<connect, queue, closer, taken, tdc>>

(* The session's or the peer's close channel is closed, by the reconnect   *)
(* or by Close.                                                            *)
TeleWorkerStops(w) ==
  /\ worker[w].pc = "waiting" /\ tdc # "open"
  /\ Goes(w, "gone")
  /\ UNCHANGED <<connect, queue, wire, closer, taken, dropped, tdc>>

(* Close: it refuses messages, waits 1.5 s for the acknowledgement of its  *)
(* leave, stops the session, closes the channel, and waits for the         *)
(* goroutines 2 s at most.                                                 *)
TeleCloseBegins ==
  /\ closer = "open"
  /\ closer' = "leaving"
  /\ UNCHANGED <<connect, queue, worker, wire, taken, dropped, tdc>>

TeleCloseStops ==
  /\ closer = "leaving"
  /\ closer' = "left"
  /\ tdc' = IF tdc = "open" THEN "stopped" ELSE tdc
  /\ UNCHANGED <<connect, queue, worker, wire, taken, dropped>>

TeleCloseEnds ==
  /\ closer = "left"
  /\ closer' = "done" /\ tdc' = "closed"
  /\ LoseWire
  /\ UNCHANGED <<connect, queue, worker, taken, dropped>>

-----------------------------------------------------------------------------
TeleConnects == TeleCreate \/ TeleConnectFails \/ TeleReady
TeleWorks == \E w \in Worker : TeleTake(w) \/ TeleWorkerSends(w) \/ TeleWorkerStops(w)
TeleFails == TeleStops \/ TeleChannelFails
TeleCloses == TeleCloseBegins \/ TeleCloseStops \/ TeleCloseEnds
===============================================================================
