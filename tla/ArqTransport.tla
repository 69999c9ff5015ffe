---------------------------- MODULE ArqTransport ----------------------------
(***************************************************************************)
(* The stop-and-wait protocol by which seichannel (and, line for line,     *)
(* videochannel) carries messages over a lossy video track: Send cuts a    *)
(* message into fragments, queues them for the frame writer and waits for  *)
(* an acknowledgement; the goroutine that reads a remote track reassembles *)
(* messages, drops the ones it already delivered, hands each new one to    *)
(* the OnData callback and queues the acknowledgement.                     *)
(*                                                                         *)
(* A message is named by its number in the order its sender submitted it.  *)
(* Its CRC-32 is abstracted to that number: payloads are sealed with fresh *)
(* nonces, so two messages differ, and CRC collisions are left out.        *)
(***************************************************************************)
EXTENDS Integers, Sequences, FiniteSets

CONSTANTS
  MaxAttempts,   (* maxSendAttempts                                         *)
  OutCap,        (* capacity of the channel outbound (256 in the code)      *)
  AckCap,        (* capacity of the channel outboundAck (64 in the code)    *)
  DeliveredCap,  (* size beyond which delivered is emptied (256 in the code)*)
  Fragments,     (* Fragments[n]: how many fragments message n is cut into  *)
  NTracks,       (* bound: the carrier renegotiates tracks 1 .. NTracks     *)
  NetCap,        (* bound: frames in flight on one track                    *)
  MsgLimit,      (* bound: MsgLimit[p] calls of Send at peer p              *)
  MaxRestarts,   (* bound: MaxRestarts[p] restarts of the process of peer p *)
  MayClose,      (* the peers that may call Close                           *)
  MayRetrack,    (* the peers whose frames may move to another track        *)
  MayDamage      (* whether a frame's bytes may be corrupted in flight      *)

Peer == {"client", "server"}
Other(p) == IF p = "client" THEN "server" ELSE "client"
Track == 1 .. NTracks
Message == 1 .. Len(Fragments)
NoMsg == 0

ASSUME ArqAssumption ==
  /\ MaxAttempts \in Nat \ {0}
  /\ OutCap \in Nat \ {0} /\ AckCap \in Nat \ {0} /\ DeliveredCap \in Nat
  /\ Fragments \in Seq(Nat \ {0})
  /\ NTracks \in Nat \ {0} /\ NetCap \in Nat
  /\ MsgLimit \in [Peer -> 0 .. Len(Fragments)]
  /\ MaxRestarts \in [Peer -> Nat]
  /\ MayClose \subseteq Peer /\ MayRetrack \subseteq Peer /\ MayDamage \in BOOLEAN

VARIABLES
  writerUp,   (* the frame writer of a peer runs                            *)
  closed,     (* closed is set and closeCh is closed                        *)
  nextSeq,    (* last sequence number taken                                 *)
  send,       (* the Send that holds sendMu                                 *)
  waiter,     (* content of the channel ackWaiters[send.seq], NoMsg if empty*)
  outbound,   (* queue of data frames                                       *)
  outAck,     (* queue of acknowledgements (outboundAck)                    *)
  polled,     (* the writer found no acknowledgement in its first select    *)
  inbound,    (* the fragments of incomplete messages                       *)
  delivered,  (* the map delivered, as a set of pairs (seq, crc)            *)
  reader,     (* reader[p][t]: the goroutine of peer p that reads track t   *)
  net,        (* net[p][t]: frames peer p wrote on track t, in flight       *)
  track,      (* the track the carrier currently forwards p's frames on     *)
  restarts,   (* restarts of the process of peer p so far                   *)
  msgs,       (* messages submitted at peer p so far                        *)
  outcome,    (* history: what Send returned for each message of peer p     *)
  accepted,   (* history: messages peer p ever entered in delivered         *)
  handed      (* history: what this run of peer p passed to OnData          *)

sendVars == <<nextSeq, send, waiter, msgs, outcome>>
queueVars == <<writerUp, closed, outbound, outAck, polled>>
recvVars == <<inbound, delivered, reader, accepted, handed>>
netVars == <<net, track, restarts>>
vars == <<sendVars, queueVars, recvVars, netVars>>

Frame == [typ : {"data", "ack"}, seq : Nat, crc : Message, idx : Nat, intact : BOOLEAN]
DataFrame(seq, crc, idx) ==
  [typ |-> "data", seq |-> seq, crc |-> crc, idx |-> idx, intact |-> TRUE]
AckFrame(seq, crc) == [typ |-> "ack", seq |-> seq, crc |-> crc, idx |-> 0, intact |-> TRUE]
Outcome == {"pending", "ok", "ErrAckTimeout", "ErrTransportClosed"}

NoSend == [pc |-> "idle", seq |-> 0, msg |-> NoMsg, idx |-> 0, attempt |-> 0]
IdleReader == [pc |-> "read", seq |-> 0, crc |-> NoMsg, intact |-> TRUE]

SendTypeOK ==
  /\ nextSeq \in [Peer -> Nat]
  /\ send \in [Peer -> [pc : {"idle", "fragments", "wait"}, seq : Nat,
                        msg : Message \cup {NoMsg}, idx : Nat, attempt : Nat]]
  /\ \A p \in Peer : /\ send[p].pc # "idle" => send[p].msg \in Message
                     /\ send[p].attempt <= MaxAttempts
  /\ waiter \in [Peer -> Message \cup {NoMsg}]
  /\ msgs \in [Peer -> Nat]
  /\ outcome \in [Peer -> [Message -> Outcome]]

QueueTypeOK ==
  /\ writerUp \in [Peer -> BOOLEAN] /\ closed \in [Peer -> BOOLEAN]
  /\ outbound \in [Peer -> Seq(Frame)]
  /\ outAck \in [Peer -> Seq(Frame)]
  /\ \A p \in Peer : Len(outbound[p]) <= OutCap /\ Len(outAck[p]) <= AckCap
  /\ polled \in [Peer -> BOOLEAN]

RecvTypeOK ==
  /\ inbound \in [Peer -> SUBSET Frame]
  /\ delivered \in [Peer -> SUBSET [seq : Nat, crc : Message]]
  /\ reader \in [Peer -> [Track -> [pc : {"read", "handoff", "ack"}, seq : Nat,
                                    crc : Message \cup {NoMsg}, intact : BOOLEAN]]]
  /\ \A p \in Peer, t \in Track : reader[p][t].pc # "read" => reader[p][t].crc \in Message
  /\ accepted \in [Peer -> SUBSET Message]
  /\ handed \in [Peer -> Seq([msg : Message, intact : BOOLEAN])]

NetTypeOK ==
  /\ net \in [Peer -> [Track -> Seq(Frame)]]
  /\ track \in [Peer -> Track]
  /\ restarts \in [Peer -> Nat]

(* The queues and the attempts of a Send respect their bounds; a Send or a *)
(* reader that is under way has a message.                                 *)
TypeOK == SendTypeOK /\ QueueTypeOK /\ RecvTypeOK /\ NetTypeOK

Init ==
  /\ writerUp = [p \in Peer |-> FALSE] /\ closed = [p \in Peer |-> FALSE]
  /\ nextSeq = [p \in Peer |-> 0]
  /\ send = [p \in Peer |-> NoSend]
  /\ waiter = [p \in Peer |-> NoMsg]
  /\ outbound = [p \in Peer |-> <<>>] /\ outAck = [p \in Peer |-> <<>>]
  /\ polled = [p \in Peer |-> FALSE]
  /\ inbound = [p \in Peer |-> {}]
  /\ delivered = [p \in Peer |-> {}]
  /\ reader = [p \in Peer |-> [t \in Track |-> IdleReader]]
  /\ net = [p \in Peer |-> [t \in Track |-> <<>>]]
  /\ track = [p \in Peer |-> 1]
  /\ restarts = [p \in Peer |-> 0]
  /\ msgs = [p \in Peer |-> 0]
  /\ outcome = [p \in Peer |-> [m \in Message |-> "pending"]]
  /\ accepted = [p \in Peer |-> {}]
  /\ handed = [p \in Peer |-> <<>>]

-----------------------------------------------------------------------------
(* Connect: the carrier is connected, the writer starts (once).            *)
Connect(p) ==
  /\ ~writerUp[p] /\ ~closed[p]
  /\ writerUp' = [writerUp EXCEPT ![p] = TRUE]
  /\ UNCHANGED <<closed, outbound, outAck, polled, sendVars, recvVars, netVars>>

(* Send up to its loop: it takes sendMu and the next number and registers  *)
(* a waiter. Only a connected transport is given messages.                 *)
StartSend(p) ==
  /\ writerUp[p] /\ ~closed[p]
  /\ send[p].pc = "idle" /\ msgs[p] < MsgLimit[p]
  /\ nextSeq' = [nextSeq EXCEPT ![p] = @ + 1]
  /\ msgs' = [msgs EXCEPT ![p] = @ + 1]
  /\ send' = [send EXCEPT ![p] = [pc |-> "fragments", seq |-> nextSeq[p] + 1,
                                  msg |-> msgs[p] + 1, idx |-> 0, attempt |-> 1]]
  /\ waiter' = [waiter EXCEPT ![p] = NoMsg]
  /\ UNCHANGED <<outcome, queueVars, recvVars, netVars>>

(* Send returns: its deferred call deletes the waiter and unlocks sendMu.  *)
Return(p, result) ==
  /\ outcome' = [outcome EXCEPT ![p][send[p].msg] = result]
  /\ send' = [send EXCEPT ![p] = NoSend]
  /\ waiter' = [waiter EXCEPT ![p] = NoMsg]

(* enqueueFrame of the next fragment, which blocks while outbound is full. *)
QueueFragment(p) ==
  LET s == send[p] IN
  /\ s.pc = "fragments" /\ ~closed[p]
  /\ Len(outbound[p]) < OutCap
  /\ outbound' = [outbound EXCEPT ![p] =
       Append(@, DataFrame(s.seq, s.msg, s.idx))]
  /\ send' = [send EXCEPT ![p] = IF s.idx + 1 < Fragments[s.msg]
                                 THEN [s EXCEPT !.idx = @ + 1]
                                 ELSE [s EXCEPT !.pc = "wait"]]
  /\ UNCHANGED <<nextSeq, waiter, msgs, outcome, writerUp, closed, outAck, polled,
                 recvVars, netVars>>

(* Mutants of FailAttempt: one attempt too many; a loop that falls through *)
(* to "return nil".                                                        *)
FailAttemptOffByOne(p, w) ==
  IF send[p].attempt <= MaxAttempts
  THEN /\ send' = [send EXCEPT ![p].pc = "fragments", ![p].idx = 0, ![p].attempt = @ + 1]
       /\ waiter' = [waiter EXCEPT ![p] = w]
       /\ UNCHANGED outcome
  ELSE Return(p, "ErrAckTimeout")
FailAttemptReturnsNil(p, w) ==
  IF send[p].attempt < MaxAttempts
  THEN /\ send' = [send EXCEPT ![p].pc = "fragments", ![p].idx = 0, ![p].attempt = @ + 1]
       /\ waiter' = [waiter EXCEPT ![p] = w]
       /\ UNCHANGED outcome
  ELSE Return(p, "ok")

(* An attempt ended without the right acknowledgement; w is what is left   *)
(* in the waiter's channel. The last attempt ends the Send.                *)
FailAttempt(p, w) ==
  IF send[p].attempt < MaxAttempts
  THEN /\ send' = [send EXCEPT ![p].pc = "fragments", ![p].idx = 0, ![p].attempt = @ + 1]
       /\ waiter' = [waiter EXCEPT ![p] = w]
       /\ UNCHANGED outcome
  ELSE Return(p, "ErrAckTimeout")

(* Mutant of ReceiveAck: the CRC in the acknowledgement is not compared.   *)
ReceiveAnyAck(p) ==
  /\ send[p].pc = "wait" /\ waiter[p] # NoMsg
  /\ Return(p, "ok")
  /\ UNCHANGED <<nextSeq, msgs, queueVars, recvVars, netVars>>

(* The select of Send receives from the waiter.                            *)
ReceiveAck(p) ==
  /\ send[p].pc = "wait" /\ waiter[p] # NoMsg
  /\ IF waiter[p] = send[p].msg THEN Return(p, "ok") ELSE FailAttempt(p, NoMsg)
  /\ UNCHANGED <<nextSeq, msgs, queueVars, recvVars, netVars>>

(* The select of Send takes the timer, whether an answer is waiting or not.*)
AckTimeout(p) ==
  /\ send[p].pc = "wait"
  /\ FailAttempt(p, waiter[p])
  /\ UNCHANGED <<nextSeq, msgs, queueVars, recvVars, netVars>>

(* Mutant of SendClosed: Send does not watch closeCh.                      *)
SendIgnoresClose(p) == FALSE

(* Send finds the transport closed, in enqueueFrame or in its select.      *)
SendClosed(p) ==
  /\ send[p].pc # "idle" /\ closed[p]
  /\ Return(p, "ErrTransportClosed")
  /\ UNCHANGED <<nextSeq, msgs, queueVars, recvVars, netVars>>

-----------------------------------------------------------------------------
(* WriteSample: the frame is in flight, or lost; it is never refused.      *)
WriteFrame(p, f) ==
  /\ \/ /\ Len(net[p][track[p]]) < NetCap
        /\ net' = [net EXCEPT ![p][track[p]] = Append(@, f)]
     \/ UNCHANGED net
  /\ polled' = [polled EXCEPT ![p] = FALSE]
  /\ UNCHANGED <<writerUp, closed, sendVars, recvVars, track, restarts>>

(* Either select of nextOutboundFrame takes an acknowledgement.            *)
WriteAck(p) ==
  /\ writerUp[p] /\ outAck[p] # <<>>
  /\ WriteFrame(p, Head(outAck[p]))
  /\ outAck' = [outAck EXCEPT ![p] = Tail(@)]
  /\ UNCHANGED outbound

(* The first select takes its default branch.                              *)
PollAcks(p) ==
  /\ writerUp[p] /\ ~closed[p] /\ ~polled[p] /\ outAck[p] = <<>>
  /\ polled' = [polled EXCEPT ![p] = TRUE]
  /\ UNCHANGED <<writerUp, closed, outbound, outAck, sendVars, recvVars, netVars>>

(* The second select: a data frame, even if an acknowledgement just came.  *)
WriteData(p) ==
  /\ writerUp[p] /\ polled[p] /\ outbound[p] # <<>>
  /\ WriteFrame(p, Head(outbound[p]))
  /\ outbound' = [outbound EXCEPT ![p] = Tail(@)]
  /\ UNCHANGED outAck

(* The second select finds nothing: an idle sample, which carries no frame.*)
WriteIdle(p) ==
  /\ writerUp[p] /\ polled[p] /\ ~closed[p]
  /\ outAck[p] = <<>> /\ outbound[p] = <<>>
  /\ polled' = [polled EXCEPT ![p] = FALSE]
  /\ UNCHANGED <<writerUp, closed, outbound, outAck, sendVars, recvVars, netVars>>

(* Either select may take closeCh once it is closed; writerLoop returns.   *)
WriterExit(p) ==
  /\ writerUp[p] /\ closed[p]
  /\ writerUp' = [writerUp EXCEPT ![p] = FALSE]
  /\ polled' = [polled EXCEPT ![p] = FALSE]
  /\ UNCHANGED <<closed, outbound, outAck, sendVars, recvVars, netVars>>

(* Close: the flag and the channel; it then waits for the writer.          *)
Close(p) ==
  /\ p \in MayClose /\ ~closed[p]
  /\ closed' = [closed EXCEPT ![p] = TRUE]
  /\ UNCHANGED <<writerUp, outbound, outAck, polled, sendVars, recvVars, netVars>>

-----------------------------------------------------------------------------
(* A reader takes the next frame of its track.                             *)
TakeFrame(p, t) ==
  /\ reader[p][t].pc = "read" /\ net[Other(p)][t] # <<>>
  /\ net' = [net EXCEPT ![Other(p)][t] = Tail(@)]
  /\ UNCHANGED <<track, restarts, queueVars, nextSeq, send, msgs, outcome>>

(* resolveAck: the acknowledgement reaches the waiter registered for its   *)
(* number, unless none is or the waiter's channel (capacity 1) is full.    *)
ReadAck(p, t) ==
  LET f == Head(net[Other(p)][t]) IN
  /\ TakeFrame(p, t)
  /\ f.typ = "ack"
  /\ waiter' = IF send[p].pc # "idle" /\ send[p].seq = f.seq /\ waiter[p] = NoMsg
               THEN [waiter EXCEPT ![p] = f.crc] ELSE waiter
  /\ UNCHANGED recvVars

(* Mutant of IsDelivered: nothing is remembered as delivered.              *)
NeverDelivered(p, seq, crc) == FALSE

IsDelivered(p, seq, crc) == [seq |-> seq, crc |-> crc] \in delivered[p]

(* upsertInbound: the fragments held for the frame's number once the frame *)
(* is added; those of another message with that number are discarded.      *)
Partial(p, f) ==
  LET held == {g \in inbound[p] : g.seq = f.seq /\ g.crc = f.crc}
  IN IF \E g \in held : g.idx = f.idx THEN held ELSE held \cup {f}
OtherPartials(p, f) == {g \in inbound[p] : g.seq # f.seq}
Complete(p, f) == Cardinality(Partial(p, f)) = Fragments[f.crc]

(* The map write, after the map is replaced when it has grown too large.   *)
MarkDelivered(p, f) ==
  LET kept == IF Cardinality(delivered[p]) > DeliveredCap THEN {} ELSE delivered[p]
  IN delivered' = [delivered EXCEPT ![p] =
       {d \in kept : d.seq # f.seq} \cup {[seq |-> f.seq, crc |-> f.crc]}]

SetReader(p, t, pc, f, intact) ==
  reader' = [reader EXCEPT ![p][t] =
    [pc |-> pc, seq |-> f.seq, crc |-> f.crc, intact |-> intact]]

(* handleInboundFrame of a message already delivered: acknowledge again.   *)
ReadDuplicate(p, t) ==
  LET f == Head(net[Other(p)][t]) IN
  /\ TakeFrame(p, t)
  /\ f.typ = "data" /\ IsDelivered(p, f.seq, f.crc)
  /\ SetReader(p, t, "ack", f, TRUE)
  /\ UNCHANGED <<waiter, inbound, delivered, accepted, handed>>

(* handleInboundFrame of a fragment that does not complete its message.    *)
ReadFragment(p, t) ==
  LET f == Head(net[Other(p)][t]) IN
  /\ TakeFrame(p, t)
  /\ f.typ = "data" /\ ~IsDelivered(p, f.seq, f.crc) /\ ~Complete(p, f)
  /\ inbound' = [inbound EXCEPT ![p] = OtherPartials(p, f) \cup Partial(p, f)]
  /\ UNCHANGED <<waiter, delivered, reader, accepted, handed>>

(* Mutant of IntactMessage: the CRC of the assembled message is not checked.*)
IntactUnchecked(p, f) == TRUE

(* handleInboundFrame of the fragment that completes its message: the      *)
(* message is forgotten when its CRC does not match, else it is marked     *)
(* delivered, and recvMu is released before OnData is called.              *)
IntactMessage(p, f) == \A g \in Partial(p, f) : g.intact
ReadLast(p, t) ==
  LET f == Head(net[Other(p)][t]) IN
  /\ TakeFrame(p, t)
  /\ f.typ = "data" /\ ~IsDelivered(p, f.seq, f.crc) /\ Complete(p, f)
  /\ inbound' = [inbound EXCEPT ![p] = OtherPartials(p, f)]
  /\ IF IntactMessage(p, f)
     THEN /\ MarkDelivered(p, f)
          /\ accepted' = [accepted EXCEPT ![p] = @ \cup {f.crc}]
          /\ SetReader(p, t, "handoff", f, \A g \in Partial(p, f) : g.intact)
     ELSE UNCHANGED <<delivered, accepted, reader>>
  /\ UNCHANGED <<waiter, handed>>

(* The call of OnData.                                                     *)
HandOff(p, t) ==
  LET r == reader[p][t] IN
  /\ r.pc = "handoff"
  /\ handed' = [handed EXCEPT ![p] = Append(@, [msg |-> r.crc, intact |-> r.intact])]
  /\ reader' = [reader EXCEPT ![p][t].pc = "ack"]
  /\ UNCHANGED <<inbound, delivered, accepted, sendVars, queueVars, netVars>>

(* Mutant of SendAck: it waits for room in outboundAck only.               *)
SendAckIgnoresClose(p, t) ==
  LET r == reader[p][t] IN
  /\ r.pc = "ack"
  /\ Len(outAck[p]) < AckCap
  /\ outAck' = [outAck EXCEPT ![p] =
                  Append(@, AckFrame(r.seq, r.crc))]
  /\ reader' = [reader EXCEPT ![p][t] = IdleReader]
  /\ UNCHANGED <<inbound, delivered, accepted, handed, writerUp, closed, outbound, polled,
                 sendVars, netVars>>

(* sendAck: blocks while outboundAck is full, gives up on a closed peer.   *)
SendAck(p, t) ==
  LET r == reader[p][t] IN
  /\ r.pc = "ack"
  /\ \/ /\ ~closed[p] /\ Len(outAck[p]) < AckCap
        /\ outAck' = [outAck EXCEPT ![p] =
                        Append(@, AckFrame(r.seq, r.crc))]
     \/ /\ closed[p]
        /\ UNCHANGED outAck
  /\ reader' = [reader EXCEPT ![p][t] = IdleReader]
  /\ UNCHANGED <<inbound, delivered, accepted, handed, writerUp, closed, outbound, polled,
                 sendVars, netVars>>

-----------------------------------------------------------------------------
(* The carrier corrupts the payload of the oldest frame of a track.        *)
Damage(p, t) ==
  /\ MayDamage /\ net[p][t] # <<>>
  /\ Head(net[p][t]).typ = "data" /\ Head(net[p][t]).intact
  /\ net' = [net EXCEPT ![p][t][1].intact = FALSE]
  /\ UNCHANGED <<track, restarts, sendVars, queueVars, recvVars>>

(* The carrier renegotiates: frames written from now on arrive on another  *)
(* remote track, read by a goroutine of its own (handleRemoteTrack).       *)
Retrack(p) ==
  /\ p \in MayRetrack /\ track[p] < NTracks
  /\ track' = [track EXCEPT ![p] = @ + 1]
  /\ UNCHANGED <<net, restarts, sendVars, queueVars, recvVars>>

(* The process of p ends and starts again with a new transport, which      *)
(* publishes a new track and numbers its messages from 1. The other peer   *)
(* keeps its transport; what p already wrote stays in flight, what was on  *)
(* its way to p is lost.                                                   *)
Restart(p) ==
  /\ restarts[p] < MaxRestarts[p] /\ track[p] < NTracks
  /\ restarts' = [restarts EXCEPT ![p] = @ + 1]
  /\ track' = [track EXCEPT ![p] = @ + 1]
  /\ net' = [net EXCEPT ![Other(p)] = [t \in Track |-> <<>>]]
  /\ writerUp' = [writerUp EXCEPT ![p] = FALSE]
  /\ closed' = [closed EXCEPT ![p] = FALSE]
  /\ nextSeq' = [nextSeq EXCEPT ![p] = 0]
  /\ send' = [send EXCEPT ![p] = NoSend]
  /\ waiter' = [waiter EXCEPT ![p] = NoMsg]
  /\ outbound' = [outbound EXCEPT ![p] = <<>>]
  /\ outAck' = [outAck EXCEPT ![p] = <<>>]
  /\ polled' = [polled EXCEPT ![p] = FALSE]
  /\ inbound' = [inbound EXCEPT ![p] = {}]
  /\ delivered' = [delivered EXCEPT ![p] = {}]
  /\ reader' = [reader EXCEPT ![p] = [t \in Track |-> IdleReader]]
  /\ handed' = [handed EXCEPT ![p] = <<>>]
  /\ UNCHANGED <<msgs, outcome, accepted>>

-----------------------------------------------------------------------------
SendStep(p) == QueueFragment(p) \/ ReceiveAck(p) \/ AckTimeout(p) \/ SendClosed(p)
WriterStep(p) == WriteAck(p) \/ PollAcks(p) \/ WriteData(p) \/ WriteIdle(p) \/ WriterExit(p)
ReaderStep(p, t) ==
  \/ ReadAck(p, t) \/ ReadDuplicate(p, t) \/ ReadFragment(p, t) \/ ReadLast(p, t)
  \/ HandOff(p, t) \/ SendAck(p, t)
CarrierStep(p) == Retrack(p) \/ \E t \in Track : Damage(p, t)

Next == \E p \in Peer :
  \/ Connect(p) \/ StartSend(p) \/ SendStep(p) \/ WriterStep(p)
  \/ (\E t \in Track : ReaderStep(p, t))
  \/ Close(p) \/ CarrierStep(p) \/ Restart(p)

Spec == Init /\ [][Next]_vars

(* The scheduler runs every goroutine, timers fire; nothing is assumed of  *)
(* the carrier.                                                            *)
Fairness == \A p \in Peer :
  /\ WF_vars(Connect(p)) /\ WF_vars(SendStep(p)) /\ WF_vars(WriterStep(p))
  /\ \A t \in Track : WF_vars(ReaderStep(p, t))
FairSpec == Spec /\ Fairness

-----------------------------------------------------------------------------
(* A Send that returns nil was acknowledged by a transport that entered    *)
(* its message in delivered: no stale, foreign or duplicate frame, no      *)
(* retransmission and no restart of either process (which reuses sequence  *)
(* numbers) makes Send report a message the peer never assembled.          *)
AckedIsAccepted == \A p \in Peer, m \in Message :
  outcome[p][m] = "ok" => m \in accepted[Other(p)]

(* While one goroutine reads each peer's frames (one track, no restart),   *)
(* the acknowledged message was even handed to OnData: recvMu is released  *)
(* before the call, but the acknowledgement is queued after it.            *)
AckedIsHanded == \A p \in Peer, m \in Message :
  outcome[p][m] = "ok" => \E i \in 1 .. Len(handed[Other(p)]) : handed[Other(p)][i].msg = m

(* OnData gets messages in the order they were submitted, each at most     *)
(* once, and only with their payload intact: what Features declares as     *)
(* Ordered, on which the smux session above relies.                        *)
HandedInOrder == \A p \in Peer :
  /\ \A i \in 1 .. Len(handed[p]) : handed[p][i].intact
  /\ \A i \in 1 .. Len(handed[p]), j \in 1 .. Len(handed[p]) :
       i < j => handed[p][i].msg < handed[p][j].msg

(* The direction from client to server implements OrderedDelivery.         *)
Delivery == INSTANCE OrderedDelivery WITH
  Limit <- Len(Fragments), submitted <- msgs["client"], result <- outcome["client"],
  received <- [i \in 1 .. Len(handed["server"]) |-> handed["server"][i].msg]
ImplementsOrderedDelivery == Delivery!Spec

(* Every Send returns, whatever the carrier loses and whoever closes: the  *)
(* bounded queues between the senders, the readers that answer them and    *)
(* the writers never wait on each other for ever.                          *)
SendReturns == \A p \in Peer : send[p].pc # "idle" ~> send[p].pc = "idle"

(* A goroutine that reads a track always comes back for the next frame: it *)
(* is not stuck for ever on a full outboundAck.                            *)
ReaderReturns == \A p \in Peer, t \in Track :
  reader[p][t].pc # "read" ~> reader[p][t].pc = "read"

=============================================================================
