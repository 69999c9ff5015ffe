------------------------- MODULE ArqTransportProofs -------------------------
(***************************************************************************)
(* Proofs about ArqTransport for every value of its constants: any number  *)
(* of messages, fragments, tracks, restarts and attempts, any capacity.    *)
(***************************************************************************)
EXTENDS ArqTransport, SequenceTheorems, TLAPS

USE DEF vars, sendVars, queueVars, recvVars, netVars

LEMMA OtherPeer == \A p \in Peer : Other(p) \in Peer /\ Other(Other(p)) = p
  BY DEF Peer, Other
LEMMA Bounds ==
  /\ MaxAttempts \in Nat \ {0} /\ NTracks \in Nat \ {0}
  /\ OutCap \in Nat /\ AckCap \in Nat
  /\ Len(Fragments) \in Nat
  /\ \A p \in Peer : MsgLimit[p] \in Nat /\ MsgLimit[p] <= Len(Fragments)
  BY ArqAssumption

(* Updating one track of one peer, an idiom of the receive side.          *)
LEMMA UpdateTrack ==
  ASSUME NEW S, NEW f \in [Peer -> [Track -> S]], NEW p \in Peer, NEW t \in Track, NEW v \in S
  PROVE  [f EXCEPT ![p][t] = v] \in [Peer -> [Track -> S]]
  OBVIOUS

LEMMA TakeFrameType ==
  ASSUME NetTypeOK, NEW p \in Peer, NEW t \in Track, TakeFrame(p, t)
  PROVE  NetTypeOK' /\ Head(net[Other(p)][t]) \in Frame
  <1> DEFINE q == Other(p)
             s == net[q][t]
  <1>1. q \in Peer /\ s \in Seq(Frame) /\ s # <<>>
    BY OtherPeer DEF NetTypeOK, TakeFrame
  <1>2. Head(s) \in Frame /\ Tail(s) \in Seq(Frame)
    BY <1>1
  <1>3. net' = [net EXCEPT ![q][t] = Tail(s)]
    BY DEF TakeFrame
  <1>4. net' \in [Peer -> [Track -> Seq(Frame)]]
    <2> HIDE DEF q, s
    <2> QED BY <1>1, <1>2, <1>3, UpdateTrack DEF NetTypeOK
  <1>5. QED
    BY <1>2, <1>4 DEF TakeFrame, NetTypeOK

LEMMA WriteFrameType ==
  ASSUME NetTypeOK, NEW p \in Peer, NEW f \in Frame, WriteFrame(p, f)
  PROVE  NetTypeOK'
  <1> DEFINE t == track[p]
             s == Append(net[p][t], f)
  <1>1. t \in Track /\ net[p][t] \in Seq(Frame)
    BY DEF NetTypeOK
  <1>2. s \in Seq(Frame)
    BY <1>1
  <1>3. net' = net \/ net' = [net EXCEPT ![p][t] = s]
    BY DEF WriteFrame
  <1>4. net' \in [Peer -> [Track -> Seq(Frame)]]
    <2> HIDE DEF t, s
    <2>1. net \in [Peer -> [Track -> Seq(Frame)]]
      BY DEF NetTypeOK
    <2>2. [net EXCEPT ![p][t] = s] \in [Peer -> [Track -> Seq(Frame)]]
      BY <1>1, <1>2, <2>1, UpdateTrack
    <2>3. QED
      BY <1>3, <2>1, <2>2
  <1>5. QED
    BY <1>4 DEF WriteFrame, NetTypeOK

LEMMA DamageType ==
  ASSUME NetTypeOK, NEW p \in Peer, NEW t \in Track, Damage(p, t)
  PROVE  NetTypeOK'
  <1> DEFINE s == net[p][t]
             f == [s[1] EXCEPT !.intact = FALSE]
  <1>1. s \in Seq(Frame) /\ s # <<>> /\ 1 \in 1 .. Len(s)
    BY DEF NetTypeOK, Damage
  <1>2. f \in Frame
    <2>1. s[1] \in Frame
      BY <1>1
    <2>2. QED
      BY <2>1 DEF Frame
  <1>3. [s EXCEPT ![1] = f] \in Seq(Frame)
    BY <1>1, <1>2, ExceptSeq
  <1>4. net' = [net EXCEPT ![p][t] = [s EXCEPT ![1] = f]]
    BY DEF Damage
  <1>5. net' \in [Peer -> [Track -> Seq(Frame)]]
    <2> HIDE DEF s, f
    <2> QED BY <1>3, <1>4, UpdateTrack DEF NetTypeOK
  <1>6. QED
    BY <1>5 DEF Damage, NetTypeOK

LEMMA ReturnType ==
  ASSUME SendTypeOK, NEW p \in Peer, NEW r \in Outcome, Return(p, r), UNCHANGED <<nextSeq, msgs>>
  PROVE  SendTypeOK'
  <1>1. outcome' \in [Peer -> [Message -> Outcome]]
    BY DEF SendTypeOK, Return
  <1>2. NoSend \in [pc : {"idle", "fragments", "wait"}, seq : Nat,
                    msg : Message \cup {NoMsg}, idx : Nat, attempt : Nat]
    BY DEF NoSend
  <1>3. QED
    BY <1>1, <1>2, Bounds DEF SendTypeOK, Return, NoSend

LEMMA FailAttemptType ==
  ASSUME SendTypeOK, NEW p \in Peer, NEW w \in Message \cup {NoMsg},
         send[p].pc = "wait", FailAttempt(p, w), UNCHANGED <<nextSeq, msgs>>
  PROVE  SendTypeOK'
  <1>1. CASE send[p].attempt < MaxAttempts
    <2> DEFINE s == [send[p] EXCEPT !.pc = "fragments", !.idx = 0, !.attempt = @ + 1]
    <2>1. /\ send' = [send EXCEPT ![p] = s] /\ waiter' = [waiter EXCEPT ![p] = w]
          /\ UNCHANGED outcome
      BY <1>1 DEF FailAttempt, SendTypeOK
    <2>2. s \in [pc : {"idle", "fragments", "wait"}, seq : Nat,
                 msg : Message \cup {NoMsg}, idx : Nat, attempt : Nat]
          /\ s.attempt <= MaxAttempts /\ s.msg \in Message
      <3>1. /\ send[p] \in [pc : {"idle", "fragments", "wait"}, seq : Nat,
                           msg : Message \cup {NoMsg}, idx : Nat, attempt : Nat]
            /\ send[p].msg \in Message
        BY DEF SendTypeOK
      <3>2. s.attempt = send[p].attempt + 1 /\ s.msg = send[p].msg
        BY <3>1
      <3>3. send[p].attempt \in Nat /\ send[p].attempt + 1 \in Nat
        BY <3>1
      <3>4. send[p].attempt + 1 <= MaxAttempts
        BY <1>1, <3>3, Bounds
      <3>5. s \in [pc : {"idle", "fragments", "wait"}, seq : Nat,
                  msg : Message \cup {NoMsg}, idx : Nat, attempt : Nat]
        BY <3>1, <3>3
      <3>6. QED
        BY <3>1, <3>2, <3>4, <3>5
    <2> HIDE DEF s
    <2>3. QED
      BY <2>1, <2>2 DEF SendTypeOK
  <1>2. CASE ~(send[p].attempt < MaxAttempts)
    BY <1>2, ReturnType DEF FailAttempt, Outcome
  <1>3. QED
    BY <1>1, <1>2
LEMMA UpdateSeq ==
  ASSUME NEW S, NEW f \in [Peer -> Seq(S)], NEW p \in Peer, NEW v \in Seq(S)
  PROVE  [f EXCEPT ![p] = v] \in [Peer -> Seq(S)]
  OBVIOUS

ReaderType ==
  [pc : {"read", "handoff", "ack"}, seq : Nat, crc : Message \cup {NoMsg}, intact : BOOLEAN]

LEMMA SetReaderType ==
  ASSUME RecvTypeOK, NEW p \in Peer, NEW t \in Track, NEW f \in Frame,
         NEW pc \in {"handoff", "ack"}, NEW b \in BOOLEAN, SetReader(p, t, pc, f, b)
  PROVE  /\ reader' \in [Peer -> [Track -> ReaderType]]
         /\ \A q \in Peer, u \in Track : reader'[q][u].pc # "read" => reader'[q][u].crc \in Message
  <1> DEFINE r == [pc |-> pc, seq |-> f.seq, crc |-> f.crc, intact |-> b]
  <1>1. r \in ReaderType /\ r.crc \in Message
    BY DEF ReaderType, Frame
  <1>2. reader' = [reader EXCEPT ![p][t] = r]
    BY DEF SetReader
  <1> HIDE DEF r
  <1>3. QED
    BY <1>1, <1>2 DEF RecvTypeOK, ReaderType

LEMMA InitType == Init => TypeOK
  <1> SUFFICES ASSUME Init PROVE TypeOK
    OBVIOUS
  <1> USE Bounds DEF Init
  <1>1. SendTypeOK
    BY DEF SendTypeOK, NoSend, NoMsg, Outcome
  <1>2. QueueTypeOK
    BY DEF QueueTypeOK
  <1>3. RecvTypeOK
    BY DEF RecvTypeOK, IdleReader, NoMsg
  <1>4. NetTypeOK
    BY DEF NetTypeOK, Track
  <1>5. QED
    BY <1>1, <1>2, <1>3, <1>4 DEF TypeOK

LEMMA NextType == TypeOK /\ [Next]_vars => TypeOK'
  <1> SUFFICES ASSUME TypeOK, [Next]_vars PROVE TypeOK'
    OBVIOUS
  <1> USE Bounds, OtherPeer DEF TypeOK
  <1>1. ASSUME NEW p \in Peer, Connect(p)
       PROVE  TypeOK'
    <2>1. QueueTypeOK'
      BY <1>1 DEF Connect, QueueTypeOK
    <2>2. SendTypeOK' /\ RecvTypeOK' /\ NetTypeOK'
      BY <1>1 DEF Connect, SendTypeOK, RecvTypeOK, NetTypeOK
    <2>3. QED
      BY <2>1, <2>2
  <1>2. ASSUME NEW p \in Peer, StartSend(p)
       PROVE  TypeOK'
    <2>1. SendTypeOK'
      BY <1>2 DEF StartSend, SendTypeOK, Message, NoMsg
    <2>2. QueueTypeOK' /\ RecvTypeOK' /\ NetTypeOK'
      BY <1>2 DEF StartSend, QueueTypeOK, RecvTypeOK, NetTypeOK
    <2>3. QED
      BY <2>1, <2>2
  <1>3. ASSUME NEW p \in Peer, QueueFragment(p)
       PROVE  TypeOK'
    <2>1. SendTypeOK'
      <3>1. send[p] \in [pc : {"idle", "fragments", "wait"}, seq : Nat,
                 msg : Message \cup {NoMsg}, idx : Nat, attempt : Nat]
            /\ send[p].msg \in Message
        BY <1>3 DEF SendTypeOK, QueueFragment
      <3>2. send[p].idx + 1 \in Nat
        BY <3>1
      <3>3. \/ send' = [send EXCEPT ![p] = [send[p] EXCEPT !.idx = send[p].idx + 1]]
            \/ send' = [send EXCEPT ![p] = [send[p] EXCEPT !.pc = "wait"]]
        BY <1>3 DEF QueueFragment
      <3>4. QED
        BY <1>3, <3>1, <3>2, <3>3 DEF QueueFragment, SendTypeOK
    <2>2. QueueTypeOK'
      <3>1. DataFrame(send[p].seq, send[p].msg, send[p].idx) \in Frame
        BY <1>3 DEF QueueFragment, SendTypeOK, DataFrame, Frame
      <3>2. QED
        BY <1>3, <3>1 DEF QueueFragment, QueueTypeOK
    <2>3. RecvTypeOK' /\ NetTypeOK'
      BY <1>3 DEF QueueFragment, RecvTypeOK, NetTypeOK
    <2>4. QED
      BY <2>1, <2>2, <2>3
  <1>4. ASSUME NEW p \in Peer, ReceiveAck(p)
       PROVE  TypeOK'
    <2>1. SendTypeOK'
      <3>1. waiter[p] \in Message \cup {NoMsg} /\ NoMsg \in Message \cup {NoMsg}
        BY DEF SendTypeOK
      <3>2. QED
        BY <1>4, <3>1, ReturnType, FailAttemptType DEF ReceiveAck, Outcome
    <2>2. QueueTypeOK' /\ RecvTypeOK' /\ NetTypeOK'
      BY <1>4 DEF ReceiveAck, QueueTypeOK, RecvTypeOK, NetTypeOK, FailAttempt, Return
    <2>3. QED
      BY <2>1, <2>2
  <1>5. ASSUME NEW p \in Peer, AckTimeout(p)
       PROVE  TypeOK'
    <2>1. SendTypeOK'
      <3>1. waiter[p] \in Message \cup {NoMsg} /\ NoMsg \in Message \cup {NoMsg}
        BY DEF SendTypeOK
      <3>2. QED
        BY <1>5, <3>1, ReturnType, FailAttemptType DEF AckTimeout, Outcome
    <2>2. QueueTypeOK' /\ RecvTypeOK' /\ NetTypeOK'
      BY <1>5 DEF AckTimeout, QueueTypeOK, RecvTypeOK, NetTypeOK, FailAttempt, Return
    <2>3. QED
      BY <2>1, <2>2
  <1>6. ASSUME NEW p \in Peer, SendClosed(p)
       PROVE  TypeOK'
    <2>1. SendTypeOK'
      BY <1>6 DEF SendClosed, SendTypeOK, Message, NoMsg, NoSend, Return, Outcome
    <2>2. QueueTypeOK' /\ RecvTypeOK' /\ NetTypeOK'
      BY <1>6 DEF SendClosed, QueueTypeOK, RecvTypeOK, NetTypeOK, Return
    <2>3. QED
      BY <2>1, <2>2
  <1>7. ASSUME NEW p \in Peer, WriteAck(p)
       PROVE  TypeOK'
    <2>1. QueueTypeOK'
      BY <1>7 DEF WriteAck, QueueTypeOK, WriteFrame
    <2>2. NetTypeOK'
      <3>1. Head(outAck[p]) \in Frame
        BY <1>7 DEF WriteAck, QueueTypeOK
      <3>2. QED
        BY <1>7, <3>1, WriteFrameType DEF WriteAck
    <2>3. SendTypeOK' /\ RecvTypeOK'
      BY <1>7 DEF WriteAck, SendTypeOK, RecvTypeOK, WriteFrame
    <2>4. QED
      BY <2>1, <2>2, <2>3
  <1>8. ASSUME NEW p \in Peer, PollAcks(p)
       PROVE  TypeOK'
    <2>1. QueueTypeOK'
      BY <1>8 DEF PollAcks, QueueTypeOK
    <2>2. SendTypeOK' /\ RecvTypeOK' /\ NetTypeOK'
      BY <1>8 DEF PollAcks, SendTypeOK, RecvTypeOK, NetTypeOK
    <2>3. QED
      BY <2>1, <2>2
  <1>9. ASSUME NEW p \in Peer, WriteData(p)
       PROVE  TypeOK'
    <2>1. QueueTypeOK'
      BY <1>9 DEF WriteData, QueueTypeOK, WriteFrame
    <2>2. NetTypeOK'
      <3>1. Head(outbound[p]) \in Frame
        BY <1>9 DEF WriteData, QueueTypeOK
      <3>2. QED
        BY <1>9, <3>1, WriteFrameType DEF WriteData
    <2>3. SendTypeOK' /\ RecvTypeOK'
      BY <1>9 DEF WriteData, SendTypeOK, RecvTypeOK, WriteFrame
    <2>4. QED
      BY <2>1, <2>2, <2>3
  <1>10. ASSUME NEW p \in Peer, WriteIdle(p)
       PROVE  TypeOK'
    <2>1. QueueTypeOK'
      BY <1>10 DEF WriteIdle, QueueTypeOK
    <2>2. SendTypeOK' /\ RecvTypeOK' /\ NetTypeOK'
      BY <1>10 DEF WriteIdle, SendTypeOK, RecvTypeOK, NetTypeOK
    <2>3. QED
      BY <2>1, <2>2
  <1>11. ASSUME NEW p \in Peer, WriterExit(p)
       PROVE  TypeOK'
    <2>1. QueueTypeOK'
      BY <1>11 DEF WriterExit, QueueTypeOK
    <2>2. SendTypeOK' /\ RecvTypeOK' /\ NetTypeOK'
      BY <1>11 DEF WriterExit, SendTypeOK, RecvTypeOK, NetTypeOK
    <2>3. QED
      BY <2>1, <2>2
  <1>12. ASSUME NEW p \in Peer, Close(p)
       PROVE  TypeOK'
    <2>1. QueueTypeOK'
      BY <1>12 DEF Close, QueueTypeOK
    <2>2. SendTypeOK' /\ RecvTypeOK' /\ NetTypeOK'
      BY <1>12 DEF Close, SendTypeOK, RecvTypeOK, NetTypeOK
    <2>3. QED
      BY <2>1, <2>2
  <1>13. ASSUME NEW p \in Peer, NEW t \in Track, ReadAck(p, t)
       PROVE  TypeOK'
    <2>1. SendTypeOK'
      <3>1. Head(net[Other(p)][t]).crc \in Message
        BY <1>13, TakeFrameType DEF ReadAck, Frame
      <3>2. QED
        BY <1>13, <3>1 DEF ReadAck, TakeFrame, SendTypeOK
    <2>2. NetTypeOK'
      BY <1>13, TakeFrameType DEF ReadAck
    <2>3. QueueTypeOK' /\ RecvTypeOK'
      BY <1>13 DEF ReadAck, QueueTypeOK, RecvTypeOK, TakeFrame
    <2>4. QED
      BY <2>1, <2>2, <2>3
  <1>14. ASSUME NEW p \in Peer, NEW t \in Track, ReadDuplicate(p, t)
       PROVE  TypeOK'
    <2>1. RecvTypeOK'
      <3> DEFINE f == Head(net[Other(p)][t])
      <3>1. f \in Frame
        BY <1>14, TakeFrameType DEF ReadDuplicate
      <3>2. SetReader(p, t, "ack", f, TRUE)
        BY <1>14 DEF ReadDuplicate
      <3> HIDE DEF f
      <3>3. reader' \in [Peer -> [Track -> ReaderType]]
            /\ \A q \in Peer, u \in Track : reader'[q][u].pc # "read" => reader'[q][u].crc \in Message
        BY <3>1, <3>2, SetReaderType
      <3>4. QED
        BY <1>14, <3>3 DEF ReadDuplicate, RecvTypeOK, ReaderType
    <2>2. NetTypeOK'
      BY <1>14, TakeFrameType DEF ReadDuplicate
    <2>3. SendTypeOK' /\ QueueTypeOK'
      BY <1>14 DEF ReadDuplicate, SendTypeOK, QueueTypeOK, TakeFrame
    <2>4. QED
      BY <2>1, <2>2, <2>3
  <1>15. ASSUME NEW p \in Peer, NEW t \in Track, ReadFragment(p, t)
       PROVE  TypeOK'
    <2>1. RecvTypeOK'
      <3> DEFINE f == Head(net[Other(p)][t])
      <3>1. f \in Frame
        BY <1>15, TakeFrameType DEF ReadFragment
      <3>2. OtherPartials(p, f) \cup Partial(p, f) \subseteq Frame
        BY <3>1 DEF OtherPartials, Partial, RecvTypeOK
      <3>3. QED
        BY <1>15, <3>2 DEF ReadFragment, RecvTypeOK
    <2>2. NetTypeOK'
      BY <1>15, TakeFrameType DEF ReadFragment
    <2>3. SendTypeOK' /\ QueueTypeOK'
      BY <1>15 DEF ReadFragment, SendTypeOK, QueueTypeOK, TakeFrame
    <2>4. QED
      BY <2>1, <2>2, <2>3
  <1>16. ASSUME NEW p \in Peer, NEW t \in Track, ReadLast(p, t)
       PROVE  TypeOK'
    <2>1. RecvTypeOK'
      <3> DEFINE f == Head(net[Other(p)][t])
      <3>1. f \in Frame
        BY <1>16, TakeFrameType DEF ReadLast
      <3>2. OtherPartials(p, f) \subseteq Frame
        BY <3>1 DEF OtherPartials, RecvTypeOK
      <3>3. inbound' \in [Peer -> SUBSET Frame] /\ UNCHANGED handed
        BY <1>16, <3>2 DEF ReadLast, RecvTypeOK
      <3>4. CASE UNCHANGED <<delivered, accepted, reader>>
        BY <3>3, <3>4 DEF RecvTypeOK
      <3>5. CASE /\ MarkDelivered(p, f)
                 /\ accepted' = [accepted EXCEPT ![p] = @ \cup {f.crc}]
                 /\ SetReader(p, t, "handoff", f, \A g \in Partial(p, f) : g.intact)
        <4> HIDE DEF f
        <4>1. f.seq \in Nat /\ f.crc \in Message
          BY <3>1 DEF Frame
        <4>2. delivered' \in [Peer -> SUBSET [seq : Nat, crc : Message]]
          BY <3>5, <4>1 DEF MarkDelivered, RecvTypeOK
        <4>3. accepted' \in [Peer -> SUBSET Message]
          BY <3>5, <4>1 DEF RecvTypeOK
        <4>4. (\A g \in Partial(p, f) : g.intact) \in BOOLEAN
          OBVIOUS
        <4>5. reader' \in [Peer -> [Track -> ReaderType]]
              /\ \A q \in Peer, u \in Track : reader'[q][u].pc # "read" => reader'[q][u].crc \in Message
          BY <3>1, <3>5, <4>4, SetReaderType
        <4>6. QED
          BY <3>3, <4>2, <4>3, <4>5 DEF RecvTypeOK, ReaderType
      <3>6. QED
        BY <1>16, <3>4, <3>5 DEF ReadLast
    <2>2. NetTypeOK'
      BY <1>16, TakeFrameType DEF ReadLast
    <2>3. SendTypeOK' /\ QueueTypeOK'
      BY <1>16 DEF ReadLast, SendTypeOK, QueueTypeOK, TakeFrame
    <2>4. QED
      BY <2>1, <2>2, <2>3
  <1>17. ASSUME NEW p \in Peer, NEW t \in Track, HandOff(p, t)
       PROVE  TypeOK'
    <2>1. RecvTypeOK'
      <3> DEFINE r == reader[p][t]
                 h == [msg |-> r.crc, intact |-> r.intact]
      <3>1. r \in ReaderType /\ r.crc \in Message
        BY <1>17 DEF HandOff, RecvTypeOK, ReaderType
      <3>2. h \in [msg : Message, intact : BOOLEAN]
        BY <3>1 DEF ReaderType
      <3>3. handed' = [handed EXCEPT ![p] = Append(handed[p], h)]
        BY <1>17 DEF HandOff
      <3>4. handed' \in [Peer -> Seq([msg : Message, intact : BOOLEAN])]
        <4> HIDE DEF h
        <4>1. Append(handed[p], h) \in Seq([msg : Message, intact : BOOLEAN])
          BY <3>2, AppendProperties DEF RecvTypeOK
        <4>2. QED
          BY <3>3, <4>1, UpdateSeq DEF RecvTypeOK
      <3>5. [r EXCEPT !.pc = "ack"] \in ReaderType /\ [r EXCEPT !.pc = "ack"].crc = r.crc
        BY <3>1 DEF ReaderType
      <3>6. reader' = [reader EXCEPT ![p][t] = [r EXCEPT !.pc = "ack"]]
        BY <1>17 DEF HandOff
      <3>7. reader' \in [Peer -> [Track -> ReaderType]]
            /\ \A q \in Peer, u \in Track : reader'[q][u].pc # "read" => reader'[q][u].crc \in Message
        BY <3>1, <3>5, <3>6 DEF RecvTypeOK, ReaderType
      <3>8. QED
        BY <1>17, <3>4, <3>7 DEF HandOff, RecvTypeOK, ReaderType
    <2>2. SendTypeOK' /\ QueueTypeOK' /\ NetTypeOK'
      BY <1>17 DEF HandOff, SendTypeOK, QueueTypeOK, NetTypeOK
    <2>3. QED
      BY <2>1, <2>2
  <1>18. ASSUME NEW p \in Peer, NEW t \in Track, SendAck(p, t)
       PROVE  TypeOK'
    <2>1. RecvTypeOK'
      BY <1>18 DEF SendAck, RecvTypeOK, IdleReader, NoMsg
    <2>2. QueueTypeOK'
      <3>1. reader[p][t].seq \in Nat /\ reader[p][t].crc \in Message
        BY <1>18 DEF SendAck, RecvTypeOK
      <3>2. AckFrame(reader[p][t].seq, reader[p][t].crc) \in Frame
        BY <3>1 DEF AckFrame, Frame
      <3> DEFINE f == AckFrame(reader[p][t].seq, reader[p][t].crc)
      <3>3. \/ UNCHANGED outAck
            \/ Len(outAck[p]) < AckCap /\ outAck' = [outAck EXCEPT ![p] = Append(outAck[p], f)]
        BY <1>18 DEF SendAck
      <3>4. Append(outAck[p], f) \in Seq(Frame) /\ Len(Append(outAck[p], f)) = Len(outAck[p]) + 1
        BY <3>2 DEF QueueTypeOK
      <3> HIDE DEF f
      <3>5. outAck' \in [Peer -> Seq(Frame)] /\ \A q \in Peer : Len(outAck'[q]) <= AckCap
        <4> DEFINE s == Append(outAck[p], f)
        <4>1. outAck \in [Peer -> Seq(Frame)] /\ \A q \in Peer : Len(outAck[q]) <= AckCap
          BY DEF QueueTypeOK
        <4>2. CASE UNCHANGED outAck
          BY <4>1, <4>2
        <4>3. CASE Len(outAck[p]) < AckCap /\ outAck' = [outAck EXCEPT ![p] = s]
          <5>1. s \in Seq(Frame) /\ Len(s) <= AckCap
            BY <3>4, <4>1, <4>3
          <5> HIDE DEF s
          <5>2. QED
            BY <4>1, <4>3, <5>1, UpdateSeq
        <4>4. QED
          BY <3>3, <4>2, <4>3
      <3>6. QED
        BY <1>18, <3>5 DEF SendAck, QueueTypeOK
    <2>3. SendTypeOK' /\ NetTypeOK'
      BY <1>18 DEF SendAck, SendTypeOK, NetTypeOK
    <2>4. QED
      BY <2>1, <2>2, <2>3
  <1>19. ASSUME NEW p \in Peer, NEW t \in Track, Damage(p, t)
       PROVE  TypeOK'
    <2>1. NetTypeOK'
      BY <1>19, DamageType
    <2>2. SendTypeOK' /\ QueueTypeOK' /\ RecvTypeOK'
      BY <1>19 DEF Damage, SendTypeOK, QueueTypeOK, RecvTypeOK
    <2>3. QED
      BY <2>1, <2>2
  <1>20. ASSUME NEW p \in Peer, Retrack(p)
       PROVE  TypeOK'
    <2>1. NetTypeOK'
      BY <1>20 DEF Retrack, NetTypeOK, Track
    <2>2. SendTypeOK' /\ QueueTypeOK' /\ RecvTypeOK'
      BY <1>20 DEF Retrack, SendTypeOK, QueueTypeOK, RecvTypeOK
    <2>3. QED
      BY <2>1, <2>2
  <1>21. ASSUME NEW p \in Peer, Restart(p)
       PROVE  TypeOK'
    <2>1. SendTypeOK'
      BY <1>21 DEF Restart, SendTypeOK, NoSend, NoMsg
    <2>2. QueueTypeOK'
      BY <1>21 DEF Restart, QueueTypeOK, NoSend, NoMsg
    <2>3. RecvTypeOK'
      <3>1. IdleReader \in ReaderType /\ IdleReader.pc = "read"
        BY DEF IdleReader, ReaderType
      <3>2. /\ reader' = [reader EXCEPT ![p] = [u \in Track |-> IdleReader]]
            /\ inbound' = [inbound EXCEPT ![p] = {}] /\ delivered' = [delivered EXCEPT ![p] = {}]
            /\ handed' = [handed EXCEPT ![p] = <<>>] /\ UNCHANGED accepted
        BY <1>21 DEF Restart
      <3>3. handed' \in [Peer -> Seq([msg : Message, intact : BOOLEAN])]
        <4>1. <<>> \in Seq([msg : Message, intact : BOOLEAN])
          OBVIOUS
        <4>2. QED
          BY <3>2, <4>1, UpdateSeq DEF RecvTypeOK
      <3>4. reader \in [Peer -> [Track -> ReaderType]]
        BY DEF RecvTypeOK, ReaderType
      <3>5. reader' \in [Peer -> [Track -> ReaderType]]
        BY <3>1, <3>2, <3>4
      <3>6. ASSUME NEW q \in Peer, NEW u \in Track, reader'[q][u].pc # "read"
            PROVE  reader'[q][u].crc \in Message
        <4>1. q # p /\ reader'[q] = reader[q]
          BY <3>1, <3>2, <3>4, <3>6
        <4>2. QED
          BY <3>6, <4>1 DEF RecvTypeOK
      <3>7. /\ inbound' \in [Peer -> SUBSET Frame] /\ accepted' \in [Peer -> SUBSET Message]
            /\ delivered' \in [Peer -> SUBSET [seq : Nat, crc : Message]]
        BY <3>2 DEF RecvTypeOK
      <3>8. QED
        BY <3>3, <3>5, <3>6, <3>7 DEF RecvTypeOK, ReaderType
    <2>4. NetTypeOK'
      <3>1. /\ net' = [net EXCEPT ![Other(p)] = [u \in Track |-> <<>>]]
            /\ track' = [track EXCEPT ![p] = track[p] + 1] /\ track[p] < NTracks
            /\ restarts' = [restarts EXCEPT ![p] = restarts[p] + 1]
        BY <1>21 DEF Restart
      <3>2. net' \in [Peer -> [Track -> Seq(Frame)]]
        BY <3>1 DEF NetTypeOK
      <3>3. track' \in [Peer -> Track]
        <4>1. track \in [Peer -> Track] /\ track[p] \in Track
          BY DEF NetTypeOK
        <4>2. track[p] + 1 \in Track
          BY <3>1, <4>1, Bounds DEF Track
        <4>3. QED
          BY <3>1, <4>1, <4>2
      <3>4. QED
        BY <3>1, <3>2, <3>3 DEF NetTypeOK
    <2>5. QED
      BY <2>1, <2>2, <2>3, <2>4
  <1>22. CASE UNCHANGED vars
    BY <1>22 DEF SendTypeOK, QueueTypeOK, RecvTypeOK, NetTypeOK
  <1>23. QED
    BY <1>1, <1>2, <1>3, <1>4, <1>5, <1>6, <1>7, <1>8, <1>9, <1>10, <1>11, <1>12, <1>13, <1>14, <1>15, <1>16, <1>17, <1>18, <1>19, <1>20, <1>21, <1>22
       DEF Next, SendStep, WriterStep, ReaderStep, CarrierStep

(* ArqTransport is type-correct: queues stay within their capacity, a Send *)
(* makes at most MaxAttempts attempts.                                     *)
THEOREM TypeCorrect == Spec => []TypeOK
  BY InitType, NextType, PTL DEF Spec

-----------------------------------------------------------------------------
(***************************************************************************)
(* An acknowledgement is evidence. AckedIsAccepted is not inductive: it    *)
(* must be said of every place an acknowledgement passes through on its    *)
(* way to the Send that waits for it, and of the map delivered and the     *)
(* readers that make acknowledgements.                                     *)
(***************************************************************************)
Genuine(p) == {f \in Frame : f.typ = "ack" => f.crc \in accepted[p]}

QueueEvidence == \A p \in Peer :
  outbound[p] \in Seq(Genuine(p)) /\ outAck[p] \in Seq(Genuine(p))
NetEvidence == \A p \in Peer, t \in Track : net[p][t] \in Seq(Genuine(p))
RecvEvidence == \A p \in Peer :
  /\ \A t \in Track : reader[p][t].pc # "read" => reader[p][t].crc \in accepted[p]
  /\ \A d \in delivered[p] : d.crc \in accepted[p]
WaiterEvidence == \A p \in Peer : waiter[p] # NoMsg => waiter[p] \in accepted[Other(p)]
Evidence ==
  QueueEvidence /\ NetEvidence /\ RecvEvidence /\ WaiterEvidence /\ AckedIsAccepted

LEMMA GenuineUnchanged ==
  ASSUME UNCHANGED accepted
  PROVE  \A p \in Peer : Genuine(p)' = Genuine(p)
  BY DEF Genuine

LEMMA SeqMonotone ==
  ASSUME NEW S, NEW T, S \subseteq T, NEW s \in Seq(S)
  PROVE  s \in Seq(T)
  OBVIOUS

LEMMA InitEvidence == Init => Evidence
  <1> SUFFICES ASSUME Init PROVE Evidence
    OBVIOUS
  <1>1. \A S : <<>> \in Seq(S)
    OBVIOUS
  <1>2. QueueEvidence /\ NetEvidence
    BY <1>1 DEF Init, QueueEvidence, NetEvidence
  <1>3. RecvEvidence /\ WaiterEvidence
    BY DEF Init, RecvEvidence, WaiterEvidence, IdleReader, NoMsg
  <1>4. AckedIsAccepted
    BY DEF Init, AckedIsAccepted
  <1>5. QED
    BY <1>2, <1>3, <1>4 DEF Evidence

(* What the actions that pass frames on do to the evidence.                *)
LEMMA TakeFrameEvidence ==
  ASSUME TypeOK, Evidence, NEW p \in Peer, NEW t \in Track, TakeFrame(p, t)
  PROVE  /\ Head(net[Other(p)][t]) \in Genuine(Other(p))
         /\ \A q \in Peer, u \in Track : net'[q][u] \in Seq(Genuine(q))
  <1> DEFINE q == Other(p)
             s == net[q][t]
  <1>1. q \in Peer /\ s \in Seq(Genuine(q)) /\ s # <<>>
    BY OtherPeer DEF Evidence, NetEvidence, TakeFrame
  <1>2. Head(s) \in Genuine(q) /\ Tail(s) \in Seq(Genuine(q))
    BY <1>1
  <1>3. net' = [net EXCEPT ![q][t] = Tail(s)]
    BY DEF TakeFrame
  <1>4. ASSUME NEW r \in Peer, NEW u \in Track PROVE net'[r][u] \in Seq(Genuine(r))
    <2> DEFINE v == Tail(s)
    <2>1. v \in Seq(Genuine(q)) /\ net' = [net EXCEPT ![q][t] = v]
      BY <1>2, <1>3
    <2>2. net[r][u] \in Seq(Genuine(r))
      BY DEF Evidence, NetEvidence
    <2> HIDE DEF v, q, s
    <2>3. QED
      BY <1>1, <2>1, <2>2 DEF TypeOK, NetTypeOK
  <1>5. QED
    BY <1>2, <1>4

LEMMA WriteFrameEvidence ==
  ASSUME TypeOK, Evidence, NEW p \in Peer, NEW f \in Genuine(p), WriteFrame(p, f)
  PROVE  NetEvidence'
  <1> DEFINE t == track[p]
             v == Append(net[p][t], f)
  <1>1. t \in Track /\ net[p][t] \in Seq(Genuine(p))
    BY DEF TypeOK, NetTypeOK, Evidence, NetEvidence
  <1>2. v \in Seq(Genuine(p))
    BY <1>1, AppendProperties
  <1>3. net' = net \/ net' = [net EXCEPT ![p][t] = v]
    BY DEF WriteFrame
  <1>4. ASSUME NEW r \in Peer, NEW u \in Track PROVE net'[r][u] \in Seq(Genuine(r))
    <2>1. net[r][u] \in Seq(Genuine(r))
      BY DEF Evidence, NetEvidence
    <2>2. DOMAIN net = Peer /\ DOMAIN net[p] = Track
      BY DEF TypeOK, NetTypeOK
    <2> HIDE DEF v, t
    <2>3. net'[r][u] = net[r][u] \/ (r = p /\ net'[r][u] = v)
      BY <1>1, <1>3, <2>2
    <2>4. QED
      BY <1>2, <2>1, <2>3
  <1>5. QED
    BY <1>4, GenuineUnchanged DEF WriteFrame, NetEvidence

LEMMA ReturnEvidence ==
  ASSUME TypeOK, Evidence, NEW p \in Peer, NEW r, Return(p, r), UNCHANGED accepted,
         send[p].msg \in Message, r = "ok" => send[p].msg \in accepted[Other(p)]
  PROVE  WaiterEvidence' /\ AckedIsAccepted'
  <1>1. waiter' = [waiter EXCEPT ![p] = NoMsg]
        /\ outcome' = [outcome EXCEPT ![p][send[p].msg] = r]
    BY DEF Return
  <1>2. WaiterEvidence'
    BY <1>1 DEF Evidence, WaiterEvidence, TypeOK, SendTypeOK
  <1>3. ASSUME NEW q \in Peer, NEW m \in Message, outcome'[q][m] = "ok"
        PROVE  m \in accepted[Other(q)]
    BY <1>1, <1>3 DEF Evidence, AckedIsAccepted, TypeOK, SendTypeOK
  <1>4. QED
    BY <1>2, <1>3 DEF AckedIsAccepted

LEMMA FailAttemptEvidence ==
  ASSUME TypeOK, Evidence, NEW p \in Peer, NEW w, FailAttempt(p, w), UNCHANGED accepted,
         send[p].msg \in Message, w # NoMsg => w \in accepted[Other(p)]
  PROVE  WaiterEvidence' /\ AckedIsAccepted'
  <1>1. CASE Return(p, "ErrAckTimeout")
    BY <1>1, ReturnEvidence
  <1>2. CASE waiter' = [waiter EXCEPT ![p] = w] /\ UNCHANGED outcome
    BY <1>2 DEF Evidence, WaiterEvidence, AckedIsAccepted, TypeOK, SendTypeOK
  <1>3. QED
    BY <1>1, <1>2 DEF FailAttempt

LEMMA NextEvidence == TypeOK /\ Evidence /\ [Next]_vars => Evidence'
  <1> SUFFICES ASSUME TypeOK, Evidence, [Next]_vars PROVE Evidence'
    OBVIOUS
  <1> USE OtherPeer
  <1>1. ASSUME NEW p \in Peer, Connect(p)
       PROVE  Evidence'
    <2>1. QueueEvidence' /\ NetEvidence' /\ RecvEvidence' /\ WaiterEvidence' /\ AckedIsAccepted'
      BY <1>1, GenuineUnchanged
         DEF Evidence, Connect, QueueEvidence, NetEvidence, RecvEvidence, WaiterEvidence, AckedIsAccepted
    <2>2. QED
      BY <2>1 DEF Evidence
  <1>2. ASSUME NEW p \in Peer, StartSend(p)
       PROVE  Evidence'
    <2>1. QueueEvidence' /\ NetEvidence' /\ RecvEvidence' /\ WaiterEvidence' /\ AckedIsAccepted'
      BY <1>2, GenuineUnchanged
         DEF Evidence, StartSend, QueueEvidence, NetEvidence, RecvEvidence, WaiterEvidence, AckedIsAccepted
    <2>2. QED
      BY <2>1 DEF Evidence
  <1>3. ASSUME NEW p \in Peer, QueueFragment(p)
       PROVE  Evidence'
    <2>1. QueueEvidence'
      <3> DEFINE f == DataFrame(send[p].seq, send[p].msg, send[p].idx)
      <3>1. f \in Genuine(p)
        BY <1>3 DEF QueueFragment, TypeOK, SendTypeOK, DataFrame, Frame, Genuine
      <3>2. outbound' = [outbound EXCEPT ![p] = Append(outbound[p], f)] /\ UNCHANGED <<outAck, accepted>>
        BY <1>3 DEF QueueFragment
      <3> HIDE DEF f
      <3>3. Append(outbound[p], f) \in Seq(Genuine(p))
        BY <3>1, AppendProperties DEF Evidence, QueueEvidence
      <3>4. QED
        BY <3>2, <3>3, GenuineUnchanged DEF Evidence, QueueEvidence, TypeOK, QueueTypeOK
    <2>2. NetEvidence' /\ RecvEvidence' /\ WaiterEvidence' /\ AckedIsAccepted'
      BY <1>3, GenuineUnchanged
         DEF Evidence, QueueFragment, NetEvidence, RecvEvidence, WaiterEvidence, AckedIsAccepted
    <2>3. QED
      BY <2>1, <2>2 DEF Evidence
  <1>4. ASSUME NEW p \in Peer, ReceiveAck(p)
       PROVE  Evidence'
    <2>1. WaiterEvidence' /\ AckedIsAccepted'
      <3>1. send[p].msg \in Message /\ waiter[p] \in accepted[Other(p)] /\ UNCHANGED accepted
        BY <1>4 DEF ReceiveAck, TypeOK, SendTypeOK, Evidence, WaiterEvidence
      <3>2. QED
        BY <1>4, <3>1, ReturnEvidence, FailAttemptEvidence DEF ReceiveAck
    <2>2. QueueEvidence' /\ NetEvidence' /\ RecvEvidence'
      BY <1>4, GenuineUnchanged
         DEF Evidence, ReceiveAck, QueueEvidence, NetEvidence, RecvEvidence, FailAttempt, Return
    <2>3. QED
      BY <2>1, <2>2 DEF Evidence
  <1>5. ASSUME NEW p \in Peer, AckTimeout(p)
       PROVE  Evidence'
    <2>1. WaiterEvidence' /\ AckedIsAccepted'
      <3>1. /\ send[p].msg \in Message /\ UNCHANGED accepted
            /\ waiter[p] # NoMsg => waiter[p] \in accepted[Other(p)]
        BY <1>5 DEF AckTimeout, TypeOK, SendTypeOK, Evidence, WaiterEvidence
      <3>2. QED
        BY <1>5, <3>1, FailAttemptEvidence DEF AckTimeout
    <2>2. QueueEvidence' /\ NetEvidence' /\ RecvEvidence'
      BY <1>5, GenuineUnchanged
         DEF Evidence, AckTimeout, QueueEvidence, NetEvidence, RecvEvidence, FailAttempt, Return
    <2>3. QED
      BY <2>1, <2>2 DEF Evidence
  <1>6. ASSUME NEW p \in Peer, SendClosed(p)
       PROVE  Evidence'
    <2>1. WaiterEvidence' /\ AckedIsAccepted'
      <3>1. send[p].msg \in Message /\ UNCHANGED accepted
        BY <1>6 DEF SendClosed, TypeOK, SendTypeOK
      <3>2. QED
        BY <1>6, <3>1, ReturnEvidence DEF SendClosed
    <2>2. QueueEvidence' /\ NetEvidence' /\ RecvEvidence'
      BY <1>6, GenuineUnchanged
         DEF Evidence, SendClosed, QueueEvidence, NetEvidence, RecvEvidence, Return
    <2>3. QED
      BY <2>1, <2>2 DEF Evidence
  <1>7. ASSUME NEW p \in Peer, WriteAck(p)
       PROVE  Evidence'
    <2>1. QueueEvidence' /\ NetEvidence'
      <3> DEFINE s == outAck[p]
      <3>1. s \in Seq(Genuine(p)) /\ s # <<>>
        BY <1>7 DEF WriteAck, Evidence, QueueEvidence
      <3>2. Head(s) \in Genuine(p) /\ Tail(s) \in Seq(Genuine(p))
        BY <3>1
      <3>3. NetEvidence'
        BY <1>7, <3>2, WriteFrameEvidence DEF WriteAck
      <3>4. UNCHANGED <<outbound, accepted>> /\ outAck' = [outAck EXCEPT ![p] = Tail(s)]
        BY <1>7 DEF WriteAck, WriteFrame
      <3> DEFINE v == Tail(s)
      <3>5. v \in Seq(Genuine(p)) /\ outAck' = [outAck EXCEPT ![p] = v]
        BY <3>2, <3>4
      <3> HIDE DEF s, v
      <3>6. QED
        BY <3>3, <3>4, <3>5, GenuineUnchanged DEF Evidence, QueueEvidence, TypeOK, QueueTypeOK
    <2>2. RecvEvidence' /\ WaiterEvidence' /\ AckedIsAccepted'
      BY <1>7
         DEF Evidence, WriteAck, RecvEvidence, WaiterEvidence, AckedIsAccepted, WriteFrame
    <2>3. QED
      BY <2>1, <2>2 DEF Evidence
  <1>8. ASSUME NEW p \in Peer, PollAcks(p)
       PROVE  Evidence'
    <2>1. QueueEvidence' /\ NetEvidence' /\ RecvEvidence' /\ WaiterEvidence' /\ AckedIsAccepted'
      BY <1>8, GenuineUnchanged
         DEF Evidence, PollAcks, QueueEvidence, NetEvidence, RecvEvidence, WaiterEvidence, AckedIsAccepted
    <2>2. QED
      BY <2>1 DEF Evidence
  <1>9. ASSUME NEW p \in Peer, WriteData(p)
       PROVE  Evidence'
    <2>1. QueueEvidence' /\ NetEvidence'
      <3> DEFINE s == outbound[p]
      <3>1. s \in Seq(Genuine(p)) /\ s # <<>>
        BY <1>9 DEF WriteData, Evidence, QueueEvidence
      <3>2. Head(s) \in Genuine(p) /\ Tail(s) \in Seq(Genuine(p))
        BY <3>1
      <3>3. NetEvidence'
        BY <1>9, <3>2, WriteFrameEvidence DEF WriteData
      <3>4. UNCHANGED <<outAck, accepted>> /\ outbound' = [outbound EXCEPT ![p] = Tail(s)]
        BY <1>9 DEF WriteData, WriteFrame
      <3> DEFINE v == Tail(s)
      <3>5. v \in Seq(Genuine(p)) /\ outbound' = [outbound EXCEPT ![p] = v]
        BY <3>2, <3>4
      <3> HIDE DEF s, v
      <3>6. QED
        BY <3>3, <3>4, <3>5, GenuineUnchanged DEF Evidence, QueueEvidence, TypeOK, QueueTypeOK
    <2>2. RecvEvidence' /\ WaiterEvidence' /\ AckedIsAccepted'
      BY <1>9
         DEF Evidence, WriteData, RecvEvidence, WaiterEvidence, AckedIsAccepted, WriteFrame
    <2>3. QED
      BY <2>1, <2>2 DEF Evidence
  <1>10. ASSUME NEW p \in Peer, WriteIdle(p)
       PROVE  Evidence'
    <2>1. QueueEvidence' /\ NetEvidence' /\ RecvEvidence' /\ WaiterEvidence' /\ AckedIsAccepted'
      BY <1>10, GenuineUnchanged
         DEF Evidence, WriteIdle, QueueEvidence, NetEvidence, RecvEvidence, WaiterEvidence, AckedIsAccepted
    <2>2. QED
      BY <2>1 DEF Evidence
  <1>11. ASSUME NEW p \in Peer, WriterExit(p)
       PROVE  Evidence'
    <2>1. QueueEvidence' /\ NetEvidence' /\ RecvEvidence' /\ WaiterEvidence' /\ AckedIsAccepted'
      BY <1>11, GenuineUnchanged
         DEF Evidence, WriterExit, QueueEvidence, NetEvidence, RecvEvidence, WaiterEvidence, AckedIsAccepted
    <2>2. QED
      BY <2>1 DEF Evidence
  <1>12. ASSUME NEW p \in Peer, Close(p)
       PROVE  Evidence'
    <2>1. QueueEvidence' /\ NetEvidence' /\ RecvEvidence' /\ WaiterEvidence' /\ AckedIsAccepted'
      BY <1>12, GenuineUnchanged
         DEF Evidence, Close, QueueEvidence, NetEvidence, RecvEvidence, WaiterEvidence, AckedIsAccepted
    <2>2. QED
      BY <2>1 DEF Evidence
  <1>13. ASSUME NEW p \in Peer, NEW t \in Track, ReadAck(p, t)
       PROVE  Evidence'
    <2>1. NetEvidence'
      <3>1. UNCHANGED accepted
        BY <1>13 DEF ReadAck
      <3>2. QED
        BY <1>13, <3>1, TakeFrameEvidence, GenuineUnchanged DEF ReadAck, NetEvidence
    <2>2. WaiterEvidence'
      <3> DEFINE f == Head(net[Other(p)][t])
      <3>1. f.crc \in accepted[Other(p)]
        BY <1>13, TakeFrameEvidence DEF ReadAck, Genuine
      <3>2. (waiter' = [waiter EXCEPT ![p] = f.crc] \/ UNCHANGED waiter) /\ UNCHANGED accepted
        BY <1>13 DEF ReadAck
      <3> HIDE DEF f
      <3>3. QED
        BY <3>1, <3>2 DEF Evidence, WaiterEvidence, TypeOK, SendTypeOK
    <2>3. QueueEvidence' /\ RecvEvidence' /\ AckedIsAccepted'
      BY <1>13, GenuineUnchanged
         DEF Evidence, ReadAck, QueueEvidence, RecvEvidence, AckedIsAccepted, TakeFrame
    <2>4. QED
      BY <2>1, <2>2, <2>3 DEF Evidence
  <1>14. ASSUME NEW p \in Peer, NEW t \in Track, ReadDuplicate(p, t)
       PROVE  Evidence'
    <2>1. NetEvidence'
      <3>1. UNCHANGED accepted
        BY <1>14 DEF ReadDuplicate
      <3>2. QED
        BY <1>14, <3>1, TakeFrameEvidence, GenuineUnchanged DEF ReadDuplicate, NetEvidence
    <2>2. RecvEvidence'
      <3> DEFINE f == Head(net[Other(p)][t])
      <3>1. f.crc \in accepted[p]
        BY <1>14 DEF ReadDuplicate, IsDelivered, Evidence, RecvEvidence
      <3>2. SetReader(p, t, "ack", f, TRUE) /\ UNCHANGED <<delivered, accepted>>
        BY <1>14 DEF ReadDuplicate
      <3> HIDE DEF f
      <3>3. \A q \in Peer, u \in Track :
              reader'[q][u] = reader[q][u] \/ (q = p /\ reader'[q][u].crc = f.crc)
        BY <3>2 DEF SetReader, TypeOK, RecvTypeOK
      <3>4. QED
        BY <3>1, <3>2, <3>3 DEF Evidence, RecvEvidence
    <2>3. QueueEvidence' /\ WaiterEvidence' /\ AckedIsAccepted'
      BY <1>14, GenuineUnchanged
         DEF Evidence, ReadDuplicate, QueueEvidence, WaiterEvidence, AckedIsAccepted, TakeFrame
    <2>4. QED
      BY <2>1, <2>2, <2>3 DEF Evidence
  <1>15. ASSUME NEW p \in Peer, NEW t \in Track, ReadFragment(p, t)
       PROVE  Evidence'
    <2>1. NetEvidence'
      <3>1. UNCHANGED accepted
        BY <1>15 DEF ReadFragment
      <3>2. QED
        BY <1>15, <3>1, TakeFrameEvidence, GenuineUnchanged DEF ReadFragment, NetEvidence
    <2>2. QueueEvidence' /\ RecvEvidence' /\ WaiterEvidence' /\ AckedIsAccepted'
      BY <1>15, GenuineUnchanged
         DEF Evidence, ReadFragment, QueueEvidence, RecvEvidence, WaiterEvidence, AckedIsAccepted, TakeFrame
    <2>3. QED
      BY <2>1, <2>2 DEF Evidence
  <1>16. ASSUME NEW p \in Peer, NEW t \in Track, ReadLast(p, t)
       PROVE  Evidence'
    <2>1. QueueEvidence' /\ NetEvidence' /\ RecvEvidence' /\ WaiterEvidence' /\ AckedIsAccepted'
      <3> DEFINE f == Head(net[Other(p)][t])
      <3>1. UNCHANGED <<outbound, outAck, waiter, outcome>>
        BY <1>16 DEF ReadLast, TakeFrame
      <3>2. CASE UNCHANGED <<delivered, accepted, reader>>
        <4>1. NetEvidence'
          BY <1>16, <3>2, TakeFrameEvidence, GenuineUnchanged DEF ReadLast, NetEvidence
        <4>2. QueueEvidence'
          BY <3>1, <3>2, GenuineUnchanged DEF Evidence, QueueEvidence
        <4>3. QED
          BY <3>1, <3>2, <4>1, <4>2 DEF Evidence, RecvEvidence, WaiterEvidence, AckedIsAccepted
      <3>3. CASE /\ MarkDelivered(p, f)
                 /\ accepted' = [accepted EXCEPT ![p] = @ \cup {f.crc}]
                 /\ SetReader(p, t, "handoff", f, \A g \in Partial(p, f) : g.intact)
        <4>1. \A q \in Peer : accepted[q] \subseteq accepted'[q]
          BY <3>3 DEF TypeOK, RecvTypeOK
        <4>2. \A q \in Peer : Genuine(q) \subseteq Genuine(q)'
          BY <4>1 DEF Genuine
        <4>3. NetEvidence'
          BY <1>16, <4>2, TakeFrameEvidence, SeqMonotone DEF ReadLast, NetEvidence
        <4>4. QueueEvidence'
          BY <3>1, <4>2, SeqMonotone DEF Evidence, QueueEvidence
        <4>5. WaiterEvidence' /\ AckedIsAccepted'
          BY <3>1, <4>1, OtherPeer DEF Evidence, WaiterEvidence, AckedIsAccepted
        <4> HIDE DEF f
        <4>6. f.crc \in accepted'[p]
          BY <3>3 DEF TypeOK, RecvTypeOK
        <4>7. \A q \in Peer : \A d \in delivered'[q] : d.crc \in accepted'[q]
          BY <3>3, <4>1, <4>6 DEF MarkDelivered, Evidence, RecvEvidence, TypeOK, RecvTypeOK
        <4>8. \A q \in Peer, u \in Track :
                reader'[q][u].pc # "read" => reader'[q][u].crc \in accepted'[q]
          <5>1. \A q \in Peer, u \in Track :
                  reader'[q][u] = reader[q][u] \/ (q = p /\ reader'[q][u].crc = f.crc)
            BY <3>3 DEF SetReader, TypeOK, RecvTypeOK
          <5>2. QED
            BY <4>1, <4>6, <5>1 DEF Evidence, RecvEvidence
        <4>9. QED
          BY <4>3, <4>4, <4>5, <4>7, <4>8 DEF RecvEvidence
      <3>4. QED
        BY <1>16, <3>2, <3>3 DEF ReadLast
    <2>2. QED
      BY <2>1 DEF Evidence
  <1>17. ASSUME NEW p \in Peer, NEW t \in Track, HandOff(p, t)
       PROVE  Evidence'
    <2>1. RecvEvidence'
      <3>1. UNCHANGED <<delivered, accepted>>
        BY <1>17 DEF HandOff
      <3>2. \A q \in Peer, u \in Track :
              reader'[q][u].pc # "read" => reader[q][u].pc # "read" /\ reader'[q][u].crc = reader[q][u].crc
        BY <1>17 DEF HandOff, TypeOK, RecvTypeOK
      <3>3. QED
        BY <3>1, <3>2 DEF Evidence, RecvEvidence
    <2>2. QueueEvidence' /\ NetEvidence' /\ WaiterEvidence' /\ AckedIsAccepted'
      BY <1>17, GenuineUnchanged
         DEF Evidence, HandOff, QueueEvidence, NetEvidence, WaiterEvidence, AckedIsAccepted
    <2>3. QED
      BY <2>1, <2>2 DEF Evidence
  <1>18. ASSUME NEW p \in Peer, NEW t \in Track, SendAck(p, t)
       PROVE  Evidence'
    <2>1. RecvEvidence'
      <3>1. UNCHANGED <<delivered, accepted>> /\ reader' = [reader EXCEPT ![p][t] = IdleReader]
        BY <1>18 DEF SendAck
      <3>2. \A q \in Peer, u \in Track :
              reader'[q][u].pc # "read" => reader'[q][u] = reader[q][u]
        BY <3>1 DEF IdleReader, TypeOK, RecvTypeOK
      <3>3. QED
        BY <3>1, <3>2 DEF Evidence, RecvEvidence
    <2>2. QueueEvidence'
      <3> DEFINE f == AckFrame(reader[p][t].seq, reader[p][t].crc)
                 s == Append(outAck[p], f)
      <3>1. f \in Genuine(p)
        BY <1>18 DEF SendAck, AckFrame, Frame, Genuine, TypeOK, RecvTypeOK, Evidence, RecvEvidence
      <3>2. (UNCHANGED outAck \/ outAck' = [outAck EXCEPT ![p] = s]) /\ UNCHANGED <<outbound, accepted>>
        BY <1>18 DEF SendAck
      <3> HIDE DEF f
      <3>3. s \in Seq(Genuine(p))
        BY <3>1, AppendProperties DEF Evidence, QueueEvidence
      <3> HIDE DEF s
      <3>4. QED
        BY <3>2, <3>3, GenuineUnchanged DEF Evidence, QueueEvidence, TypeOK, QueueTypeOK
    <2>3. NetEvidence' /\ WaiterEvidence' /\ AckedIsAccepted'
      BY <1>18, GenuineUnchanged
         DEF Evidence, SendAck, NetEvidence, WaiterEvidence, AckedIsAccepted
    <2>4. QED
      BY <2>1, <2>2, <2>3 DEF Evidence
  <1>19. ASSUME NEW p \in Peer, NEW t \in Track, Damage(p, t)
       PROVE  Evidence'
    <2>1. NetEvidence'
      <3> DEFINE s == net[p][t]
                 f == [s[1] EXCEPT !.intact = FALSE]
                 v == [s EXCEPT ![1] = f]
      <3>1. s \in Seq(Genuine(p)) /\ s # <<>> /\ 1 \in 1 .. Len(s)
        BY <1>19 DEF Evidence, NetEvidence, Damage
      <3>2. s[1] \in Genuine(p)
        BY <3>1
      <3>3. f \in Genuine(p)
        BY <3>2 DEF Genuine, Frame
      <3>4. v \in Seq(Genuine(p))
        BY <3>1, <3>3, ExceptSeq
      <3>5. net' = [net EXCEPT ![p][t] = v] /\ UNCHANGED accepted
        BY <1>19 DEF Damage
      <3> HIDE DEF v, f, s
      <3>6. QED
        BY <3>4, <3>5, GenuineUnchanged DEF Evidence, NetEvidence, TypeOK, NetTypeOK
    <2>2. QueueEvidence' /\ RecvEvidence' /\ WaiterEvidence' /\ AckedIsAccepted'
      BY <1>19, GenuineUnchanged
         DEF Evidence, Damage, QueueEvidence, RecvEvidence, WaiterEvidence, AckedIsAccepted
    <2>3. QED
      BY <2>1, <2>2 DEF Evidence
  <1>20. ASSUME NEW p \in Peer, Retrack(p)
       PROVE  Evidence'
    <2>1. QueueEvidence' /\ NetEvidence' /\ RecvEvidence' /\ WaiterEvidence' /\ AckedIsAccepted'
      BY <1>20, GenuineUnchanged
         DEF Evidence, Retrack, QueueEvidence, NetEvidence, RecvEvidence, WaiterEvidence, AckedIsAccepted
    <2>2. QED
      BY <2>1 DEF Evidence
  <1>21. ASSUME NEW p \in Peer, Restart(p)
       PROVE  Evidence'
    <2>1. QueueEvidence' /\ NetEvidence' /\ RecvEvidence' /\ WaiterEvidence' /\ AckedIsAccepted'
      <3>1. \A S : <<>> \in Seq(S)
        OBVIOUS
      <3>2. UNCHANGED <<accepted, outcome>> /\ AckedIsAccepted'
        BY <1>21 DEF Restart, Evidence, AckedIsAccepted
      <3>3. QueueEvidence'
        BY <1>21, <3>1, <3>2, GenuineUnchanged
           DEF Restart, Evidence, QueueEvidence, TypeOK, QueueTypeOK
      <3>4. NetEvidence'
        BY <1>21, <3>1, <3>2, GenuineUnchanged
           DEF Restart, Evidence, NetEvidence, TypeOK, NetTypeOK
      <3>5. RecvEvidence'
        BY <1>21, <3>2 DEF Restart, Evidence, RecvEvidence, TypeOK, RecvTypeOK, IdleReader
      <3>6. WaiterEvidence'
        BY <1>21, <3>2 DEF Restart, Evidence, WaiterEvidence, TypeOK, SendTypeOK
      <3>7. QED
        BY <3>2, <3>3, <3>4, <3>5, <3>6
    <2>2. QED
      BY <2>1 DEF Evidence
  <1>22. CASE UNCHANGED vars
    BY <1>22, GenuineUnchanged
       DEF Evidence, QueueEvidence, NetEvidence, RecvEvidence, WaiterEvidence, AckedIsAccepted
  <1>23. QED
    BY <1>1, <1>2, <1>3, <1>4, <1>5, <1>6, <1>7, <1>8, <1>9, <1>10, <1>11, <1>12, <1>13, <1>14, <1>15, <1>16, <1>17, <1>18, <1>19, <1>20, <1>21, <1>22
       DEF Next, SendStep, WriterStep, ReaderStep, CarrierStep

(* No Send reports success for a message the peer's transport did not      *)
(* assemble and enter in delivered, whatever the carrier loses, corrupts   *)
(* or moves to other tracks and however often either process restarts.     *)
THEOREM AckedAccepted == Spec => []AckedIsAccepted
  <1>1. Evidence => AckedIsAccepted
    BY DEF Evidence
  <1>2. QED
    BY <1>1, InitEvidence, NextEvidence, TypeCorrect, PTL DEF Spec

-----------------------------------------------------------------------------
(***************************************************************************)
(* From here on one goroutine reads each peer's frames: the carrier keeps  *)
(* the one track it negotiated (NTracks = 1, so no peer moves to another   *)
(* track and no process restarts). Everything else is arbitrary: messages, *)
(* fragments, attempts, capacities, the size at which delivered is emptied,*)
(* closing, loss and damage. Then OnData gets the messages in order and    *)
(* once, an acknowledged message was handed over, and the direction from   *)
(* client to server implements OrderedDelivery.                            *)
(***************************************************************************)
HandedMsgs(p) == {handed[p][i].msg : i \in 1 .. Len(handed[p])}

(* Numbers and messages coincide; a message is pending until its Send      *)
(* returns.                                                                *)
SendOrder == \A p \in Peer :
  /\ nextSeq[p] = msgs[p] /\ msgs[p] <= Len(Fragments)
  /\ send[p].pc # "idle" =>
       msgs[p] \in Message /\ send[p].seq = msgs[p] /\ send[p].msg = msgs[p]
  /\ \A m \in Message : outcome[p][m] = "pending" <=>
       m > msgs[p] \/ (m = msgs[p] /\ send[p].pc # "idle")
  /\ waiter[p] # NoMsg => waiter[p] \in HandedMsgs(Other(p))
  /\ \A m \in Message : outcome[p][m] = "ok" => m \in HandedMsgs(Other(p))

(* What peer p may have on its way to the other peer: acknowledgements of  *)
(* messages it handed over, and fragments no older than what the other     *)
(* peer accepted.                                                          *)
Proper(p) == {f \in Frame :
  /\ f.typ = "ack" => f.crc \in HandedMsgs(p)
  /\ f.typ = "data" => /\ f.seq = f.crc /\ f.crc <= msgs[p]
                       /\ \A a \in accepted[Other(p)] : a <= f.crc}
Fragment(p) == {f \in Proper(p) : f.typ = "data"}

(* Fragments leave and travel in the order of their messages.              *)
Sorted(s) == \A i \in 1 .. Len(s), j \in 1 .. Len(s) :
  i < j /\ s[i].typ = "data" /\ s[j].typ = "data" => s[i].crc <= s[j].crc
Precedes(s, w) == \A i \in 1 .. Len(s), j \in 1 .. Len(w) :
  s[i].typ = "data" /\ w[j].typ = "data" => s[i].crc <= w[j].crc
Stream(p) ==
  /\ outbound[p] \in Seq(Fragment(p)) /\ outAck[p] \in Seq({f \in Proper(p) : f.typ = "ack"})
  /\ net[p][1] \in Seq(Proper(p))
  /\ Sorted(outbound[p]) /\ Sorted(net[p][1]) /\ Precedes(net[p][1], outbound[p])
StreamOrder == \A p \in Peer : Stream(p)

(* The newest message accepted is still in delivered, however often the    *)
(* map was emptied; what is accepted was handed over, or is about to be by *)
(* the one reader.                                                         *)
Recv(p) ==
  LET r == reader[p][1] IN
  /\ r.pc # "read" => r.crc \in accepted[p]
  /\ r.pc = "handoff" => r.intact /\ \A h \in HandedMsgs(p) : h < r.crc
  /\ r.pc = "ack" => r.crc \in HandedMsgs(p)
  /\ \A d \in delivered[p] : d.crc \in HandedMsgs(p) \/ (r.pc = "handoff" /\ d.crc = r.crc)
  /\ \A a \in accepted[p] : \/ [seq |-> a, crc |-> a] \in delivered[p]
                            \/ \E b \in accepted[p] : a < b
  /\ HandedMsgs(p) \subseteq accepted[p]
  /\ \A a \in accepted[p] : a <= msgs[Other(p)]
RecvOrder == \A p \in Peer : Recv(p)

OrderInv == SendOrder /\ StreamOrder /\ RecvOrder /\ HandedInOrder


-----------------------------------------------------------------------------
(* Sequences of frames: what is taken from the front or put at the back.   *)
LEMMA SeqIn ==
  ASSUME NEW S, NEW T, NEW s \in Seq(S), \A i \in 1 .. Len(s) : s[i] \in T
  PROVE  s \in Seq(T)
  OBVIOUS

LEMMA ElementOf ==
  ASSUME NEW S, NEW s \in Seq(S)
  PROVE  \A i \in 1 .. Len(s) : s[i] \in S
  OBVIOUS

LEMMA FirstAndRest ==
  ASSUME NEW S, NEW s \in Seq(S), s # <<>>
  PROVE  /\ Head(s) = s[1] /\ 1 \in 1 .. Len(s) /\ Head(s) \in S
         /\ Tail(s) \in Seq(S)
         /\ \A i \in 1 .. Len(Tail(s)) : i + 1 \in 1 .. Len(s) /\ Tail(s)[i] = s[i + 1]
  OBVIOUS

LEMMA SortedTail ==
  ASSUME NEW s \in Seq(Frame), s # <<>>, Sorted(s)
  PROVE  /\ Sorted(Tail(s))
         /\ Head(s).typ = "data" =>
              \A i \in 1 .. Len(Tail(s)) : Tail(s)[i].typ = "data" => Head(s).crc <= Tail(s)[i].crc
  <1> DEFINE w == Tail(s)
  <1>1. /\ Head(s) = s[1] /\ 1 \in 1 .. Len(s)
        /\ \A i \in 1 .. Len(w) : i + 1 \in 1 .. Len(s) /\ w[i] = s[i + 1]
    BY FirstAndRest
  <1>2. Len(w) \in Nat
    BY FirstAndRest
  <1> HIDE DEF w
  <1>3. Sorted(w)
    <2> SUFFICES ASSUME NEW i \in 1 .. Len(w), NEW j \in 1 .. Len(w), i < j,
                        w[i].typ = "data", w[j].typ = "data"
                 PROVE  w[i].crc <= w[j].crc
      BY DEF Sorted
    <2>1. i + 1 < j + 1
      BY <1>2
    <2>2. QED
      BY <1>1, <2>1 DEF Sorted
  <1>4. ASSUME NEW i \in 1 .. Len(w), w[i].typ = "data", Head(s).typ = "data"
        PROVE  Head(s).crc <= w[i].crc
    <2>1. 1 < i + 1
      BY <1>2
    <2>2. QED
      BY <1>1, <1>4, <2>1 DEF Sorted
  <1>5. QED
    BY <1>3, <1>4 DEF w

LEMMA SortedAppend ==
  ASSUME NEW s \in Seq(Frame), NEW f \in Frame, Sorted(s),
         f.typ = "data" => \A i \in 1 .. Len(s) : s[i].typ = "data" => s[i].crc <= f.crc
  PROVE  Sorted(Append(s, f))
  <1> DEFINE w == Append(s, f)
  <1>1. /\ Len(w) = Len(s) + 1 /\ Len(s) \in Nat /\ w[Len(s) + 1] = f
        /\ \A i \in 1 .. Len(s) : w[i] = s[i]
    OBVIOUS
  <1> HIDE DEF w
  <1>2. ASSUME NEW i \in 1 .. Len(w), NEW j \in 1 .. Len(w), i < j,
               w[i].typ = "data", w[j].typ = "data"
        PROVE  w[i].crc <= w[j].crc
    <2>1. i \in 1 .. Len(s)
      BY <1>1, <1>2
    <2>2. CASE j \in 1 .. Len(s)
      BY <1>1, <1>2, <2>1, <2>2 DEF Sorted
    <2>3. CASE j = Len(s) + 1
      BY <1>1, <1>2, <2>1, <2>3
    <2>4. QED
      BY <1>1, <2>2, <2>3
  <1>3. QED
    BY <1>2 DEF Sorted, w

LEMMA PrecedesTail ==
  ASSUME NEW s \in Seq(Frame), NEW w \in Seq(Frame), Precedes(s, w)
  PROVE  /\ s # <<>> => Precedes(Tail(s), w)
         /\ w # <<>> => Precedes(s, Tail(w))
  <1>1. ASSUME s # <<>> PROVE Precedes(Tail(s), w)
    <2> DEFINE u == Tail(s)
    <2>1. \A i \in 1 .. Len(u) : i + 1 \in 1 .. Len(s) /\ u[i] = s[i + 1]
      BY <1>1, FirstAndRest
    <2> HIDE DEF u
    <2>2. Precedes(u, w)
      BY <2>1 DEF Precedes
    <2>3. QED
      BY <2>2 DEF u
  <1>2. ASSUME w # <<>> PROVE Precedes(s, Tail(w))
    <2> DEFINE u == Tail(w)
    <2>1. \A i \in 1 .. Len(u) : i + 1 \in 1 .. Len(w) /\ u[i] = w[i + 1]
      BY <1>2, FirstAndRest
    <2> HIDE DEF u
    <2>2. Precedes(s, u)
      BY <2>1 DEF Precedes
    <2>3. QED
      BY <2>2 DEF u
  <1>3. QED
    BY <1>1, <1>2

LEMMA PrecedesAppend ==
  ASSUME NEW s \in Seq(Frame), NEW w \in Seq(Frame), NEW f \in Frame, Precedes(s, w)
  PROVE  /\ (f.typ = "data" => \A i \in 1 .. Len(s) : s[i].typ = "data" => s[i].crc <= f.crc)
              => Precedes(s, Append(w, f))
         /\ (f.typ = "data" => \A i \in 1 .. Len(w) : w[i].typ = "data" => f.crc <= w[i].crc)
              => Precedes(Append(s, f), w)
  <1>1. ASSUME NEW v \in Seq(Frame)
        PROVE  /\ Len(Append(v, f)) = Len(v) + 1 /\ Append(v, f)[Len(v) + 1] = f
               /\ \A i \in 1 .. Len(Append(v, f)) :
                    i = Len(v) + 1 \/ (i \in 1 .. Len(v) /\ Append(v, f)[i] = v[i])
    OBVIOUS
  <1>2. ASSUME f.typ = "data" => \A i \in 1 .. Len(s) : s[i].typ = "data" => s[i].crc <= f.crc
        PROVE  Precedes(s, Append(w, f))
    <2> DEFINE u == Append(w, f)
    <2>1. \A i \in 1 .. Len(u) : u[i] = f \/ (i \in 1 .. Len(w) /\ u[i] = w[i])
      BY <1>1
    <2> HIDE DEF u
    <2>2. Precedes(s, u)
      BY <1>2, <2>1 DEF Precedes
    <2>3. QED
      BY <2>2 DEF u
  <1>3. ASSUME f.typ = "data" => \A i \in 1 .. Len(w) : w[i].typ = "data" => f.crc <= w[i].crc
        PROVE  Precedes(Append(s, f), w)
    <2> DEFINE u == Append(s, f)
    <2>1. \A i \in 1 .. Len(u) : u[i] = f \/ (i \in 1 .. Len(s) /\ u[i] = s[i])
      BY <1>1
    <2> HIDE DEF u
    <2>2. Precedes(u, w)
      BY <1>3, <2>1 DEF Precedes
    <2>3. QED
      BY <2>2 DEF u
  <1>4. QED
    BY <1>2, <1>3


-----------------------------------------------------------------------------
(* With one track every peer has one reader and no process restarts.       *)
LEMMA OneReader == NTracks = 1 => 1 \in Track /\ \A t \in Track : t = 1
  BY DEF Track

LEMMA HandedSame ==
  ASSUME UNCHANGED handed
  PROVE  \A p \in Peer : HandedMsgs(p)' = HandedMsgs(p)
  BY DEF HandedMsgs

LEMMA HandedGrows ==
  ASSUME TypeOK, NEW p \in Peer, NEW t \in Track, HandOff(p, t)
  PROVE  /\ HandedMsgs(p)' = HandedMsgs(p) \cup {reader[p][t].crc}
         /\ \A q \in Peer : HandedMsgs(q) \subseteq HandedMsgs(q)'
  <1> DEFINE r == reader[p][t]
             x == [msg |-> r.crc, intact |-> r.intact]
             s == handed[p]
             w == Append(s, x)
  <1>1. s \in Seq([msg : Message, intact : BOOLEAN]) /\ x \in [msg : Message, intact : BOOLEAN]
    BY DEF TypeOK, RecvTypeOK, HandOff
  <1>2. /\ Len(w) = Len(s) + 1 /\ Len(s) \in Nat /\ w[Len(s) + 1] = x
        /\ \A i \in 1 .. Len(s) : w[i] = s[i]
    BY <1>1
  <1>3. handed' = [handed EXCEPT ![p] = w]
    BY DEF HandOff
  <1>4. x.msg = r.crc
    OBVIOUS
  <1> HIDE DEF w, x
  <1>5. handed'[p] = w /\ \A q \in Peer : q # p => handed'[q] = handed[q]
    BY <1>3 DEF TypeOK, RecvTypeOK
  <1>6. HandedMsgs(p)' = HandedMsgs(p) \cup {r.crc}
    <2>1. {w[i].msg : i \in 1 .. Len(w)} = {s[i].msg : i \in 1 .. Len(s)} \cup {r.crc}
      <3>1. 1 .. Len(w) = (1 .. Len(s)) \cup {Len(s) + 1}
        BY <1>2
      <3>2. QED
        BY <1>2, <1>4, <3>1
    <2>2. QED
      BY <1>5, <2>1 DEF HandedMsgs
  <1>7. \A q \in Peer : q # p => HandedMsgs(q)' = HandedMsgs(q)
    BY <1>5 DEF HandedMsgs
  <1>8. QED
    <2>1. \A q \in Peer : q = p \/ HandedMsgs(q)' = HandedMsgs(q)
      BY <1>7
    <2>2. QED
      BY <1>6, <2>1

(* What each part of the invariant depends on.                             *)
LEMMA SendOrderSame ==
  ASSUME SendOrder, UNCHANGED sendVars, \A p \in Peer : HandedMsgs(p) \subseteq HandedMsgs(p)'
  PROVE  SendOrder'
  BY OtherPeer DEF SendOrder

LEMMA ProperGrows ==
  ASSUME TypeOK, UNCHANGED accepted,
         \A p \in Peer : msgs'[p] \in Nat /\ msgs[p] <= msgs'[p],
         \A p \in Peer : HandedMsgs(p) \subseteq HandedMsgs(p)',
         NEW p \in Peer
  PROVE  /\ Proper(p) \subseteq Proper(p)' /\ Fragment(p) \subseteq Fragment(p)'
         /\ {f \in Proper(p) : f.typ = "ack"} \subseteq {f \in Proper(p)' : f.typ = "ack"}
  <1>1. ASSUME NEW f \in Proper(p) PROVE f \in Proper(p)'
    <2>1. f \in Frame /\ f.crc \in Int
      BY DEF Proper, Frame, Message
    <2>2. msgs[p] \in Nat
      BY DEF TypeOK, SendTypeOK
    <2>3. QED
      BY <2>1, <2>2 DEF Proper
  <1>2. QED
    BY <1>1 DEF Fragment

LEMMA StreamOrderSame ==
  ASSUME TypeOK, StreamOrder, UNCHANGED <<accepted, outbound, outAck, net>>,
         \A p \in Peer : msgs'[p] \in Nat /\ msgs[p] <= msgs'[p],
         \A p \in Peer : HandedMsgs(p) \subseteq HandedMsgs(p)'
  PROVE  StreamOrder'
  <1> SUFFICES ASSUME NEW p \in Peer
               PROVE  /\ outbound'[p] \in Seq(Fragment(p)')
                      /\ outAck'[p] \in Seq({f \in Proper(p)' : f.typ = "ack"})
                      /\ net'[p][1] \in Seq(Proper(p)')
                      /\ Sorted(outbound'[p]) /\ Sorted(net'[p][1])
                      /\ Precedes(net'[p][1], outbound'[p])
    BY DEF StreamOrder, Stream, Sorted, Precedes
  <1>1. /\ Proper(p) \subseteq Proper(p)' /\ Fragment(p) \subseteq Fragment(p)'
        /\ {f \in Proper(p) : f.typ = "ack"} \subseteq {f \in Proper(p)' : f.typ = "ack"}
    BY ProperGrows
  <1>2. /\ outbound[p] \in Seq(Fragment(p)) /\ net[p][1] \in Seq(Proper(p))
        /\ outAck[p] \in Seq({f \in Proper(p) : f.typ = "ack"})
        /\ Sorted(outbound[p]) /\ Sorted(net[p][1]) /\ Precedes(net[p][1], outbound[p])
    BY DEF StreamOrder, Stream
  <1>3. /\ outbound[p] \in Seq(Fragment(p)') /\ net[p][1] \in Seq(Proper(p)')
        /\ outAck[p] \in Seq({f \in Proper(p)' : f.typ = "ack"})
    BY <1>1, <1>2, SeqMonotone
  <1>4. QED
    BY <1>2, <1>3

LEMMA RecvOrderSame ==
  ASSUME TypeOK, RecvOrder, UNCHANGED recvVars,
         \A p \in Peer : msgs'[p] \in Nat /\ msgs[p] <= msgs'[p]
  PROVE  RecvOrder'
  <1>1. \A p \in Peer : HandedMsgs(p)' = HandedMsgs(p)
    BY HandedSame
  <1>2. ASSUME NEW p \in Peer, NEW a \in accepted[p] PROVE a <= msgs'[Other(p)]
    BY OtherPeer DEF RecvOrder, Recv, TypeOK, SendTypeOK, RecvTypeOK, Message
  <1>3. QED
    BY <1>1, <1>2 DEF RecvOrder, Recv

LEMMA SameHanded ==
  ASSUME HandedInOrder, UNCHANGED handed
  PROVE  HandedInOrder'
  BY DEF HandedInOrder


-----------------------------------------------------------------------------
(* The sender's part: what the steps of Send do to SendOrder.              *)
LEMMA ReturnOrder ==
  ASSUME TypeOK, SendOrder, NEW p \in Peer, NEW r \in {"ok", "ErrAckTimeout", "ErrTransportClosed"},
         send[p].pc # "idle", Return(p, r), UNCHANGED <<nextSeq, msgs, handed>>,
         r = "ok" => send[p].msg \in HandedMsgs(Other(p))
  PROVE  SendOrder'
  <1> DEFINE m == send[p].msg
  <1>1. m \in Message /\ m = msgs[p]
    BY DEF SendOrder
  <1>2. /\ send' = [send EXCEPT ![p] = NoSend] /\ waiter' = [waiter EXCEPT ![p] = NoMsg]
        /\ outcome' = [outcome EXCEPT ![p][m] = r]
    BY DEF Return
  <1>3. r = "ok" => m \in HandedMsgs(Other(p))
    OBVIOUS
  <1> HIDE DEF m
  <1>4. /\ send'[p].pc = "idle" /\ waiter'[p] = NoMsg
        /\ \A q \in Peer : q # p => send'[q] = send[q] /\ waiter'[q] = waiter[q]
        /\ \A q \in Peer, n \in Message :
             outcome'[q][n] = IF q = p /\ n = m THEN r ELSE outcome[q][n]
    BY <1>1, <1>2 DEF TypeOK, SendTypeOK, NoSend
  <1>5. \A q \in Peer : HandedMsgs(Other(q))' = HandedMsgs(Other(q))
    BY HandedSame, OtherPeer
  <1>6. msgs[p] \in Nat /\ \A n \in Message : n \in Nat
    BY DEF TypeOK, SendTypeOK, Message
  <1>7. \A q \in Peer, n \in Message :
          outcome'[q][n] = "pending" <=> n > msgs[q] \/ (n = msgs[q] /\ send'[q].pc # "idle")
    BY <1>1, <1>4, <1>6 DEF SendOrder
  <1>8. \A q \in Peer, n \in Message : outcome'[q][n] = "ok" => n \in HandedMsgs(Other(q))
    BY <1>3, <1>4 DEF SendOrder
  <1>9. QED
    BY <1>4, <1>5, <1>7, <1>8 DEF SendOrder

LEMMA KeepsSending ==
  ASSUME TypeOK, SendOrder, NEW p \in Peer, NEW s, NEW w, send[p].pc # "idle",
         s.pc # "idle", s.seq = send[p].seq, s.msg = send[p].msg,
         send' = [send EXCEPT ![p] = s], waiter' = [waiter EXCEPT ![p] = w],
         w # NoMsg => w \in HandedMsgs(Other(p)), UNCHANGED <<nextSeq, msgs, outcome, handed>>
  PROVE  SendOrder'
  <1>1. /\ send'[p] = s /\ waiter'[p] = w
        /\ \A q \in Peer : q # p => send'[q] = send[q] /\ waiter'[q] = waiter[q]
    BY DEF TypeOK, SendTypeOK
  <1>2. \A q \in Peer : HandedMsgs(Other(q))' = HandedMsgs(Other(q))
    BY HandedSame, OtherPeer
  <1>3. QED
    BY <1>1, <1>2 DEF SendOrder

LEMMA FailAttemptOrder ==
  ASSUME TypeOK, SendOrder, NEW p \in Peer, NEW w, send[p].pc = "wait", FailAttempt(p, w),
         w # NoMsg => w \in HandedMsgs(Other(p)), UNCHANGED <<nextSeq, msgs, handed>>
  PROVE  SendOrder'
  <1>1. CASE send[p].attempt < MaxAttempts
    <2> DEFINE s == [send[p] EXCEPT !.pc = "fragments", !.idx = 0, !.attempt = @ + 1]
    <2>1. s.pc # "idle" /\ s.seq = send[p].seq /\ s.msg = send[p].msg
      BY DEF TypeOK, SendTypeOK
    <2>2. /\ send' = [send EXCEPT ![p] = s] /\ waiter' = [waiter EXCEPT ![p] = w]
          /\ UNCHANGED outcome
      BY <1>1 DEF FailAttempt, TypeOK, SendTypeOK
    <2> HIDE DEF s
    <2>3. QED
      BY <2>1, <2>2, KeepsSending
  <1>2. CASE ~(send[p].attempt < MaxAttempts)
    BY <1>2, ReturnOrder DEF FailAttempt
  <1>3. QED
    BY <1>1, <1>2

LEMMA StartSendOrder ==
  ASSUME TypeOK, SendOrder, NEW p \in Peer, StartSend(p)
  PROVE  SendOrder'
  <1> DEFINE n == msgs[p] + 1
             s == [pc |-> "fragments", seq |-> nextSeq[p] + 1, msg |-> n, idx |-> 0, attempt |-> 1]
  <1>1. n \in Message /\ n <= Len(Fragments) /\ msgs[p] \in Nat /\ \A m \in Message : m \in Nat
    BY Bounds DEF StartSend, TypeOK, SendTypeOK, Message
  <1>2. s.pc # "idle" /\ s.seq = n /\ s.msg = n
    BY DEF SendOrder
  <1>3. /\ nextSeq' = [nextSeq EXCEPT ![p] = n] /\ msgs' = [msgs EXCEPT ![p] = n]
        /\ send' = [send EXCEPT ![p] = s] /\ waiter' = [waiter EXCEPT ![p] = NoMsg]
        /\ UNCHANGED <<outcome, handed>> /\ send[p].pc = "idle"
    BY DEF StartSend, SendOrder
  <1>4. n = msgs[p] + 1
    OBVIOUS
  <1> HIDE DEF n, s
  <1>5. /\ nextSeq'[p] = n /\ msgs'[p] = n /\ send'[p] = s /\ waiter'[p] = NoMsg
        /\ \A q \in Peer : q # p =>
             /\ nextSeq'[q] = nextSeq[q] /\ msgs'[q] = msgs[q]
             /\ send'[q] = send[q] /\ waiter'[q] = waiter[q]
    BY <1>3 DEF TypeOK, SendTypeOK
  <1>6. \A q \in Peer : HandedMsgs(Other(q))' = HandedMsgs(Other(q))
    BY <1>3, HandedSame, OtherPeer
  <1>7. \A m \in Message : m > msgs[p] <=> m > n \/ m = n
    BY <1>1, <1>4
  <1>8. \A q \in Peer, m \in Message :
          outcome'[q][m] = "pending" <=> m > msgs'[q] \/ (m = msgs'[q] /\ send'[q].pc # "idle")
    <2> SUFFICES ASSUME NEW q \in Peer, NEW m \in Message
                 PROVE  outcome[q][m] = "pending" <=>
                          m > msgs'[q] \/ (m = msgs'[q] /\ send'[q].pc # "idle")
      BY <1>3
    <2>1. CASE q = p
      BY <1>2, <1>3, <1>5, <1>7, <2>1, <1>1, <1>4 DEF SendOrder
    <2>2. CASE q # p
      BY <1>5, <2>2 DEF SendOrder
    <2>3. QED
      BY <2>1, <2>2
  <1>9. QED
    BY <1>1, <1>2, <1>3, <1>5, <1>6, <1>8 DEF SendOrder

LEMMA QueueFragmentOrder ==
  ASSUME TypeOK, SendOrder, NEW p \in Peer, QueueFragment(p)
  PROVE  SendOrder'
  <1> DEFINE s == IF send[p].idx + 1 < Fragments[send[p].msg]
                  THEN [send[p] EXCEPT !.idx = @ + 1] ELSE [send[p] EXCEPT !.pc = "wait"]
  <1>1. s.pc # "idle" /\ s.seq = send[p].seq /\ s.msg = send[p].msg /\ send[p].pc # "idle"
    BY DEF QueueFragment, TypeOK, SendTypeOK
  <1>2. send' = [send EXCEPT ![p] = s] /\ UNCHANGED <<nextSeq, msgs, outcome, handed, waiter>>
    BY DEF QueueFragment
  <1> HIDE DEF s
  <1>3. waiter' = [waiter EXCEPT ![p] = waiter[p]]
    BY <1>2 DEF TypeOK, SendTypeOK
  <1>4. waiter[p] # NoMsg => waiter[p] \in HandedMsgs(Other(p))
    BY DEF SendOrder
  <1>5. QED
    BY <1>1, <1>2, <1>3, <1>4, KeepsSending


-----------------------------------------------------------------------------
(* The frames' part: what writers, readers and the carrier do to a stream. *)
LEMMA ProperSame ==
  ASSUME NEW p \in Peer, UNCHANGED <<handed, msgs>>, accepted'[Other(p)] = accepted[Other(p)]
  PROVE  Proper(p)' = Proper(p) /\ Fragment(p)' = Fragment(p)
  BY HandedSame DEF Proper, Fragment

LEMMA StreamBecomes ==
  ASSUME NEW p \in Peer, UNCHANGED <<handed, msgs>>, accepted'[Other(p)] = accepted[Other(p)],
         NEW o \in Seq(Fragment(p)), NEW a \in Seq({f \in Proper(p) : f.typ = "ack"}),
         NEW n \in Seq(Proper(p)), Sorted(o), Sorted(n), Precedes(n, o),
         outbound'[p] = o, outAck'[p] = a, net'[p][1] = n
  PROVE  Stream(p)'
  <1>1. Proper(p)' = Proper(p) /\ Fragment(p)' = Fragment(p)
    BY ProperSame
  <1>2. Stream(p)' = (/\ outbound'[p] \in Seq(Fragment(p)')
                      /\ outAck'[p] \in Seq({f \in Proper(p)' : f.typ = "ack"})
                      /\ net'[p][1] \in Seq(Proper(p)')
                      /\ Sorted(outbound'[p]) /\ Sorted(net'[p][1])
                      /\ Precedes(net'[p][1], outbound'[p]))
    BY DEF Stream, Sorted, Precedes
  <1>3. QED
    BY <1>1, <1>2

LEMMA StreamSame ==
  ASSUME NEW p \in Peer, Stream(p), UNCHANGED <<handed, msgs>>,
         accepted'[Other(p)] = accepted[Other(p)], outbound'[p] = outbound[p],
         outAck'[p] = outAck[p], net'[p][1] = net[p][1]
  PROVE  Stream(p)'
  BY StreamBecomes DEF Stream

LEMMA StreamFrames ==
  ASSUME TypeOK, NEW p \in Peer, Stream(p)
  PROVE  /\ Proper(p) \subseteq Frame /\ Fragment(p) \subseteq Proper(p)
         /\ outbound[p] \in Seq(Frame) /\ net[p][1] \in Seq(Frame) /\ outAck[p] \in Seq(Proper(p))
         /\ \A i \in 1 .. Len(outbound[p]) : outbound[p][i] \in Fragment(p)
         /\ \A i \in 1 .. Len(net[p][1]) : net[p][1][i] \in Proper(p)
  <1>1. Proper(p) \subseteq Frame /\ Fragment(p) \subseteq Proper(p)
    BY DEF Proper, Fragment
  <1>2. outbound[p] \in Seq(Fragment(p)) /\ net[p][1] \in Seq(Proper(p))
        /\ outAck[p] \in Seq({f \in Proper(p) : f.typ = "ack"})
    BY DEF Stream
  <1>3. {f \in Proper(p) : f.typ = "ack"} \subseteq Proper(p) /\ Fragment(p) \subseteq Frame
    BY <1>1
  <1>4. outbound[p] \in Seq(Frame) /\ net[p][1] \in Seq(Frame) /\ outAck[p] \in Seq(Proper(p))
    BY <1>1, <1>2, <1>3, SeqMonotone
  <1>5. QED
    BY <1>1, <1>2, <1>4

LEMMA QueueFragmentStream ==
  ASSUME TypeOK, SendOrder, StreamOrder, RecvOrder, NEW p \in Peer, QueueFragment(p)
  PROVE  StreamOrder'
  <1> DEFINE f == DataFrame(send[p].seq, send[p].msg, send[p].idx)
             w == Append(outbound[p], f)
  <1>1. f \in Frame /\ f.typ = "data" /\ f.seq = msgs[p] /\ f.crc = msgs[p]
    BY DEF QueueFragment, SendOrder, TypeOK, SendTypeOK, DataFrame, Frame
  <1>2. \A a \in accepted[Other(p)] : a <= msgs[p]
    BY OtherPeer DEF RecvOrder, Recv
  <1>3. msgs[p] \in Nat
    BY DEF TypeOK, SendTypeOK
  <1> HIDE DEF f
  <1>4. f \in Fragment(p)
    BY <1>1, <1>2, <1>3 DEF Proper, Fragment
  <1>5. Stream(p)
    BY DEF StreamOrder
  <1>6. /\ outbound[p] \in Seq(Frame) /\ net[p][1] \in Seq(Frame)
        /\ \A i \in 1 .. Len(outbound[p]) : outbound[p][i] \in Fragment(p)
        /\ \A i \in 1 .. Len(net[p][1]) : net[p][1][i] \in Proper(p)
    BY <1>5, StreamFrames
  <1>7. \A i \in 1 .. Len(outbound[p]) : outbound[p][i].crc <= f.crc
    BY <1>1, <1>6 DEF Proper, Fragment
  <1>8. \A i \in 1 .. Len(net[p][1]) : net[p][1][i].typ = "data" => net[p][1][i].crc <= f.crc
    BY <1>1, <1>6 DEF Proper
  <1>9. Sorted(w) /\ Precedes(net[p][1], w)
    BY <1>1, <1>5, <1>6, <1>7, <1>8, SortedAppend, PrecedesAppend DEF Stream
  <1>10. w \in Seq(Fragment(p))
    BY <1>4, <1>5, AppendProperties DEF Stream
  <1>11. /\ outbound' = [outbound EXCEPT ![p] = w]
         /\ UNCHANGED <<outAck, net, msgs, accepted, handed>>
    BY DEF QueueFragment, f
  <1> HIDE DEF w
  <1>12. outbound'[p] = w /\ \A q \in Peer : q # p => outbound'[q] = outbound[q]
    BY <1>11 DEF TypeOK, QueueTypeOK
  <1>13. Stream(p)'
    BY <1>5, <1>9, <1>10, <1>11, <1>12, StreamBecomes DEF Stream
  <1>14. ASSUME NEW q \in Peer, q # p PROVE Stream(q)'
    BY <1>11, <1>12, <1>14, StreamSame DEF StreamOrder
  <1>15. QED
    BY <1>13, <1>14 DEF StreamOrder


LEMMA WriteFrameNet ==
  ASSUME TypeOK, NTracks = 1, NEW p \in Peer, NEW f, WriteFrame(p, f)
  PROVE  /\ net'[p][1] = net[p][1] \/ net'[p][1] = Append(net[p][1], f)
         /\ \A q \in Peer : q # p => net'[q][1] = net[q][1]
         /\ UNCHANGED <<writerUp, closed, sendVars, recvVars>>
  <1>1. track[p] = 1 /\ 1 \in Track
    BY OneReader DEF TypeOK, NetTypeOK
  <1> DEFINE w == Append(net[p][1], f)
  <1>2. net' = net \/ net' = [net EXCEPT ![p][1] = w]
    BY <1>1 DEF WriteFrame
  <1>3. UNCHANGED <<writerUp, closed, sendVars, recvVars>>
    BY DEF WriteFrame
  <1> HIDE DEF w
  <1>4. net'[p][1] = net[p][1] \/ net'[p][1] = w
    BY <1>1, <1>2 DEF TypeOK, NetTypeOK
  <1>5. \A q \in Peer : q # p => net'[q][1] = net[q][1]
    BY <1>1, <1>2 DEF TypeOK, NetTypeOK
  <1>6. QED
    BY <1>3, <1>4, <1>5 DEF w

LEMMA WriteDataStream ==
  ASSUME TypeOK, NTracks = 1, StreamOrder, NEW p \in Peer, WriteData(p)
  PROVE  StreamOrder'
  <1> DEFINE s == outbound[p]
             f == Head(s)
             o == Tail(s)
             n == net[p][1]
             w == Append(n, f)
  <1>1. Stream(p) /\ s # <<>>
    BY DEF StreamOrder, WriteData
  <1>2. /\ s \in Seq(Frame) /\ n \in Seq(Frame) /\ s \in Seq(Fragment(p)) /\ n \in Seq(Proper(p))
        /\ Sorted(s) /\ Sorted(n) /\ Precedes(n, s)
        /\ Fragment(p) \subseteq Proper(p) /\ Proper(p) \subseteq Frame
    BY <1>1, StreamFrames DEF Stream
  <1>3. /\ f = s[1] /\ 1 \in 1 .. Len(s) /\ f \in Fragment(p) /\ o \in Seq(Fragment(p))
        /\ o \in Seq(Frame) /\ \A i \in 1 .. Len(o) : o[i] = s[i + 1] /\ i + 1 \in 1 .. Len(s)
    BY <1>1, <1>2, FirstAndRest
  <1>4. f \in Frame /\ f \in Proper(p) /\ f.typ = "data"
    BY <1>2, <1>3 DEF Fragment
  <1>5. /\ outbound' = [outbound EXCEPT ![p] = o] /\ UNCHANGED outAck /\ WriteFrame(p, f)
    BY DEF WriteData
  <1>6. /\ Sorted(o) /\ Precedes(n, o)
        /\ \A i \in 1 .. Len(o) : o[i].typ = "data" => f.crc <= o[i].crc
    BY <1>1, <1>2, <1>4, SortedTail, PrecedesTail
  <1>7. \A i \in 1 .. Len(n) : n[i].typ = "data" => n[i].crc <= f.crc
    BY <1>2, <1>3, <1>4 DEF Precedes
  <1> HIDE DEF s, f, o, n
  <1>8. w \in Seq(Proper(p))
    BY <1>2, <1>4, AppendProperties
  <1>9. Sorted(w)
    BY <1>2, <1>4, <1>7, SortedAppend
  <1>10. Precedes(w, o)
    BY <1>2, <1>3, <1>4, <1>6, PrecedesAppend
  <1>11. /\ net'[p][1] = n \/ net'[p][1] = w
         /\ \A q \in Peer : q # p => net'[q][1] = net[q][1]
         /\ UNCHANGED <<sendVars, recvVars>>
    BY <1>5, WriteFrameNet DEF n
  <1> HIDE DEF w
  <1>12. outbound'[p] = o /\ \A q \in Peer : q # p => outbound'[q] = outbound[q]
    BY <1>5 DEF TypeOK, QueueTypeOK
  <1>13. outAck[p] \in Seq({g \in Proper(p) : g.typ = "ack"})
    BY <1>1 DEF Stream
  <1>14. Stream(p)'
    BY <1>2, <1>3, <1>5, <1>6, <1>8, <1>9, <1>10, <1>11, <1>12, <1>13, StreamBecomes
  <1>15. ASSUME NEW q \in Peer, q # p PROVE Stream(q)'
    BY <1>5, <1>11, <1>12, <1>15, StreamSame DEF StreamOrder
  <1>16. QED
    BY <1>14, <1>15 DEF StreamOrder

LEMMA WriteAckStream ==
  ASSUME TypeOK, NTracks = 1, StreamOrder, NEW p \in Peer, WriteAck(p)
  PROVE  StreamOrder'
  <1> DEFINE s == outAck[p]
             f == Head(s)
             o == Tail(s)
             n == net[p][1]
             w == Append(n, f)
             Ack == {g \in Proper(p) : g.typ = "ack"}
  <1>1. Stream(p) /\ s # <<>>
    BY DEF StreamOrder, WriteAck
  <1>2. /\ s \in Seq(Ack) /\ n \in Seq(Proper(p)) /\ n \in Seq(Frame) /\ outbound[p] \in Seq(Frame)
        /\ outbound[p] \in Seq(Fragment(p)) /\ Sorted(outbound[p]) /\ Sorted(n)
        /\ Precedes(n, outbound[p]) /\ Proper(p) \subseteq Frame
    BY <1>1, StreamFrames DEF Stream
  <1> HIDE DEF Ack
  <1>3. f \in Ack /\ o \in Seq(Ack)
    BY <1>1, <1>2, FirstAndRest
  <1>4. f \in Proper(p) /\ f \in Frame /\ f.typ # "data"
    BY <1>2, <1>3 DEF Ack
  <1>5. outAck' = [outAck EXCEPT ![p] = o] /\ UNCHANGED outbound /\ WriteFrame(p, f)
    BY DEF WriteAck
  <1> HIDE DEF s, f, o, n
  <1>6. w \in Seq(Proper(p))
    BY <1>2, <1>4, AppendProperties
  <1>7. Sorted(w) /\ Precedes(w, outbound[p])
    BY <1>2, <1>4, SortedAppend, PrecedesAppend
  <1>8. /\ net'[p][1] = n \/ net'[p][1] = w
        /\ \A q \in Peer : q # p => net'[q][1] = net[q][1]
        /\ UNCHANGED <<sendVars, recvVars>>
    BY <1>5, WriteFrameNet DEF n
  <1> HIDE DEF w
  <1>9. outAck'[p] = o /\ \A q \in Peer : q # p => outAck'[q] = outAck[q]
    BY <1>5 DEF TypeOK, QueueTypeOK
  <1>10. Stream(p)'
    BY <1>2, <1>3, <1>5, <1>6, <1>7, <1>8, <1>9, StreamBecomes DEF Ack
  <1>11. ASSUME NEW q \in Peer, q # p PROVE Stream(q)'
    BY <1>5, <1>8, <1>9, <1>11, StreamSame DEF StreamOrder
  <1>12. QED
    BY <1>10, <1>11 DEF StreamOrder

LEMMA SendAckStream ==
  ASSUME TypeOK, NTracks = 1, StreamOrder, RecvOrder, NEW p \in Peer, NEW t \in Track, SendAck(p, t)
  PROVE  StreamOrder'
  <1> DEFINE r == reader[p][t]
             f == AckFrame(r.seq, r.crc)
             Ack == {g \in Proper(p) : g.typ = "ack"}
             w == Append(outAck[p], f)
  <1>1. r.pc = "ack" /\ r.crc \in HandedMsgs(p) /\ r.crc \in Message /\ r.seq \in Nat
    BY OneReader DEF SendAck, RecvOrder, Recv, TypeOK, RecvTypeOK
  <1>2. f \in Ack
    BY <1>1 DEF AckFrame, Frame, Proper
  <1>3. Stream(p) /\ outAck[p] \in Seq(Ack)
    BY DEF StreamOrder, Stream
  <1>4. /\ UNCHANGED outAck \/ outAck' = [outAck EXCEPT ![p] = w]
        /\ UNCHANGED <<outbound, net, msgs, accepted, handed>>
    BY DEF SendAck
  <1> HIDE DEF f, Ack
  <1>5. w \in Seq(Ack)
    BY <1>2, <1>3, AppendProperties
  <1> HIDE DEF w
  <1>6. (outAck'[p] = w \/ outAck'[p] = outAck[p]) /\ \A q \in Peer : q # p => outAck'[q] = outAck[q]
    BY <1>4 DEF TypeOK, QueueTypeOK
  <1>7. /\ outbound[p] \in Seq(Fragment(p)) /\ net[p][1] \in Seq(Proper(p))
        /\ Sorted(outbound[p]) /\ Sorted(net[p][1]) /\ Precedes(net[p][1], outbound[p])
    BY <1>3 DEF Stream
  <1>8. Stream(p)'
    BY <1>3, <1>4, <1>5, <1>6, <1>7, StreamBecomes DEF Ack
  <1>9. ASSUME NEW q \in Peer, q # p PROVE Stream(q)'
    BY <1>4, <1>6, <1>9, StreamSame DEF StreamOrder
  <1>10. QED
    BY <1>8, <1>9 DEF StreamOrder


(* The reader takes the oldest frame: when it is a fragment, none that is  *)
(* still on its way is older, so accepting its message leaves them proper. *)
LEMMA TakeFrameStream ==
  ASSUME TypeOK, NTracks = 1, StreamOrder, NEW p \in Peer, NEW t \in Track, TakeFrame(p, t),
         UNCHANGED handed,
         \/ UNCHANGED accepted
         \/ /\ Head(net[Other(p)][t]).typ = "data"
            /\ accepted' = [accepted EXCEPT ![p] = @ \cup {Head(net[Other(p)][t]).crc}]
  PROVE  Head(net[Other(p)][t]) \in Proper(Other(p)) /\ StreamOrder'
  <1> DEFINE q == Other(p)
             s == net[q][1]
             f == Head(s)
             n == Tail(s)
             o == outbound[q]
             Ack == {g \in Proper(q) : g.typ = "ack"}
  <1>1. q \in Peer /\ Other(q) = p /\ q # p /\ t = 1 /\ 1 \in Track
    BY OtherPeer, OneReader DEF Peer, Other
  <1>2. Stream(q) /\ s # <<>>
    BY <1>1 DEF StreamOrder, TakeFrame
  <1>3. /\ s \in Seq(Proper(q)) /\ s \in Seq(Frame) /\ o \in Seq(Frame) /\ o \in Seq(Fragment(q))
        /\ outAck[q] \in Seq(Ack)
        /\ Sorted(o) /\ Sorted(s) /\ Precedes(s, o)
        /\ Proper(q) \subseteq Frame /\ Fragment(q) \subseteq Proper(q)
    BY <1>1, <1>2, StreamFrames DEF Stream
  <1>4. /\ f = s[1] /\ 1 \in 1 .. Len(s) /\ f \in Proper(q) /\ n \in Seq(Proper(q)) /\ n \in Seq(Frame)
    BY <1>2, <1>3, FirstAndRest
  <1>5. /\ Sorted(n) /\ Precedes(n, o)
        /\ f.typ = "data" => \A i \in 1 .. Len(n) : n[i].typ = "data" => f.crc <= n[i].crc
    BY <1>2, <1>3, SortedTail, PrecedesTail
  <1>6. f.typ = "data" => \A i \in 1 .. Len(o) : o[i].typ = "data" => f.crc <= o[i].crc
    BY <1>4, <1>3 DEF Precedes
  <1>7. /\ net' = [net EXCEPT ![q][1] = n]
        /\ UNCHANGED <<track, restarts, queueVars, nextSeq, send, msgs, outcome, handed>>
    BY <1>1 DEF TakeFrame
  <1>8. \/ UNCHANGED accepted
        \/ f.typ = "data" /\ accepted' = [accepted EXCEPT ![p] = accepted[p] \cup {f.crc}]
    BY <1>1
  <1> HIDE DEF s, f, n, o
  <1>9. net'[q][1] = n /\ net'[p][1] = net[p][1]
    BY <1>1, <1>7 DEF TypeOK, NetTypeOK
  <1>10. /\ accepted'[q] = accepted[q]
         /\ accepted'[p] = accepted[p] \/ (f.typ = "data" /\ accepted'[p] = accepted[p] \cup {f.crc})
    BY <1>1, <1>8 DEF TypeOK, RecvTypeOK
  <1>11. HandedMsgs(q)' = HandedMsgs(q) /\ msgs'[q] = msgs[q]
    BY <1>1, <1>7, HandedSame
  <1>12. \A g \in Proper(q) :
           (g.typ = "data" /\ f.typ = "data" => f.crc <= g.crc) => g \in Proper(q)'
    BY <1>1, <1>10, <1>11 DEF Proper
  <1>13. n \in Seq(Proper(q)')
    <2>1. \A i \in 1 .. Len(n) : n[i] \in Proper(q)
      BY <1>4
    <2>2. \A i \in 1 .. Len(n) : n[i] \in Proper(q)'
      BY <1>5, <1>12, <2>1
    <2>3. QED
      BY <1>4, <2>2, SeqIn
  <1>14. o \in Seq(Fragment(q)')
    <2>1. \A i \in 1 .. Len(o) : o[i] \in Fragment(q)
      BY <1>3
    <2>2. \A i \in 1 .. Len(o) : o[i] \in Proper(q) /\ o[i].typ = "data"
      BY <2>1 DEF Fragment
    <2>3. \A i \in 1 .. Len(o) : o[i] \in Proper(q)'
      BY <1>6, <1>12, <2>2
    <2>4. \A i \in 1 .. Len(o) : o[i] \in Fragment(q)'
      BY <2>2, <2>3 DEF Fragment
    <2>5. QED
      BY <1>3, <2>4, SeqIn
  <1>15. outAck[q] \in Seq({g \in Proper(q)' : g.typ = "ack"})
    <2>1. Ack \subseteq {g \in Proper(q)' : g.typ = "ack"}
      BY <1>12
    <2> HIDE DEF Ack
    <2>2. QED
      BY <1>3, <2>1, SeqMonotone
  <1>16. Stream(q)'
    <2>1. Stream(q)' = (/\ outbound'[q] \in Seq(Fragment(q)')
                        /\ outAck'[q] \in Seq({g \in Proper(q)' : g.typ = "ack"})
                        /\ net'[q][1] \in Seq(Proper(q)')
                        /\ Sorted(outbound'[q]) /\ Sorted(net'[q][1])
                        /\ Precedes(net'[q][1], outbound'[q]))
      BY DEF Stream, Sorted, Precedes
    <2>2. outbound'[q] = o /\ outAck'[q] = outAck[q]
      BY <1>7 DEF o
    <2>3. QED
      BY <1>3, <1>5, <1>9, <1>13, <1>14, <1>15, <2>1, <2>2
  <1>17. Stream(p)'
    BY <1>1, <1>7, <1>9, <1>10, StreamSame DEF StreamOrder
  <1>18. \A u \in Peer : u = p \/ u = q
    BY DEF Peer, Other
  <1>19. StreamOrder'
    BY <1>16, <1>17, <1>18 DEF StreamOrder
  <1>20. QED
    BY <1>1, <1>4, <1>19 DEF f, s

LEMMA DamageStream ==
  ASSUME TypeOK, NTracks = 1, StreamOrder, NEW p \in Peer, NEW t \in Track, Damage(p, t)
  PROVE  StreamOrder'
  <1> DEFINE s == net[p][1]
             f == [s[1] EXCEPT !.intact = FALSE]
             n == [s EXCEPT ![1] = f]
  <1>1. t = 1 /\ 1 \in Track
    BY OneReader
  <1>2. Stream(p) /\ s # <<>>
    BY <1>1 DEF StreamOrder, Damage
  <1>3. /\ s \in Seq(Proper(p)) /\ outbound[p] \in Seq(Fragment(p))
        /\ outAck[p] \in Seq({g \in Proper(p) : g.typ = "ack"})
        /\ Sorted(outbound[p]) /\ Sorted(s) /\ Precedes(s, outbound[p])
    BY <1>2 DEF Stream
  <1>4. 1 \in 1 .. Len(s) /\ s[1] \in Proper(p)
    BY <1>2, <1>3
  <1>5. f \in Proper(p) /\ f.typ = s[1].typ /\ f.crc = s[1].crc
    BY <1>4 DEF Proper, Frame
  <1>6. net' = [net EXCEPT ![p][1] = n]
        /\ UNCHANGED <<track, restarts, sendVars, queueVars, recvVars>>
    BY <1>1 DEF Damage
  <1> HIDE DEF f
  <1>7. /\ n \in Seq(Proper(p)) /\ Len(n) = Len(s)
        /\ \A i \in 1 .. Len(s) : n[i].typ = s[i].typ /\ n[i].crc = s[i].crc
    <2>1. n \in Seq(Proper(p))
      BY <1>3, <1>4, <1>5, ExceptSeq
    <2>2. Len(n) = Len(s) /\ \A i \in 1 .. Len(s) : n[i] = IF i = 1 THEN f ELSE s[i]
      BY <1>3
    <2>3. QED
      BY <1>5, <2>1, <2>2
  <1> HIDE DEF n, s
  <1>8. Sorted(n) /\ Precedes(n, outbound[p])
    BY <1>3, <1>7 DEF Sorted, Precedes
  <1>9. net'[p][1] = n /\ \A q \in Peer : q # p => net'[q][1] = net[q][1]
    BY <1>1, <1>6 DEF TypeOK, NetTypeOK
  <1>10. Stream(p)'
    BY <1>3, <1>6, <1>7, <1>8, <1>9, StreamBecomes
  <1>11. ASSUME NEW q \in Peer, q # p PROVE Stream(q)'
    BY <1>6, <1>9, <1>11, StreamSame DEF StreamOrder
  <1>12. QED
    BY <1>10, <1>11 DEF StreamOrder


-----------------------------------------------------------------------------
(* The receiver's part: what the steps of a reader do to RecvOrder.        *)
LEMMA RecvSame ==
  ASSUME NEW p \in Peer, Recv(p), reader'[p][1] = reader[p][1], accepted'[p] = accepted[p],
         delivered'[p] = delivered[p], HandedMsgs(p)' = HandedMsgs(p), UNCHANGED msgs
  PROVE  Recv(p)'
  BY DEF Recv

LEMMA ReadDuplicateRecv ==
  ASSUME TypeOK, NTracks = 1, StreamOrder, RecvOrder, NEW p \in Peer, NEW t \in Track,
         ReadDuplicate(p, t)
  PROVE  RecvOrder'
  <1> DEFINE f == Head(net[Other(p)][t])
             r == [pc |-> "ack", seq |-> f.seq, crc |-> f.crc, intact |-> TRUE]
  <1>1. t = 1 /\ 1 \in Track /\ reader[p][1].pc = "read" /\ Recv(p)
    BY OneReader DEF ReadDuplicate, TakeFrame, RecvOrder
  <1>2. /\ reader' = [reader EXCEPT ![p][1] = r]
        /\ UNCHANGED <<delivered, accepted, handed, msgs>>
    BY <1>1 DEF ReadDuplicate, SetReader, TakeFrame
  <1>3. f.crc \in HandedMsgs(p)
    BY <1>1 DEF ReadDuplicate, IsDelivered, Recv
  <1>4. r.pc = "ack" /\ r.crc = f.crc
    OBVIOUS
  <1> HIDE DEF r, f
  <1>5. reader'[p][1] = r /\ \A q \in Peer : q # p => reader'[q][1] = reader[q][1]
    BY <1>1, <1>2 DEF TypeOK, RecvTypeOK
  <1>6. \A q \in Peer : HandedMsgs(q)' = HandedMsgs(q)
    BY <1>2, HandedSame
  <1>7. Recv(p)'
    BY <1>1, <1>2, <1>3, <1>4, <1>5, <1>6 DEF Recv
  <1>8. ASSUME NEW q \in Peer, q # p PROVE Recv(q)'
    BY <1>2, <1>5, <1>6, <1>8, RecvSame DEF RecvOrder
  <1>9. QED
    BY <1>7, <1>8 DEF RecvOrder

(* A message that completes and is not in delivered is newer than all that *)
(* were accepted: the newest of those is still in delivered.               *)
LEMMA CompletesNewer ==
  ASSUME TypeOK, RecvOrder, NEW p \in Peer, NEW f \in Proper(Other(p)), f.typ = "data",
         ~IsDelivered(p, f.seq, f.crc)
  PROVE  \A a \in accepted[p] : a < f.crc
  <1>1. f.seq = f.crc /\ (\A a \in accepted[p] : a <= f.crc) /\ f.crc \in Int
    BY OtherPeer DEF Proper, Frame, Message
  <1>2. accepted[p] \subseteq Int
    BY DEF TypeOK, RecvTypeOK, Message
  <1>3. f.crc \notin accepted[p]
    <2> SUFFICES ASSUME f.crc \in accepted[p] PROVE FALSE
      OBVIOUS
    <2>1. \/ [seq |-> f.crc, crc |-> f.crc] \in delivered[p]
          \/ \E b \in accepted[p] : f.crc < b
      BY DEF RecvOrder, Recv
    <2>2. CASE [seq |-> f.crc, crc |-> f.crc] \in delivered[p]
      BY <1>1, <2>2 DEF IsDelivered
    <2>3. CASE \E b \in accepted[p] : f.crc < b
      BY <1>1, <1>2, <2>3
    <2>4. QED
      BY <2>1, <2>2, <2>3
  <1>4. QED
    BY <1>1, <1>2, <1>3

LEMMA ReadLastRecv ==
  ASSUME TypeOK, NTracks = 1, StreamOrder, RecvOrder, NEW p \in Peer, NEW t \in Track,
         ReadLast(p, t)
  PROVE  RecvOrder'
  <1> DEFINE f == Head(net[Other(p)][t])
  <1>1. t = 1 /\ 1 \in Track /\ reader[p][1].pc = "read" /\ Recv(p)
    BY OneReader DEF ReadLast, TakeFrame, RecvOrder
  <1>2. UNCHANGED <<handed, msgs>> /\ \A q \in Peer : HandedMsgs(q)' = HandedMsgs(q)
    BY HandedSame DEF ReadLast, TakeFrame
  <1>3. CASE UNCHANGED <<delivered, accepted, reader>>
    BY <1>2, <1>3, RecvSame DEF RecvOrder
  <1>4. CASE /\ IntactMessage(p, f) /\ MarkDelivered(p, f)
             /\ accepted' = [accepted EXCEPT ![p] = @ \cup {f.crc}]
             /\ SetReader(p, t, "handoff", f, \A g \in Partial(p, f) : g.intact)
    <2> DEFINE b == \A g \in Partial(p, f) : g.intact
               r == [pc |-> "handoff", seq |-> f.seq, crc |-> f.crc, intact |-> b]
    <2>1. f.typ = "data" /\ ~IsDelivered(p, f.seq, f.crc) /\ f \in Proper(Other(p))
      BY <1>4, TakeFrameStream DEF ReadLast
    <2>2. \A a \in accepted[p] : a < f.crc
      BY <2>1, CompletesNewer
    <2>3. f.seq = f.crc /\ f.crc <= msgs[Other(p)]
      BY <2>1 DEF Proper
    <2>4. b
      BY <1>4 DEF IntactMessage
    <2>5. r.pc = "handoff" /\ r.crc = f.crc /\ r.intact
      BY <2>4
    <2>6. reader' = [reader EXCEPT ![p][1] = r]
      BY <1>1, <1>4 DEF SetReader
    <2> HIDE DEF b, r, f
    <2>7. reader'[p][1] = r /\ \A q \in Peer : q # p => reader'[q][1] = reader[q][1]
      BY <1>1, <2>6 DEF TypeOK, RecvTypeOK
    <2>8. /\ accepted'[p] = accepted[p] \cup {f.crc}
          /\ \A q \in Peer : q # p => accepted'[q] = accepted[q]
      BY <1>4 DEF TypeOK, RecvTypeOK
    <2>9. PICK kept \in {{}, delivered[p]} :
            /\ delivered'[p] = {d \in kept : d.seq # f.seq} \cup {[seq |-> f.seq, crc |-> f.crc]}
            /\ \A q \in Peer : q # p => delivered'[q] = delivered[q]
      BY <1>4 DEF MarkDelivered, TypeOK, RecvTypeOK
    <2>10. Recv(p)'
      <3>1. \A d \in delivered'[p] : d.crc \in HandedMsgs(p) \/ d.crc = f.crc
        BY <1>1, <2>9 DEF Recv
      <3>2. [seq |-> f.crc, crc |-> f.crc] \in delivered'[p]
        BY <2>3, <2>9
      <3>3. \A a \in accepted'[p] : \/ [seq |-> a, crc |-> a] \in delivered'[p]
                                    \/ \E c \in accepted'[p] : a < c
        BY <2>2, <2>8, <3>2
      <3>4. HandedMsgs(p) \subseteq accepted[p] /\ \A h \in HandedMsgs(p) : h < f.crc
        BY <1>1, <2>2 DEF Recv
      <3>5. \A a \in accepted'[p] : a <= msgs[Other(p)]
        BY <1>1, <2>3, <2>8 DEF Recv
      <3>6. QED
        BY <1>2, <2>5, <2>7, <2>8, <3>1, <3>3, <3>4, <3>5 DEF Recv
    <2>11. ASSUME NEW q \in Peer, q # p PROVE Recv(q)'
      BY <1>2, <2>7, <2>8, <2>9, <2>11, RecvSame DEF RecvOrder
    <2>12. QED
      BY <2>10, <2>11 DEF RecvOrder
  <1>5. QED
    BY <1>3, <1>4 DEF ReadLast

LEMMA HandOffRecv ==
  ASSUME TypeOK, NTracks = 1, RecvOrder, NEW p \in Peer, NEW t \in Track, HandOff(p, t)
  PROVE  RecvOrder'
  <1>1. t = 1 /\ 1 \in Track /\ reader[p][1].pc = "handoff" /\ Recv(p)
    BY OneReader DEF HandOff, RecvOrder
  <1>2. /\ reader' = [reader EXCEPT ![p][1].pc = "ack"]
        /\ UNCHANGED <<delivered, accepted, msgs>>
    BY <1>1 DEF HandOff
  <1>3. /\ reader'[p][1].pc = "ack" /\ reader'[p][1].crc = reader[p][1].crc
        /\ \A q \in Peer : q # p => reader'[q][1] = reader[q][1]
    BY <1>1, <1>2 DEF TypeOK, RecvTypeOK
  <1>4. HandedMsgs(p)' = HandedMsgs(p) \cup {reader[p][1].crc}
    BY <1>1, HandedGrows
  <1>5. \A q \in Peer : q # p => HandedMsgs(q)' = HandedMsgs(q)
    BY DEF HandOff, HandedMsgs, TypeOK, RecvTypeOK
  <1>6. Recv(p)'
    BY <1>1, <1>2, <1>3, <1>4 DEF Recv
  <1>7. ASSUME NEW q \in Peer, q # p PROVE Recv(q)'
    BY <1>2, <1>3, <1>5, <1>7, RecvSame DEF RecvOrder
  <1>8. QED
    BY <1>6, <1>7 DEF RecvOrder

LEMMA SendAckRecv ==
  ASSUME TypeOK, NTracks = 1, RecvOrder, NEW p \in Peer, NEW t \in Track, SendAck(p, t)
  PROVE  RecvOrder'
  <1>1. t = 1 /\ 1 \in Track /\ reader[p][1].pc = "ack" /\ Recv(p)
    BY OneReader DEF SendAck, RecvOrder
  <1>2. /\ reader' = [reader EXCEPT ![p][1] = IdleReader]
        /\ UNCHANGED <<delivered, accepted, msgs, handed>>
    BY <1>1 DEF SendAck
  <1>3. /\ reader'[p][1].pc = "read"
        /\ \A q \in Peer : q # p => reader'[q][1] = reader[q][1]
    BY <1>1, <1>2 DEF TypeOK, RecvTypeOK, IdleReader
  <1>4. \A q \in Peer : HandedMsgs(q)' = HandedMsgs(q)
    BY <1>2, HandedSame
  <1>5. Recv(p)'
    BY <1>1, <1>2, <1>3, <1>4 DEF Recv
  <1>6. ASSUME NEW q \in Peer, q # p PROVE Recv(q)'
    BY <1>2, <1>3, <1>4, <1>6, RecvSame DEF RecvOrder
  <1>7. QED
    BY <1>5, <1>6 DEF RecvOrder


LEMMA HandOffOrder ==
  ASSUME TypeOK, NTracks = 1, RecvOrder, HandedInOrder, NEW p \in Peer, NEW t \in Track,
         HandOff(p, t)
  PROVE  HandedInOrder'
  <1> DEFINE r == reader[p][t]
             x == [msg |-> r.crc, intact |-> r.intact]
             s == handed[p]
             w == Append(s, x)
  <1>1. s \in Seq([msg : Message, intact : BOOLEAN]) /\ x.msg = r.crc /\ x.intact = r.intact
    BY DEF TypeOK, RecvTypeOK
  <1>2. r.intact /\ \A i \in 1 .. Len(s) : s[i].msg < r.crc
    BY OneReader DEF HandOff, RecvOrder, Recv, HandedMsgs
  <1>3. /\ Len(w) = Len(s) + 1 /\ Len(s) \in Nat /\ w[Len(s) + 1] = x
        /\ \A i \in 1 .. Len(s) : w[i] = s[i]
    BY <1>1
  <1>4. handed' = [handed EXCEPT ![p] = w]
    BY DEF HandOff
  <1>5. /\ \A i \in 1 .. Len(s) : s[i].intact
        /\ \A i \in 1 .. Len(s), j \in 1 .. Len(s) : i < j => s[i].msg < s[j].msg
    BY DEF HandedInOrder
  <1> HIDE DEF w, x, s, r
  <1>6. handed'[p] = w /\ \A q \in Peer : q # p => handed'[q] = handed[q]
    BY <1>4 DEF TypeOK, RecvTypeOK
  <1>7. \A i \in 1 .. Len(w) : w[i].intact
    <2>1. \A i \in 1 .. Len(w) : i \in 1 .. Len(s) \/ i = Len(s) + 1
      BY <1>3
    <2>2. QED
      BY <1>1, <1>2, <1>3, <1>5, <2>1
  <1>8. ASSUME NEW i \in 1 .. Len(w), NEW j \in 1 .. Len(w), i < j
        PROVE  w[i].msg < w[j].msg
    <2>1. i \in 1 .. Len(s) /\ (j \in 1 .. Len(s) \/ j = Len(s) + 1)
      BY <1>3, <1>8
    <2>2. QED
      BY <1>1, <1>2, <1>3, <1>5, <1>8, <2>1
  <1>9. QED
    BY <1>6, <1>7, <1>8 DEF HandedInOrder

LEMMA ReadAckOrder ==
  ASSUME TypeOK, NTracks = 1, SendOrder, StreamOrder, NEW p \in Peer, NEW t \in Track, ReadAck(p, t)
  PROVE  SendOrder'
  <1> DEFINE f == Head(net[Other(p)][t])
  <1>1. UNCHANGED <<nextSeq, send, msgs, outcome, handed, accepted>>
    BY DEF ReadAck, TakeFrame
  <1>2. f \in Proper(Other(p)) /\ f.typ = "ack"
    BY <1>1, TakeFrameStream DEF ReadAck
  <1>3. f.crc \in HandedMsgs(Other(p))
    BY <1>2 DEF Proper
  <1>4. UNCHANGED waiter \/ waiter' = [waiter EXCEPT ![p] = f.crc]
    BY DEF ReadAck
  <1>5. \A q \in Peer : HandedMsgs(Other(q))' = HandedMsgs(Other(q))
    BY <1>1, HandedSame, OtherPeer
  <1> HIDE DEF f
  <1>6. \A q \in Peer : waiter'[q] # NoMsg => waiter'[q] \in HandedMsgs(Other(q))
    BY <1>3, <1>4 DEF SendOrder, TypeOK, SendTypeOK
  <1>7. QED
    BY <1>1, <1>5, <1>6 DEF SendOrder

-----------------------------------------------------------------------------
LEMMA InitOrder == Init => OrderInv
  <1> SUFFICES ASSUME Init PROVE OrderInv
    OBVIOUS
  <1>1. \A p \in Peer : HandedMsgs(p) = {}
    BY DEF Init, HandedMsgs
  <1>2. SendOrder
    BY Bounds DEF Init, SendOrder, NoSend, NoMsg, Message
  <1>3. StreamOrder
    <2>1. NTracks \in Nat \ {0} /\ 1 \in Track
      BY Bounds DEF Track
    <2>2. \A S : <<>> \in Seq(S)
      OBVIOUS
    <2>3. Sorted(<<>>) /\ Precedes(<<>>, <<>>)
      BY DEF Sorted, Precedes
    <2>4. QED
      BY <2>1, <2>2, <2>3 DEF Init, StreamOrder, Stream
  <1>4. RecvOrder
    <2>1. 1 \in Track
      BY Bounds DEF Track
    <2>2. QED
      BY <1>1, <2>1 DEF Init, RecvOrder, Recv, IdleReader
  <1>5. HandedInOrder
    BY DEF Init, HandedInOrder
  <1>6. QED
    BY <1>2, <1>3, <1>4, <1>5 DEF OrderInv

LEMMA NextOrder ==
  ASSUME NTracks = 1, TypeOK, OrderInv, [Next]_vars
  PROVE  OrderInv'
  <1> USE DEF OrderInv
  <1>1. \A p \in Peer : msgs[p] \in Nat /\ msgs[p] <= msgs[p]
    BY DEF TypeOK, SendTypeOK
  <1>2. UNCHANGED handed => \A p \in Peer : HandedMsgs(p) \subseteq HandedMsgs(p)'
    BY HandedSame
  <1>3. UNCHANGED <<sendVars, handed>> => SendOrder'
    BY <1>2, SendOrderSame
  <1>4. UNCHANGED <<accepted, outbound, outAck, net, msgs, handed>> => StreamOrder'
    BY <1>1, <1>2, StreamOrderSame
  <1>5. UNCHANGED <<recvVars, msgs>> => RecvOrder'
    BY <1>1, RecvOrderSame
  <1>6. ASSUME NEW p \in Peer, Connect(p) \/ PollAcks(p) \/ WriteIdle(p) \/ WriterExit(p) \/ Close(p)
        PROVE  OrderInv'
    <2>1. UNCHANGED <<sendVars, recvVars, netVars, outbound, outAck>>
      BY <1>6 DEF Connect, PollAcks, WriteIdle, WriterExit, Close
    <2>2. QED
      BY <2>1, <1>3, <1>4, <1>5, SameHanded
  <1>7. ASSUME NEW p \in Peer, StartSend(p) PROVE OrderInv'
    <2>1. UNCHANGED <<queueVars, recvVars, netVars>>
      BY <1>7 DEF StartSend
    <2>2. \A q \in Peer : msgs'[q] \in Nat /\ msgs[q] <= msgs'[q]
      BY <1>7 DEF StartSend, TypeOK, SendTypeOK
    <2>3. QED
      BY <1>7, <2>1, <2>2, <1>2, StartSendOrder, StreamOrderSame, RecvOrderSame, SameHanded
  <1>8. ASSUME NEW p \in Peer, QueueFragment(p) PROVE OrderInv'
    <2>1. UNCHANGED <<recvVars, msgs>>
      BY <1>8 DEF QueueFragment
    <2>2. QED
      BY <1>8, <2>1, <1>5, QueueFragmentOrder, QueueFragmentStream, SameHanded
  <1>9. ASSUME NEW p \in Peer, ReceiveAck(p) PROVE OrderInv'
    <2>1. UNCHANGED <<nextSeq, msgs, queueVars, recvVars, netVars>>
      BY <1>9 DEF ReceiveAck
    <2>2. SendOrder'
      <3>1. waiter[p] \in HandedMsgs(Other(p)) /\ send[p].pc = "wait"
        BY <1>9 DEF ReceiveAck, SendOrder
      <3>2. CASE waiter[p] = send[p].msg
        BY <1>9, <2>1, <3>1, <3>2, ReturnOrder DEF ReceiveAck
      <3>3. CASE waiter[p] # send[p].msg
        BY <1>9, <2>1, <3>1, <3>3, FailAttemptOrder DEF ReceiveAck
      <3>4. QED
        BY <3>2, <3>3
    <2>3. QED
      BY <2>1, <2>2, <1>4, <1>5, SameHanded
  <1>10. ASSUME NEW p \in Peer, AckTimeout(p) PROVE OrderInv'
    <2>1. UNCHANGED <<nextSeq, msgs, queueVars, recvVars, netVars>>
      BY <1>10 DEF AckTimeout
    <2>2. waiter[p] # NoMsg => waiter[p] \in HandedMsgs(Other(p))
      BY DEF SendOrder
    <2>3. SendOrder'
      BY <1>10, <2>1, <2>2, FailAttemptOrder DEF AckTimeout
    <2>4. QED
      BY <2>1, <2>3, <1>4, <1>5, SameHanded
  <1>11. ASSUME NEW p \in Peer, SendClosed(p) PROVE OrderInv'
    <2>1. UNCHANGED <<nextSeq, msgs, queueVars, recvVars, netVars>>
      BY <1>11 DEF SendClosed
    <2>2. SendOrder'
      BY <1>11, <2>1, ReturnOrder DEF SendClosed
    <2>3. QED
      BY <2>1, <2>2, <1>4, <1>5, SameHanded
  <1>12. ASSUME NEW p \in Peer, WriteAck(p) PROVE OrderInv'
    <2>1. UNCHANGED <<sendVars, recvVars>>
      BY <1>12 DEF WriteAck, WriteFrame
    <2>2. QED
      BY <1>12, <2>1, <1>3, <1>5, WriteAckStream, SameHanded
  <1>13. ASSUME NEW p \in Peer, WriteData(p) PROVE OrderInv'
    <2>1. UNCHANGED <<sendVars, recvVars>>
      BY <1>13 DEF WriteData, WriteFrame
    <2>2. QED
      BY <1>13, <2>1, <1>3, <1>5, WriteDataStream, SameHanded
  <1>14. ASSUME NEW p \in Peer, NEW t \in Track, ReadAck(p, t) PROVE OrderInv'
    <2>1. UNCHANGED <<recvVars, msgs>> /\ TakeFrame(p, t)
      BY <1>14 DEF ReadAck, TakeFrame
    <2>2. QED
      BY <1>14, <2>1, <1>5, ReadAckOrder, TakeFrameStream, SameHanded
  <1>15. ASSUME NEW p \in Peer, NEW t \in Track, ReadDuplicate(p, t) PROVE OrderInv'
    <2>1. UNCHANGED <<sendVars, handed, accepted>> /\ TakeFrame(p, t)
      BY <1>15 DEF ReadDuplicate, TakeFrame
    <2>2. QED
      BY <1>15, <2>1, <1>3, ReadDuplicateRecv, TakeFrameStream, SameHanded
  <1>16. ASSUME NEW p \in Peer, NEW t \in Track, ReadFragment(p, t) PROVE OrderInv'
    <2>1. UNCHANGED <<sendVars, handed, accepted, reader, delivered>> /\ TakeFrame(p, t)
      BY <1>16 DEF ReadFragment, TakeFrame
    <2>2. RecvOrder'
      <3>1. \A q \in Peer : HandedMsgs(q)' = HandedMsgs(q)
        BY <2>1, HandedSame
      <3>2. QED
        BY <2>1, <3>1, RecvSame DEF RecvOrder
    <2>3. QED
      BY <2>1, <2>2, <1>3, TakeFrameStream, SameHanded
  <1>17. ASSUME NEW p \in Peer, NEW t \in Track, ReadLast(p, t) PROVE OrderInv'
    <2>1. UNCHANGED <<sendVars, handed>> /\ TakeFrame(p, t)
      BY <1>17 DEF ReadLast, TakeFrame
    <2>2. \/ UNCHANGED accepted
          \/ /\ Head(net[Other(p)][t]).typ = "data"
             /\ accepted' = [accepted EXCEPT ![p] = @ \cup {Head(net[Other(p)][t]).crc}]
      BY <1>17 DEF ReadLast
    <2>3. QED
      BY <1>17, <2>1, <2>2, <1>3, ReadLastRecv, TakeFrameStream, SameHanded
  <1>18. ASSUME NEW p \in Peer, NEW t \in Track, HandOff(p, t) PROVE OrderInv'
    <2>1. UNCHANGED <<sendVars, accepted, outbound, outAck, net>>
      BY <1>18 DEF HandOff
    <2>2. \A q \in Peer : HandedMsgs(q) \subseteq HandedMsgs(q)'
      BY <1>18, HandedGrows
    <2>3. QED
      BY <1>18, <2>1, <2>2, <1>1, SendOrderSame, StreamOrderSame, HandOffRecv, HandOffOrder
  <1>19. ASSUME NEW p \in Peer, NEW t \in Track, SendAck(p, t) PROVE OrderInv'
    <2>1. UNCHANGED <<sendVars, handed>>
      BY <1>19 DEF SendAck
    <2>2. QED
      BY <1>19, <2>1, <1>3, SendAckStream, SendAckRecv, SameHanded
  <1>20. ASSUME NEW p \in Peer, NEW t \in Track, Damage(p, t) PROVE OrderInv'
    <2>1. UNCHANGED <<sendVars, recvVars>>
      BY <1>20 DEF Damage
    <2>2. QED
      BY <1>20, <2>1, <1>3, <1>5, DamageStream, SameHanded
  <1>21. ASSUME NEW p \in Peer, Retrack(p) \/ Restart(p) PROVE OrderInv'
    <2>1. track[p] < NTracks /\ track[p] = 1
      BY <1>21, OneReader DEF Retrack, Restart, TypeOK, NetTypeOK
    <2>2. QED
      BY <2>1
  <1>22. CASE UNCHANGED vars
    BY <1>22, <1>3, <1>4, <1>5, SameHanded
  <1>23. QED
    BY <1>6, <1>7, <1>8, <1>9, <1>10, <1>11, <1>12, <1>13, <1>14, <1>15, <1>16, <1>17, <1>18,
       <1>19, <1>20, <1>21, <1>22
       DEF Next, SendStep, WriterStep, ReaderStep, CarrierStep


LEMMA AlwaysOrder == ASSUME NTracks = 1 PROVE Spec => [](TypeOK /\ OrderInv)
  <1>1. Init => OrderInv
    BY InitOrder
  <1>2. TypeOK /\ OrderInv /\ [Next]_vars => OrderInv'
    BY NextOrder
  <1>3. QED
    BY <1>1, <1>2, TypeCorrect, PTL DEF Spec

(* With one reader, a Send that returns nil had its message handed to the  *)
(* OnData callback of the other peer, whatever is lost, damaged, closed or *)
(* forgotten by the map delivered.                                         *)
THEOREM AckedHanded == ASSUME NTracks = 1 PROVE Spec => []AckedIsHanded
  <1>1. OrderInv => AckedIsHanded
    BY DEF OrderInv, SendOrder, HandedMsgs, AckedIsHanded
  <1>2. QED
    BY <1>1, AlwaysOrder, PTL

(* With one reader, OnData gets the messages in the order in which they    *)
(* were submitted, each at most once and intact, for every size at which   *)
(* the map delivered is emptied.                                           *)
THEOREM HandedOrdered == ASSUME NTracks = 1 PROVE Spec => []HandedInOrder
  <1>1. OrderInv => HandedInOrder
    BY DEF OrderInv
  <1>2. QED
    BY <1>1, AlwaysOrder, PTL

-----------------------------------------------------------------------------
(* The refinement: StartSend submits, the hand-over at the server receives,*)
(* the return of Send succeeds or fails, every other step stutters.        *)
Received == [i \in 1 .. Len(handed["server"]) |-> handed["server"][i].msg]

LEMMA BothPeers == "client" \in Peer /\ "server" \in Peer /\ Other("client") = "server"
  BY DEF Peer, Other

LEMMA InitImplements == Init => Delivery!Init
  <1> SUFFICES ASSUME Init PROVE Delivery!Init
    OBVIOUS
  <1>1. msgs["client"] = 0 /\ outcome["client"] = [m \in 1 .. Len(Fragments) |-> "pending"]
    BY BothPeers DEF Init, Message
  <1>2. Received = <<>>
    BY BothPeers DEF Init, Received
  <1>3. QED
    BY <1>1, <1>2 DEF Delivery!Init, Received

LEMMA StutterImplements ==
  ASSUME msgs'["client"] = msgs["client"], outcome'["client"] = outcome["client"],
         handed'["server"] = handed["server"]
  PROVE  [Delivery!Next]_(Delivery!vars)
  <1>1. Received' = Received
    BY DEF Received
  <1>2. QED
    BY <1>1 DEF Delivery!vars, Received

LEMMA SubmitImplements ==
  ASSUME TypeOK, OrderInv, StartSend("client")
  PROVE  Delivery!Submit
  <1>1. msgs["client"] \in Nat /\ MsgLimit["client"] <= Len(Fragments) /\ Len(Fragments) \in Nat
        /\ MsgLimit["client"] \in Nat
    BY BothPeers, Bounds DEF TypeOK, SendTypeOK
  <1>2. /\ send["client"].pc = "idle" /\ msgs["client"] < MsgLimit["client"]
        /\ msgs' = [msgs EXCEPT !["client"] = @ + 1] /\ UNCHANGED <<outcome, handed>>
    BY DEF StartSend
  <1>3. msgs["client"] < Len(Fragments) /\ msgs'["client"] = msgs["client"] + 1
    BY <1>1, <1>2, BothPeers DEF TypeOK, SendTypeOK
  <1>4. ASSUME msgs["client"] > 0 PROVE outcome["client"][msgs["client"]] # "pending"
    <2>1. msgs["client"] \in Message
      BY <1>1, <1>3, <1>4 DEF Message
    <2>2. outcome["client"][msgs["client"]] = "pending" <=>
            msgs["client"] > msgs["client"] \/ (msgs["client"] = msgs["client"] /\ send["client"].pc # "idle")
      BY <2>1, BothPeers DEF OrderInv, SendOrder
    <2>3. QED
      BY <1>1, <1>2, <2>2
  <1>5. Received' = Received
    BY <1>2 DEF Received
  <1>6. QED
    BY <1>2, <1>3, <1>4, <1>5 DEF Delivery!Submit, Received

LEMMA ReturnImplements ==
  ASSUME TypeOK, OrderInv, send["client"].pc # "idle",
         NEW r \in {"ok", "ErrAckTimeout", "ErrTransportClosed"}, Return("client", r),
         UNCHANGED <<msgs, handed>>, r = "ok" => send["client"].msg \in HandedMsgs("server")
  PROVE  Delivery!Succeed \/ Delivery!Fail
  <1> DEFINE m == msgs["client"]
  <1>1. m \in Message /\ send["client"].msg = m /\ m \in Nat /\ m > 0
    BY BothPeers DEF OrderInv, SendOrder, Message
  <1>2. outcome["client"][m] = "pending"
    BY <1>1, BothPeers DEF OrderInv, SendOrder
  <1>3. outcome'["client"] = [outcome["client"] EXCEPT ![m] = r]
    BY <1>1, BothPeers DEF Return, TypeOK, SendTypeOK
  <1>4. UNCHANGED m /\ Received' = Received
    BY DEF Received
  <1>5. CASE r = "ok"
    <2>1. m \in HandedMsgs("server")
      BY <1>1, <1>5
    <2>2. PICK i \in 1 .. Len(handed["server"]) : handed["server"][i].msg = m
      BY <2>1 DEF HandedMsgs
    <2>3. handed["server"] \in Seq([msg : Message, intact : BOOLEAN])
      BY BothPeers DEF TypeOK, RecvTypeOK
    <2>4. Len(Received) = Len(handed["server"]) /\ Received[i] = m
      BY <2>2, <2>3 DEF Received
    <2>5. Delivery!Succeed
      BY <1>1, <1>2, <1>3, <1>4, <1>5, <2>2, <2>4 DEF Delivery!Succeed, Received
    <2>6. QED
      BY <2>5
  <1>6. CASE r # "ok"
    BY <1>1, <1>2, <1>3, <1>4, <1>6 DEF Delivery!Fail, Received
  <1>7. QED
    BY <1>5, <1>6

LEMMA FailAttemptImplements ==
  ASSUME TypeOK, OrderInv, send["client"].pc = "wait", NEW w, FailAttempt("client", w),
         UNCHANGED <<msgs, handed>>
  PROVE  [Delivery!Next]_(Delivery!vars)
  <1>1. CASE Return("client", "ErrAckTimeout")
    BY <1>1, ReturnImplements DEF Delivery!Next
  <1>2. CASE UNCHANGED outcome
    BY <1>2, StutterImplements
  <1>3. QED
    BY <1>1, <1>2 DEF FailAttempt

LEMMA ReceiveImplements ==
  ASSUME NTracks = 1, TypeOK, OrderInv, NEW t \in Track, HandOff("server", t)
  PROVE  Delivery!Receive
  <1> DEFINE r == reader["server"][t]
             x == [msg |-> r.crc, intact |-> r.intact]
             s == handed["server"]
             w == Append(s, x)
  <1>1. r.pc = "handoff" /\ t = 1
    BY OneReader DEF HandOff
  <1>2. /\ r.crc \in accepted["server"] /\ \A h \in HandedMsgs("server") : h < r.crc
        /\ r.crc <= msgs["client"] /\ r.crc \in Message
    BY <1>1, BothPeers, OtherPeer DEF OrderInv, RecvOrder, Recv, TypeOK, RecvTypeOK, Other
  <1>3. s \in Seq([msg : Message, intact : BOOLEAN]) /\ x.msg = r.crc
    BY BothPeers DEF TypeOK, RecvTypeOK
  <1>4. /\ Len(w) = Len(s) + 1 /\ Len(s) \in Nat /\ w[Len(s) + 1] = x
        /\ \A i \in 1 .. Len(s) : w[i] = s[i]
    BY <1>3
  <1>5. handed'["server"] = w /\ UNCHANGED <<msgs, outcome>>
    BY BothPeers DEF HandOff, TypeOK, RecvTypeOK
  <1>6. r.crc \in Nat /\ r.crc >= 1 /\ msgs["client"] \in Nat
    BY <1>2, BothPeers DEF Message, TypeOK, SendTypeOK
  <1>7. /\ Received \in Seq(Message) /\ Len(Received) = Len(s)
        /\ \A i \in 1 .. Len(s) : Received[i] = s[i].msg
    <2>1. Received = [i \in 1 .. Len(s) |-> s[i].msg]
      BY DEF Received
    <2>2. s \in Seq([msg : Message, intact : BOOLEAN])
      BY <1>3
    <2> HIDE DEF s
    <2>3. \A i \in 1 .. Len(s) : s[i] \in [msg : Message, intact : BOOLEAN]
      BY <2>2, ElementOf
    <2>4. Len(s) \in Nat /\ \A i \in 1 .. Len(s) : s[i].msg \in Message
      BY <2>2, <2>3
    <2>5. QED
      BY <2>1, <2>4
  <1> HIDE DEF r, x, s, w
  <1>8. Received' = Append(Received, r.crc)
    <2>1. Received' = [i \in 1 .. Len(w) |-> w[i].msg]
      BY <1>5 DEF Received
    <2>2. Append(Received, r.crc) =
            [i \in 1 .. (Len(s) + 1) |-> IF i = Len(s) + 1 THEN r.crc ELSE Received[i]]
      BY <1>4, <1>6, <1>7
    <2>3. \A i \in 1 .. (Len(s) + 1) :
            w[i].msg = IF i = Len(s) + 1 THEN r.crc ELSE Received[i]
      BY <1>3, <1>4, <1>7
    <2>4. QED
      BY <1>4, <2>1, <2>2, <2>3
  <1>9. r.crc \in (IF Received = <<>> THEN 0 ELSE Received[Len(Received)]) + 1 .. msgs["client"]
    <2>1. CASE Received = <<>>
      BY <1>2, <1>6, <2>1
    <2>2. CASE Received # <<>>
      <3>1. Len(s) \in 1 .. Len(s) /\ Received[Len(s)] = s[Len(s)].msg
        BY <1>4, <1>7, <2>2
      <3>2. s[Len(s)].msg \in HandedMsgs("server") /\ Received[Len(s)] \in Nat
        BY <1>7, <3>1 DEF HandedMsgs, s, Message
      <3>3. Received[Len(s)] < r.crc
        BY <1>2, <3>1, <3>2
      <3>4. QED
        BY <1>2, <1>6, <1>7, <2>2, <3>2, <3>3
    <2>3. QED
      BY <2>1, <2>2
  <1>10. QED
    BY <1>5, <1>8, <1>9 DEF Delivery!Receive, Delivery!LastReceived, Received


LEMMA NextImplements ==
  ASSUME NTracks = 1, TypeOK, OrderInv, [Next]_vars
  PROVE  [Delivery!Next]_(Delivery!vars)
  <1> DEFINE Goal == [Delivery!Next]_(Delivery!vars)
  <1>1. ASSUME NEW p \in Peer, Connect(p) \/ PollAcks(p) \/ WriteIdle(p) \/ WriterExit(p) \/ Close(p)
        PROVE  Goal
    <2>1. UNCHANGED <<sendVars, recvVars>>
      BY <1>1 DEF Connect, PollAcks, WriteIdle, WriterExit, Close
    <2>2. QED
      BY <2>1, StutterImplements
  <1>2. ASSUME NEW p \in Peer, StartSend(p) PROVE Goal
    <2>1. CASE p = "client"
      BY <1>2, <2>1, SubmitImplements DEF Delivery!Next
    <2>2. CASE p # "client"
      <3>1. msgs'["client"] = msgs["client"] /\ UNCHANGED <<outcome, handed>>
        BY <1>2, <2>2, BothPeers DEF StartSend, TypeOK, SendTypeOK
      <3>2. QED
        BY <3>1, StutterImplements
    <2>3. QED
      BY <2>1, <2>2
  <1>3. ASSUME NEW p \in Peer,
               QueueFragment(p) \/ WriteAck(p) \/ WriteData(p)
        PROVE  Goal
    <2>1. UNCHANGED <<msgs, outcome, handed>>
      BY <1>3 DEF QueueFragment, WriteAck, WriteData, WriteFrame
    <2>2. QED
      BY <2>1, StutterImplements
  <1>4. ASSUME NEW p \in Peer, ReceiveAck(p) \/ AckTimeout(p) \/ SendClosed(p) PROVE Goal
    <2>1. UNCHANGED <<msgs, handed>>
      BY <1>4 DEF ReceiveAck, AckTimeout, SendClosed
    <2>2. CASE p = "client"
      <3>1. ASSUME ReceiveAck(p) PROVE Goal
        <4>1. send[p].pc = "wait" /\ waiter["client"] \in HandedMsgs("server")
          BY <2>2, <3>1, BothPeers DEF ReceiveAck, OrderInv, SendOrder
        <4>2. CASE waiter[p] = send[p].msg
          BY <2>1, <2>2, <3>1, <4>1, <4>2, ReturnImplements DEF ReceiveAck, Delivery!Next
        <4>3. CASE waiter[p] # send[p].msg
          BY <2>1, <2>2, <3>1, <4>1, <4>3, FailAttemptImplements DEF ReceiveAck
        <4>4. QED
          BY <4>2, <4>3
      <3>2. ASSUME AckTimeout(p) PROVE Goal
        BY <2>1, <2>2, <3>2, FailAttemptImplements DEF AckTimeout
      <3>3. ASSUME SendClosed(p) PROVE Goal
        BY <2>1, <2>2, <3>3, ReturnImplements DEF SendClosed, Delivery!Next
      <3>4. QED
        BY <1>4, <3>1, <3>2, <3>3
    <2>3. CASE p # "client"
      <3>1. outcome' = outcome \/ \E r : Return(p, r)
        BY <1>4 DEF ReceiveAck, AckTimeout, SendClosed, FailAttempt
      <3>2. outcome'["client"] = outcome["client"]
        BY <2>3, <3>1, BothPeers DEF Return, TypeOK, SendTypeOK
      <3>3. QED
        BY <2>1, <3>2, StutterImplements
    <2>4. QED
      BY <2>2, <2>3
  <1>5. ASSUME NEW p \in Peer, NEW t \in Track,
               \/ ReadAck(p, t) \/ ReadDuplicate(p, t) \/ ReadFragment(p, t) \/ ReadLast(p, t)
               \/ SendAck(p, t) \/ Damage(p, t)
        PROVE  Goal
    <2>1. UNCHANGED <<msgs, outcome, handed>>
      BY <1>5 DEF ReadAck, ReadDuplicate, ReadFragment, ReadLast, SendAck, Damage, TakeFrame
    <2>2. QED
      BY <2>1, StutterImplements
  <1>6. ASSUME NEW p \in Peer, NEW t \in Track, HandOff(p, t) PROVE Goal
    <2>1. CASE p = "server"
      BY <1>6, <2>1, ReceiveImplements DEF Delivery!Next
    <2>2. CASE p # "server"
      <3>1. handed'["server"] = handed["server"] /\ UNCHANGED <<msgs, outcome>>
        BY <1>6, <2>2, BothPeers DEF HandOff, TypeOK, RecvTypeOK
      <3>2. QED
        BY <3>1, StutterImplements
    <2>3. QED
      BY <2>1, <2>2
  <1>7. ASSUME NEW p \in Peer, Retrack(p) \/ Restart(p) PROVE Goal
    <2>1. track[p] < NTracks /\ track[p] = 1
      BY <1>7, OneReader DEF Retrack, Restart, TypeOK, NetTypeOK
    <2>2. QED
      BY <2>1
  <1>8. ASSUME UNCHANGED vars PROVE Goal
    BY <1>8, StutterImplements
  <1> HIDE DEF Goal
  <1>9. Goal
    BY <1>1, <1>2, <1>3, <1>4, <1>5, <1>6, <1>7, <1>8
       DEF Next, SendStep, WriterStep, ReaderStep, CarrierStep
  <1>10. QED
    BY <1>9 DEF Goal

(* With one reader, the direction from client to server implements         *)
(* OrderedDelivery, the promise on which Features and the smux session     *)
(* above rely: every behaviour of the protocol is one of the abstract      *)
(* transport that submits one message at a time and delivers in order.     *)
THEOREM Implements == ASSUME NTracks = 1 PROVE Spec => ImplementsOrderedDelivery
  <1>1. Init => Delivery!Init
    BY InitImplements
  <1>2. TypeOK /\ OrderInv /\ [Next]_vars => [Delivery!Next]_(Delivery!vars)
    BY NextImplements
  <1>3. QED
    BY <1>1, <1>2, AlwaysOrder, PTL DEF Spec, ImplementsOrderedDelivery, Delivery!Spec


-----------------------------------------------------------------------------
(***************************************************************************)
(* What a frame says of its message, wherever it is on its way: while one  *)
(* goroutine reads each peer's frames, its number is that of its message,  *)
(* a fragment is one the message was cut into, and an acknowledgement is   *)
(* complete. It must be said of the Send that makes fragments, of the      *)
(* readers that make acknowledgements, and of both queues.                 *)
(***************************************************************************)
Framed == {f \in Frame :
  /\ f.seq = f.crc
  /\ f.typ = "ack" => f.idx = 0
  /\ f.typ = "data" => f.idx < Fragments[f.crc]}

SendFrames == \A p \in Peer :
  /\ nextSeq[p] = msgs[p]
  /\ send[p].pc # "idle" => /\ send[p].seq = send[p].msg
                            /\ send[p].idx < Fragments[send[p].msg]
QueueFrames == \A p \in Peer : outbound[p] \in Seq(Framed) /\ outAck[p] \in Seq(Framed)
NetFrames == \A p \in Peer, t \in Track : net[p][t] \in Seq(Framed)
ReaderFrames == \A p \in Peer, t \in Track :
  reader[p][t].pc # "read" => reader[p][t].seq = reader[p][t].crc
FrameInv == SendFrames /\ QueueFrames /\ NetFrames /\ ReaderFrames

LEMMA FragmentCounts == \A m \in Message : Fragments[m] \in Nat /\ 0 < Fragments[m]
<1>1. Fragments \in Seq(Nat \ {0})
  BY ArqAssumption
<1>2. \A m \in Message : Fragments[m] \in Nat \ {0}
  BY <1>1, ElementOf DEF Message
<1> QED
  BY <1>2

LEMMA InitFrames == Init => FrameInv
<1> SUFFICES ASSUME Init PROVE FrameInv
  OBVIOUS
<1>1. \A S : <<>> \in Seq(S)
  OBVIOUS
<1>2. SendFrames
  BY DEF Init, SendFrames, NoSend
<1>3. QueueFrames
  BY <1>1 DEF Init, QueueFrames
<1>4. NetFrames
  BY <1>1 DEF Init, NetFrames
<1>5. ReaderFrames
  BY DEF Init, ReaderFrames, IdleReader
<1> QED
  BY <1>2, <1>3, <1>4, <1>5 DEF FrameInv

(* The state of a Send, or of a reader, that changes leaves the rest alone.*)
LEMMA SendFramesStep ==
  ASSUME TypeOK, FrameInv, NEW p \in Peer, NEW s, send' = [send EXCEPT ![p] = s],
         UNCHANGED <<nextSeq, msgs>>,
         s.pc # "idle" => s.seq = s.msg /\ s.idx < Fragments[s.msg]
  PROVE  SendFrames'
<1>1. SendFrames
  BY DEF FrameInv
<1>2. \A q \in Peer : send'[q] = IF q = p THEN s ELSE send[q]
  BY DEF TypeOK, SendTypeOK
<1> QED
  BY <1>1, <1>2 DEF SendFrames

LEMMA ReturnFrames ==
  ASSUME TypeOK, FrameInv, NEW p \in Peer, NEW r, Return(p, r), UNCHANGED <<nextSeq, msgs>>
  PROVE  SendFrames'
<1>1. send' = [send EXCEPT ![p] = NoSend] /\ NoSend.pc = "idle"
  BY DEF Return, NoSend
<1> QED
  BY <1>1, SendFramesStep

LEMMA FailAttemptFrames ==
  ASSUME TypeOK, FrameInv, NEW p \in Peer, NEW w, FailAttempt(p, w), send[p].pc = "wait",
         UNCHANGED <<nextSeq, msgs>>
  PROVE  SendFrames'
<1>1. CASE Return(p, "ErrAckTimeout")
  BY <1>1, ReturnFrames
<1>2. CASE send' = [send EXCEPT ![p].pc = "fragments", ![p].idx = 0, ![p].attempt = @ + 1]
  <2> DEFINE s == [send[p] EXCEPT !.pc = "fragments", !.idx = 0, !.attempt = @ + 1]
  <2>1. send' = [send EXCEPT ![p] = s]
    BY <1>2 DEF TypeOK, SendTypeOK
  <2>2. send[p].msg \in Message /\ send[p].seq = send[p].msg
    BY DEF TypeOK, SendTypeOK, FrameInv, SendFrames
  <2>3. s.seq = s.msg /\ s.idx < Fragments[s.msg]
    <3>1. s.msg = send[p].msg /\ s.seq = send[p].seq /\ s.idx = 0
      BY DEF TypeOK, SendTypeOK
    <3> QED
      BY <2>2, <3>1, FragmentCounts
  <2> HIDE DEF s
  <2> QED
    BY <2>1, <2>3, SendFramesStep
<1> QED
  BY <1>1, <1>2 DEF FailAttempt

LEMMA WriteFrameFrames ==
  ASSUME TypeOK, FrameInv, NEW p \in Peer, NEW f \in Framed, WriteFrame(p, f)
  PROVE  NetFrames'
<1> DEFINE t == track[p]
           v == Append(net[p][t], f)
<1>1. t \in Track /\ net[p][t] \in Seq(Framed)
  BY DEF TypeOK, NetTypeOK, FrameInv, NetFrames
<1>2. v \in Seq(Framed)
  BY <1>1, AppendProperties
<1>3. net' = net \/ net' = [net EXCEPT ![p][t] = v]
  BY DEF WriteFrame
<1>4. DOMAIN net = Peer /\ DOMAIN net[p] = Track /\ NetFrames
  BY DEF TypeOK, NetTypeOK, FrameInv
<1> HIDE DEF v, t
<1>5. ASSUME NEW r \in Peer, NEW u \in Track PROVE net'[r][u] \in Seq(Framed)
  <2>1. net'[r][u] = net[r][u] \/ net'[r][u] = v
    BY <1>1, <1>3, <1>4
  <2>2. net[r][u] \in Seq(Framed)
    BY <1>4 DEF NetFrames
  <2> QED
    BY <1>2, <2>1, <2>2
<1> QED
  BY <1>5 DEF NetFrames

LEMMA TakeFrameFrames ==
  ASSUME TypeOK, FrameInv, NEW p \in Peer, NEW t \in Track, TakeFrame(p, t)
  PROVE  Head(net[Other(p)][t]) \in Framed /\ NetFrames' /\ SendFrames' /\ QueueFrames'
<1> DEFINE q == Other(p)
           s == net[q][t]
           v == Tail(s)
<1>1. q \in Peer /\ s \in Seq(Framed) /\ s # <<>>
  BY OtherPeer DEF FrameInv, NetFrames, TakeFrame
<1>2. Head(s) \in Framed /\ v \in Seq(Framed)
  BY <1>1
<1>3. net' = [net EXCEPT ![q][t] = v]
  BY DEF TakeFrame
<1>4. DOMAIN net = Peer /\ DOMAIN net[q] = Track /\ NetFrames
  BY <1>1 DEF TypeOK, NetTypeOK, FrameInv
<1>5. SendFrames' /\ QueueFrames'
  BY DEF TakeFrame, FrameInv, SendFrames, QueueFrames
<1> HIDE DEF q, v, s
<1>6. ASSUME NEW r \in Peer, NEW u \in Track PROVE net'[r][u] \in Seq(Framed)
  <2>1. net'[r][u] = net[r][u] \/ net'[r][u] = v
    BY <1>1, <1>3, <1>4
  <2>2. net[r][u] \in Seq(Framed)
    BY <1>4 DEF NetFrames
  <2> QED
    BY <1>2, <2>1, <2>2
<1>7. NetFrames'
  BY <1>6 DEF NetFrames
<1> QED
  BY <1>2, <1>5, <1>7 DEF q, s

LEMMA SetReaderFrames ==
  ASSUME TypeOK, FrameInv, NEW p \in Peer, NEW t \in Track, NEW pc, NEW f \in Framed,
         NEW intact, SetReader(p, t, pc, f, intact)
  PROVE  ReaderFrames'
<1>1. ReaderFrames /\ f.seq = f.crc
  BY DEF FrameInv, Framed
<1>2. \A q \in Peer, u \in Track :
        \/ reader'[q][u] = reader[q][u]
        \/ reader'[q][u].seq = f.seq /\ reader'[q][u].crc = f.crc
  BY DEF SetReader, TypeOK, RecvTypeOK
<1> QED
  BY <1>1, <1>2 DEF ReaderFrames

LEMMA NextFrames ==
  ASSUME NTracks = 1, TypeOK, FrameInv, [Next]_vars
  PROVE  FrameInv'
<1> USE OtherPeer
<1>0. SendFrames /\ QueueFrames /\ NetFrames /\ ReaderFrames
  BY DEF FrameInv
<1>1. ASSUME UNCHANGED <<nextSeq, msgs, send, outbound, outAck, net, reader>>
      PROVE  FrameInv'
  BY <1>0, <1>1 DEF FrameInv, SendFrames, QueueFrames, NetFrames, ReaderFrames
<1>2. ASSUME NEW p \in Peer,
             \/ Connect(p) \/ PollAcks(p) \/ WriteIdle(p) \/ WriterExit(p) \/ Close(p)
             \/ Retrack(p)
      PROVE  FrameInv'
  <2>1. UNCHANGED <<nextSeq, msgs, send, outbound, outAck, net, reader>>
    BY <1>2 DEF Connect, PollAcks, WriteIdle, WriterExit, Close, Retrack
  <2> QED
    BY <1>1, <2>1
<1>3. ASSUME NEW p \in Peer, StartSend(p) PROVE FrameInv'
  <2>1. QueueFrames' /\ NetFrames' /\ ReaderFrames'
    BY <1>0, <1>3 DEF StartSend, QueueFrames, NetFrames, ReaderFrames
  <2>2. msgs[p] \in Nat /\ nextSeq[p] = msgs[p] /\ msgs[p] + 1 \in Message
    BY <1>0, <1>3, Bounds DEF StartSend, TypeOK, SendTypeOK, SendFrames, Message
  <2>3. /\ nextSeq' = [nextSeq EXCEPT ![p] = msgs[p] + 1]
        /\ msgs' = [msgs EXCEPT ![p] = msgs[p] + 1]
        /\ send' = [send EXCEPT ![p] = [pc |-> "fragments", seq |-> msgs[p] + 1,
                                        msg |-> msgs[p] + 1, idx |-> 0, attempt |-> 1]]
    BY <1>3, <2>2 DEF StartSend
  <2>4. 0 < Fragments[msgs[p] + 1]
    BY <2>2, FragmentCounts
  <2>5. SendFrames'
    BY <1>0, <2>3, <2>4 DEF SendFrames, TypeOK, SendTypeOK
  <2> QED
    BY <2>1, <2>5 DEF FrameInv
<1>4. ASSUME NEW p \in Peer, QueueFragment(p) PROVE FrameInv'
  <2> DEFINE f == DataFrame(send[p].seq, send[p].msg, send[p].idx)
             v == Append(outbound[p], f)
             s == IF send[p].idx + 1 < Fragments[send[p].msg]
                  THEN [send[p] EXCEPT !.idx = @ + 1] ELSE [send[p] EXCEPT !.pc = "wait"]
  <2>1. /\ send[p].msg \in Message /\ send[p].seq = send[p].msg /\ send[p].seq \in Nat
        /\ send[p].idx \in Nat /\ send[p].idx < Fragments[send[p].msg]
    BY <1>0, <1>4 DEF QueueFragment, TypeOK, SendTypeOK, SendFrames
  <2>2. f \in Framed
    BY <2>1 DEF Framed, Frame, DataFrame
  <2>3. /\ outbound' = [outbound EXCEPT ![p] = v] /\ send' = [send EXCEPT ![p] = s]
        /\ UNCHANGED <<outAck, net, reader, nextSeq, msgs>>
    BY <1>4 DEF QueueFragment
  <2>4. s.seq = s.msg /\ s.idx < Fragments[s.msg]
    BY <2>1 DEF TypeOK, SendTypeOK
  <2>5. v \in Seq(Framed)
    <3> HIDE DEF f
    <3> QED
      BY <1>0, <2>2, AppendProperties DEF QueueFrames
  <2> HIDE DEF f, v, s
  <2>6. SendFrames'
    BY <2>3, <2>4, SendFramesStep
  <2>7. QueueFrames'
    BY <1>0, <2>3, <2>5 DEF QueueFrames, TypeOK, QueueTypeOK
  <2>8. NetFrames' /\ ReaderFrames'
    BY <1>0, <2>3 DEF NetFrames, ReaderFrames
  <2> QED
    BY <2>6, <2>7, <2>8 DEF FrameInv
<1>5. ASSUME NEW p \in Peer, ReceiveAck(p) \/ AckTimeout(p) \/ SendClosed(p) PROVE FrameInv'
  <2>1. UNCHANGED <<nextSeq, msgs, outbound, outAck, net, reader>>
    BY <1>5 DEF ReceiveAck, AckTimeout, SendClosed
  <2>2. SendFrames'
    <3>1. CASE ReceiveAck(p)
      BY <2>1, <3>1, ReturnFrames, FailAttemptFrames DEF ReceiveAck
    <3>2. CASE AckTimeout(p)
      BY <2>1, <3>2, FailAttemptFrames DEF AckTimeout
    <3>3. CASE SendClosed(p)
      BY <2>1, <3>3, ReturnFrames DEF SendClosed
    <3> QED
      BY <1>5, <3>1, <3>2, <3>3
  <2>3. QueueFrames' /\ NetFrames' /\ ReaderFrames'
    BY <1>0, <2>1 DEF QueueFrames, NetFrames, ReaderFrames
  <2> QED
    BY <2>2, <2>3 DEF FrameInv
<1>6. ASSUME NEW p \in Peer, WriteAck(p) PROVE FrameInv'
  <2> DEFINE s == outAck[p]
             v == Tail(s)
  <2>1. s \in Seq(Framed) /\ s # <<>>
    BY <1>0, <1>6 DEF WriteAck, QueueFrames
  <2>2. Head(s) \in Framed /\ v \in Seq(Framed)
    BY <2>1
  <2>3. NetFrames'
    BY <1>6, <2>2, WriteFrameFrames DEF WriteAck
  <2>4. outAck' = [outAck EXCEPT ![p] = v] /\ UNCHANGED <<outbound, send, nextSeq, msgs, reader>>
    BY <1>6 DEF WriteAck, WriteFrame
  <2> HIDE DEF s, v
  <2>5. QueueFrames'
    BY <1>0, <2>2, <2>4 DEF QueueFrames, TypeOK, QueueTypeOK
  <2>6. SendFrames' /\ ReaderFrames'
    BY <1>0, <2>4 DEF SendFrames, ReaderFrames
  <2> QED
    BY <2>3, <2>5, <2>6 DEF FrameInv
<1>7. ASSUME NEW p \in Peer, WriteData(p) PROVE FrameInv'
  <2> DEFINE s == outbound[p]
             v == Tail(s)
  <2>1. s \in Seq(Framed) /\ s # <<>>
    BY <1>0, <1>7 DEF WriteData, QueueFrames
  <2>2. Head(s) \in Framed /\ v \in Seq(Framed)
    BY <2>1
  <2>3. NetFrames'
    BY <1>7, <2>2, WriteFrameFrames DEF WriteData
  <2>4. outbound' = [outbound EXCEPT ![p] = v] /\ UNCHANGED <<outAck, send, nextSeq, msgs, reader>>
    BY <1>7 DEF WriteData, WriteFrame
  <2> HIDE DEF s, v
  <2>5. QueueFrames'
    BY <1>0, <2>2, <2>4 DEF QueueFrames, TypeOK, QueueTypeOK
  <2>6. SendFrames' /\ ReaderFrames'
    BY <1>0, <2>4 DEF SendFrames, ReaderFrames
  <2> QED
    BY <2>3, <2>5, <2>6 DEF FrameInv
<1>8. ASSUME NEW p \in Peer, NEW t \in Track,
             ReadAck(p, t) \/ ReadDuplicate(p, t) \/ ReadFragment(p, t) \/ ReadLast(p, t)
      PROVE  FrameInv'
  <2> DEFINE f == Head(net[Other(p)][t])
  <2>1. TakeFrame(p, t)
    BY <1>8 DEF ReadAck, ReadDuplicate, ReadFragment, ReadLast
  <2>2. f \in Framed /\ SendFrames' /\ QueueFrames' /\ NetFrames'
    BY <2>1, TakeFrameFrames
  <2>3. \/ UNCHANGED reader
        \/ SetReader(p, t, "ack", f, TRUE)
        \/ SetReader(p, t, "handoff", f, \A g \in Partial(p, f) : g.intact)
    BY <1>8 DEF ReadAck, ReadDuplicate, ReadFragment, ReadLast
  <2> HIDE DEF f
  <2>4. ReaderFrames'
    <3>1. CASE UNCHANGED reader
      BY <1>0, <3>1 DEF ReaderFrames
    <3>2. CASE SetReader(p, t, "ack", f, TRUE)
      BY <2>2, <3>2, SetReaderFrames
    <3>3. CASE SetReader(p, t, "handoff", f, \A g \in Partial(p, f) : g.intact)
      BY <2>2, <3>3, SetReaderFrames
    <3> QED
      BY <2>3, <3>1, <3>2, <3>3
  <2> QED
    BY <2>2, <2>4 DEF FrameInv
<1>9. ASSUME NEW p \in Peer, NEW t \in Track, HandOff(p, t) PROVE FrameInv'
  <2>1. UNCHANGED <<nextSeq, msgs, send, outbound, outAck, net>>
    BY <1>9 DEF HandOff
  <2>2. \A q \in Peer, u \in Track :
          /\ reader'[q][u].pc # "read" => reader[q][u].pc # "read"
          /\ reader'[q][u].seq = reader[q][u].seq /\ reader'[q][u].crc = reader[q][u].crc
    BY <1>9 DEF HandOff, TypeOK, RecvTypeOK
  <2>3. ReaderFrames'
    BY <1>0, <2>2 DEF ReaderFrames
  <2>4. SendFrames' /\ QueueFrames' /\ NetFrames'
    BY <1>0, <2>1 DEF SendFrames, QueueFrames, NetFrames
  <2> QED
    BY <2>3, <2>4 DEF FrameInv
<1>10. ASSUME NEW p \in Peer, NEW t \in Track, SendAck(p, t) PROVE FrameInv'
  <2> DEFINE f == AckFrame(reader[p][t].seq, reader[p][t].crc)
             v == Append(outAck[p], f)
  <2>1. reader[p][t].seq \in Nat /\ reader[p][t].crc \in Message
        /\ reader[p][t].seq = reader[p][t].crc
    BY <1>0, <1>10 DEF SendAck, TypeOK, RecvTypeOK, ReaderFrames
  <2>2. f \in Framed
    BY <2>1 DEF Framed, Frame, AckFrame
  <2>3. /\ UNCHANGED outAck \/ outAck' = [outAck EXCEPT ![p] = v]
        /\ reader' = [reader EXCEPT ![p][t] = IdleReader]
        /\ UNCHANGED <<nextSeq, msgs, send, outbound, net>>
    BY <1>10 DEF SendAck
  <2>4. v \in Seq(Framed)
    <3> HIDE DEF f
    <3> QED
      BY <1>0, <2>2, AppendProperties DEF QueueFrames
  <2> HIDE DEF f, v
  <2>5. QueueFrames'
    BY <1>0, <2>3, <2>4 DEF QueueFrames, TypeOK, QueueTypeOK
  <2>6. \A q \in Peer, u \in Track :
          reader'[q][u].pc # "read" => reader'[q][u] = reader[q][u]
    BY <2>3 DEF IdleReader, TypeOK, RecvTypeOK
  <2>7. ReaderFrames'
    BY <1>0, <2>6 DEF ReaderFrames
  <2>8. SendFrames' /\ NetFrames'
    BY <1>0, <2>3 DEF SendFrames, NetFrames
  <2> QED
    BY <2>5, <2>7, <2>8 DEF FrameInv
<1>11. ASSUME NEW p \in Peer, NEW t \in Track, Damage(p, t) PROVE FrameInv'
  <2> DEFINE s == net[p][t]
             f == [s[1] EXCEPT !.intact = FALSE]
             v == [s EXCEPT ![1] = f]
  <2>1. s \in Seq(Framed) /\ s # <<>> /\ 1 \in 1 .. Len(s)
    BY <1>0, <1>11 DEF NetFrames, Damage
  <2>2. s[1] \in Framed
    BY <2>1
  <2>3. f \in Framed
    BY <2>2 DEF Framed, Frame
  <2>4. v \in Seq(Framed)
    BY <2>1, <2>3, ExceptSeq
  <2>5. /\ net' = [net EXCEPT ![p][t] = v]
        /\ UNCHANGED <<nextSeq, msgs, send, outbound, outAck, reader>>
    BY <1>11 DEF Damage
  <2> HIDE DEF s, f, v
  <2>6. NetFrames'
    BY <1>0, <2>4, <2>5 DEF NetFrames, TypeOK, NetTypeOK
  <2>7. SendFrames' /\ QueueFrames' /\ ReaderFrames'
    BY <1>0, <2>5 DEF SendFrames, QueueFrames, ReaderFrames
  <2> QED
    BY <2>6, <2>7 DEF FrameInv
<1>12. ASSUME NEW p \in Peer, Restart(p) PROVE FrameInv'
  BY <1>12 DEF Restart, TypeOK, NetTypeOK, Track
<1>13. CASE UNCHANGED vars
  BY <1>1, <1>13
<1> QED
  BY <1>2, <1>3, <1>4, <1>5, <1>6, <1>7, <1>8, <1>9, <1>10, <1>11, <1>12, <1>13
     DEF Next, SendStep, WriterStep, ReaderStep, CarrierStep

LEMMA AlwaysFrames == ASSUME NTracks = 1 PROVE Spec => [](TypeOK /\ FrameInv)
<1>1. Init => TypeOK /\ FrameInv
  BY InitType, InitFrames
<1>2. (TypeOK /\ FrameInv) /\ [Next]_vars => (TypeOK /\ FrameInv)'
  BY NextType, NextFrames
<1> QED
  BY <1>1, <1>2, PTL DEF Spec
=============================================================================
