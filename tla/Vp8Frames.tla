------------------------------ MODULE Vp8Frames ------------------------------
(***************************************************************************)
(* How vp8channel puts a frame together from RTP packets (internal/        *)
(* transport/vp8channel/transport.go: processRTPPacket, called by          *)
(* readVP8Track for one remote track), over a network that loses,          *)
(* duplicates, delays and damages packets. External: the packetizer, which *)
(* cuts a frame into packets, sets S on the first and the marker on the    *)
(* last and numbers them modulo 2^16, and the VP8 depacketizer, which fails*)
(* on a damaged packet.                                                    *)
(***************************************************************************)
EXTENDS Integers, Sequences, SequencesExt

CONSTANTS
  Frames,   (* the frames written, in order: how many packets each takes    *)
  Short,    (* those that are shorter than an epoch header (not ours)       *)
  FirstSeq  (* the number of the first packet                               *)

ASSUME FramesAssumption ==
  /\ Frames \in Seq(Nat \ {0}) /\ Short \subseteq DOMAIN Frames
  /\ FirstSeq \in Nat /\ FirstSeq < 65536

VARIABLES
  assembly,   (* vp8FrameState: lastSeq and haveLastSeq (None before a      *)
              (* packet), frameBuf, frameValid                              *)
  lately,     (* history: the last packets processed                        *)
  assembled   (* history: the frames handed to handleIncomingFrame          *)

framesVars == <<assembly, lately, assembled>>

NoSeq == -1
Longest == 3  (* bound: how many packets lately holds                       *)

(* A packet: its number, S, the marker, whether it is intact, and what of  *)
(* which frame it carries.                                                 *)
Whole(f) == [i \in 1 .. Frames[f] |-> <<f, i>>]
Before(f) == Len(FlattenSeq([g \in 1 .. f - 1 |-> Whole(g)]))
PacketSeq(f, i) == (FirstSeq + Before(f) + i - 1) % 65536
Packet(f, i) == [seq |-> PacketSeq(f, i), start |-> i = 1,
                 marker |-> i = Frames[f], intact |-> TRUE, data |-> <<f, i>>]
Packets(f) == [i \in 1 .. Frames[f] |-> Packet(f, i)]
AllPackets == UNION {Range(Packets(f)) : f \in DOMAIN Frames}

FramesInit ==
  /\ assembly = [lastSeq |-> NoSeq, buf |-> <<>>, valid |-> FALSE]
  /\ lately = <<>> /\ assembled = {}

(* Mutant of Continues: the numbers of packets are not compared.           *)
ContinuesAlways(packet) == TRUE

(* The packet follows the last one, as far as its number says.             *)
Continues(packet) ==
  assembly.lastSeq \in {NoSeq, (packet.seq + 65535) % 65536}

(* processRTPPacket: a gap and a damaged packet end the frame under way, S *)
(* starts one, the marker hands it on unless it is too short.              *)
ProcessRTPPacket(packet) ==
  LET valid == packet.intact /\ (packet.start \/ (assembly.valid /\ Continues(packet)))
      buf == (IF packet.start THEN <<>> ELSE assembly.buf) \o <<packet.data>>
      more == valid /\ ~packet.marker
  IN  /\ assembly' = [lastSeq |-> packet.seq, valid |-> more, buf |-> IF more THEN buf ELSE <<>>]
      /\ assembled' = IF valid /\ packet.marker /\ Head(buf)[1] \notin Short
                      THEN assembled \cup {buf} ELSE assembled
      /\ lately' = LET all == Append(lately, packet)
                   IN  SubSeq(all, IF Len(all) > Longest THEN 2 ELSE 1, Len(all))

(* The network delivers any packet, any number of times, or its remains.   *)
FramesNext ==
  \E packet \in AllPackets : \E intact \in BOOLEAN :
    ProcessRTPPacket([packet EXCEPT !.intact = intact])

-----------------------------------------------------------------------------
(* "Detects packet loss/reordering to avoid silently corrupting fragmented *)
(* VP8 frames" (vp8channel/transport.go, 416): what is handed on is one of *)
(* the frames written, whole; and a frame whose packets arrive one after   *)
(* the other is handed on, whatever came before them.                      *)
FramesAreWhole ==
  /\ \A frame \in assembled : \E f \in DOMAIN Frames : frame = Whole(f)
  /\ \A f \in DOMAIN Frames \ Short : IsSuffix(Packets(f), lately) => Whole(f) \in assembled
=============================================================================
