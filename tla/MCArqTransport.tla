--------------------------- MODULE MCArqTransport ---------------------------
(* Instances of ArqTransport for TLC: how many messages each peer sends,   *)
(* into how many fragments each is cut, who may restart; and the bytes of  *)
(* three messages, for the codec.                                          *)
EXTENDS ArqTransport, SeiCodec

ShortLongShort == <<1, 2, 1>>
TwoShort == <<1, 1>>
ClientSendsThree == [p \in Peer |-> IF p = "client" THEN 3 ELSE 0]
ClientSendsTwo == [p \in Peer |-> IF p = "client" THEN 2 ELSE 0]
NoRestarts == [p \in Peer |-> 0]
ClientRestarts == [p \in Peer |-> IF p = "client" THEN 1 ELSE 0]

-----------------------------------------------------------------------------
(* A full fragment makes an SEI message of exactly 255 bytes; runs of zeros*)
(* in the data, and those of the header, need the emulation prevention.    *)
FragmentSize == 217
ZerosAndThrees(n) == [i \in 1 .. n |-> IF i % 6 = 0 THEN 3 ELSE 0]
Bytes == <<<<0, 0, 3, 0, 0>>, ZerosAndThrees(FragmentSize) \o <<0, 0, 1>>, <<>>>>
Crc == <<<<0, 0, 3, 0>>, <<0, 0, 0, 255>>, <<0, 0, 0, 0>>>>

Encoded(f) ==
  LET fragments == FragmentPayload(Bytes[f.crc], FragmentSize)
  IN  IF f.typ = "ack" THEN EncodeAckFrame(f.seq, Crc[f.crc])
      ELSE EncodeDataFrame(f.seq, Crc[f.crc], Len(Bytes[f.crc]), f.idx, Len(fragments),
                           fragments[f.idx + 1])

(* The parts that readers of the frame rely on arrive as they were sent.   *)
Carries(decoded, f) ==
  /\ decoded.typ = f.typ /\ decoded.seq = f.seq /\ decoded.crc = Crc[f.crc]
  /\ f.typ = "data" =>
       /\ decoded.fragIdx = f.idx /\ decoded.fragTotal = Fragments[f.crc]
       /\ decoded.totalLen = Len(Bytes[f.crc])
       /\ decoded.payload = SubSeq(Bytes[f.crc], FragmentSize * f.idx + 1,
                              FragmentSize * f.idx + Len(decoded.payload))
       /\ Len(decoded.payload) = IF f.idx + 1 = Fragments[f.crc]
                                 THEN Len(Bytes[f.crc]) - FragmentSize * f.idx ELSE FragmentSize

Sent == {DataFrame(n, n, i) : n \in 1 .. 3, i \in 0 .. 1} \cup {AckFrame(n, n) : n \in 1 .. 3}
Surviving == {f \in Sent : f.idx < Fragments[f.crc] /\
  LET payloads == ExtractVideoPayloads(BuildVideoAccessUnit(Encoded(f)))
  IN  Len(payloads) = 1 /\ Carries(DecodeTransportFrame(payloads[1]), f)}

(* Each frame in flight, as the bytes of an H.264 access unit, is read by  *)
(* the other side as the one frame that was written: no start code, no SEI *)
(* size at a multiple of 255 and no escape gets in its way.                *)
FramesSurviveCodec ==
  \A p \in Peer, t \in Track : \A i \in DOMAIN net[p][t] :
    net[p][t][i].intact => net[p][t][i] \in Surviving
=============================================================================
