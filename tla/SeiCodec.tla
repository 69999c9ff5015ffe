------------------------------- MODULE SeiCodec ------------------------------
(***************************************************************************)
(* The bytes of the video channels: a transport frame (seichannel/         *)
(* transport.go and videochannel/frame.go, which differ in the magic), and *)
(* for seichannel the H.264 access unit that carries it as an SEI message  *)
(* (seichannel/h264.go). A byte is a number below 256. The CRC-32 of a     *)
(* message is given as its four bytes. External: the library that finds    *)
(* the NAL units of an access unit by their start codes.                   *)
(***************************************************************************)
EXTENDS Integers, Sequences, SequencesExt

Magic == <<79, 86, 67, 49>>
Uint16(n) == <<(n \div 256) % 256, n % 256>>
Uint32(n) == Uint16(n \div 65536) \o Uint16(n)
GetUint16(bytes, pos) == 256 * bytes[pos] + bytes[pos + 1]
GetUint32(bytes, pos) == 65536 * GetUint16(bytes, pos) + GetUint16(bytes, pos + 2)

(* fragmentPayload: an empty message is one empty fragment.                *)
FragmentPayload(data, maxSize) ==
  IF data = <<>> THEN <<<<>>>>
  ELSE [i \in 1 .. (Len(data) + maxSize - 1) \div maxSize |->
          SubSeq(data, maxSize * (i - 1) + 1,
                 IF maxSize * i < Len(data) THEN maxSize * i ELSE Len(data))]

EncodeDataFrame(seq, crc, totalLen, fragIdx, fragTotal, payload) ==
  Magic \o <<1, 1>> \o Uint32(seq) \o crc \o Uint32(totalLen)
    \o Uint16(fragIdx) \o Uint16(fragTotal) \o payload

EncodeAckFrame(seq, crc) == Magic \o <<1, 2>> \o Uint32(seq) \o crc

(* decodeTransportFrame: no frame, an acknowledgement or a fragment.       *)
NoFrame == [typ |-> "none"]
DecodeTransportFrame(data) ==
  IF Len(data) < 6 \/ SubSeq(data, 1, 4) # Magic \/ data[5] # 1 THEN NoFrame
  ELSE IF data[6] = 2 /\ Len(data) >= 14
  THEN [typ |-> "ack", seq |-> GetUint32(data, 7), crc |-> SubSeq(data, 11, 14)]
  ELSE IF data[6] = 1 /\ Len(data) >= 22
  THEN [typ |-> "data", seq |-> GetUint32(data, 7), crc |-> SubSeq(data, 11, 14),
        totalLen |-> GetUint32(data, 15), fragIdx |-> GetUint16(data, 19),
        fragTotal |-> GetUint16(data, 21), payload |-> SubSeq(data, 23, Len(data))]
  ELSE NoFrame

-----------------------------------------------------------------------------
UUID == <<93, 192, 59, 168, 69, 15, 75, 85, 154, 119, 31, 145, 108, 91, 7, 57>>
SPS == <<103, 66, 192, 10, 221, 236, 4, 64, 0, 0, 3, 0, 64, 0, 0, 3, 0, 163, 196, 137, 224>>
PPS == <<104, 206, 15, 200>>
IDR == <<101, 136, 132, 58, 38, 40, 0, 9, 2, 224>>
StartCode == <<0, 0, 0, 1>>

(* appendSEIValue: as many bytes 255 as go into the value, and the rest.   *)
SEIValue(value) == [i \in 1 .. value \div 255 |-> 255] \o <<value % 255>>

(* escapeRBSP with its loop: zeros[i] is how many zeros it has counted once *)
(* byte i is out, and after two of them a byte up to most is preceded by a *)
(* 3, which starts the count again; byte i is put at place[i].             *)
EscapeUpTo(rbsp, most) ==
  LET zeros[i \in 0 .. Len(rbsp)] ==
        IF i = 0 THEN 0
        ELSE IF rbsp[i] # 0 THEN 0
        ELSE IF zeros[i - 1] >= 2 THEN 1 ELSE zeros[i - 1] + 1
      escaped == {i \in 1 .. Len(rbsp) : rbsp[i] <= most /\ zeros[i - 1] >= 2}
      place == [i \in 1 .. Len(rbsp) |-> i + Cardinality({e \in escaped : e <= i})]
  IN  [j \in 1 .. Len(rbsp) + Cardinality(escaped) |->
         IF \E i \in DOMAIN place : place[i] = j
         THEN rbsp[CHOOSE i \in DOMAIN place : place[i] = j] ELSE 3]

(* Mutant of EscapeRBSP: a byte 3 after two zeros is not escaped.          *)
EscapeRBSPNot3(rbsp) == EscapeUpTo(rbsp, 2)
EscapeRBSP(rbsp) == EscapeUpTo(rbsp, 3)

(* unescapeRBSP: every 3 after two zeros of the input goes.                *)
UnescapeRBSP(rbsp) ==
  LET dropped == {i \in 3 .. Len(rbsp) : rbsp[i] = 3 /\ rbsp[i - 1] = 0 /\ rbsp[i - 2] = 0}
      place == [i \in (1 .. Len(rbsp)) \ dropped |-> i - Cardinality({d \in dropped : d < i})]
  IN  [j \in 1 .. Len(rbsp) - Cardinality(dropped) |->
         rbsp[CHOOSE i \in DOMAIN place : place[i] = j]]

(* buildSEINAL: one message of type 5 (user data) and the stop bit.        *)
BuildSEINAL(payload) ==
  <<6>> \o EscapeRBSP(SEIValue(5) \o SEIValue(16 + Len(payload)) \o UUID \o payload \o <<128>>)

BuildVideoAccessUnit(payload) ==
  StartCode \o SPS \o StartCode \o PPS
    \o (IF payload = <<>> THEN <<>> ELSE StartCode \o BuildSEINAL(payload))
    \o StartCode \o IDR

(* consumeSEIValue from pos on.                                            *)
ConsumeSEIValue(data, pos) ==
  LET ends == {i \in pos .. Len(data) : data[i] # 255}
      last == CHOOSE i \in ends : \A j \in ends : i <= j
  IN  IF ends = {} THEN [ok |-> FALSE, value |-> 0, pos |-> pos]
      ELSE [ok |-> TRUE, value |-> 255 * (last - pos) + data[last], pos |-> last + 1]

(* extractTransportSEI: the messages of type 5 that begin with the UUID; a *)
(* malformed one makes it drop them all.                                   *)
ExtractTransportSEI(rbsp) ==
  LET data == UnescapeRBSP(rbsp)
      Extract[pos \in 1 .. Len(data) + 1] ==
        LET type == ConsumeSEIValue(data, pos)
            size == ConsumeSEIValue(data, type.pos)
            payload == SubSeq(data, size.pos, size.pos + size.value - 1)
            rest == Extract[size.pos + size.value]
            frame == IF type.value = 5 /\ IsPrefix(UUID, payload)
                     THEN <<SubSeq(payload, 17, Len(payload))>> ELSE <<>>
        IN  IF pos > Len(data) \/ (pos = Len(data) /\ data[pos] = 128)
            THEN [ok |-> TRUE, frames |-> <<>>]
            ELSE IF ~type.ok \/ ~size.ok \/ size.pos + size.value - 1 > Len(data)
            THEN [ok |-> FALSE, frames |-> <<>>]
            ELSE [ok |-> rest.ok, frames |-> frame \o rest.frames]
      extracted == Extract[1]
  IN  IF extracted.ok THEN extracted.frames ELSE <<>>

(* extractVideoPayloads: the SEI units among the NAL units, each of which  *)
(* goes from one start code to the next.                                   *)
ExtractVideoPayloads(unit) ==
  LET codes == {i \in 1 .. Len(unit) - 2 : unit[i] = 0 /\ unit[i + 1] = 0 /\ unit[i + 2] = 1}
      next(pos) == CHOOSE i \in codes : i >= pos /\ \A j \in codes : j >= pos => i <= j
      last(i) == IF \A j \in codes : j <= i THEN Len(unit)
                 ELSE next(i + 1) - (IF unit[next(i + 1) - 1] = 0 THEN 2 ELSE 1)
      nal(i) == SubSeq(unit, i + 3, last(i))
      found(i) == IF Len(nal(i)) >= 2 /\ nal(i)[1] % 32 = 6
                  THEN ExtractTransportSEI(Tail(nal(i))) ELSE <<>>
      Payloads[pos \in 1 .. Len(unit) + 1] ==
        IF \A i \in codes : i < pos THEN <<>> ELSE found(next(pos)) \o Payloads[next(pos) + 1]
  IN  Payloads[1]
=============================================================================
