------------------------------ MODULE JazzPacket ------------------------------
(***************************************************************************)
(* The packets the jazz provider wraps messages in                         *)
(* (internal/provider/jazz/datapacket.go): a hand-written subset of        *)
(* protobuf. A byte is a number below 256, a position counts from 1. The   *)
(* identifier of a packet, a UUID of 36 characters, is abstracted to two.  *)
(***************************************************************************)
EXTENDS Integers, Sequences, FiniteSetsExt

Byte == 0 .. 255
MsgId == <<97, 45>>

(* binary.PutUvarint: seven bits a byte, the low ones first.               *)
EncodeVarint[value \in Nat] ==
  IF value < 128 THEN <<value>>
  ELSE <<128 + (value % 128)>> \o EncodeVarint[value \div 128]

(* encodeField: the tag, and for wire type 2 the length before the data.   *)
EncodeField(fieldNumber, wireType, data) ==
  EncodeVarint[8 * fieldNumber + wireType]
    \o (IF wireType = 2 THEN EncodeVarint[Len(data)] ELSE <<>>) \o data

(* EncodeDataPacket: the payload is field 2 of field 2 of the packet.      *)
EncodeDataPacket(payload) ==
  EncodeField(1, 0, EncodeVarint[0])
    \o EncodeField(2, 2, EncodeField(2, 2, payload) \o EncodeField(8, 2, MsgId))

(* readVarint from pos on: it ends with the first byte below 128, and fails*)
(* at the end of the data, which is then consumed.                         *)
ReadVarint(data, pos) ==
  LET ends == {i \in pos .. Len(data) : data[i] < 128}
      last == Min(ends)
  IN  IF ends = {} THEN [ok |-> FALSE, value |-> 0, pos |-> Len(data) + 1]
      ELSE [ok |-> TRUE, pos |-> last + 1,
            value |-> MapThenSumSet(LAMBDA i : (data[i] % 128) * 128^(i - pos), pos .. last)]

(* handleWireType: what one field holds, and where the next one begins. A  *)
(* varint is skipped even when it fails; a length beyond the data and an   *)
(* unknown wire type fail. So does an empty field at the end of the data:  *)
(* the reader returns io.EOF there, even for a read of no bytes.           *)
HandleWireType(data, pos, wireType) ==
  CASE wireType = 0 -> [ok |-> TRUE, field |-> <<>>, pos |-> ReadVarint(data, pos).pos]
    [] wireType = 1 -> [ok |-> TRUE, field |-> <<>>, pos |-> pos + 8]
    [] wireType = 5 -> [ok |-> TRUE, field |-> <<>>, pos |-> pos + 4]
    [] wireType = 2 ->
         LET length == ReadVarint(data, pos)
             next == length.pos + length.value
         IN  IF length.ok /\ length.pos <= Len(data) /\ next <= Len(data) + 1
             THEN [ok |-> TRUE, field |-> SubSeq(data, length.pos, next - 1), pos |-> next]
             ELSE [ok |-> FALSE, field |-> <<>>, pos |-> pos]
    [] OTHER -> [ok |-> FALSE, field |-> <<>>, pos |-> pos]

(* Mutant of ParseFields: the loop stops one byte early.                   *)
ParseFieldsShort(data, targetField) ==
  LET Parse[pos \in Nat, result \in Seq(Byte)] ==
        LET tag == ReadVarint(data, pos)
            field == HandleWireType(data, tag.pos, tag.value % 8)
            kept == IF tag.value \div 8 = targetField /\ tag.value % 8 = 2
                    THEN field.field ELSE result
        IN  IF pos >= Len(data) \/ ~tag.ok \/ ~field.ok THEN result ELSE Parse[field.pos, kept]
      found == Parse[1, <<>>]
  IN  [ok |-> found # <<>>, data |-> SubSeq(found, 1, Len(found) - 1)]

(* parseFields: the last field of that number and of wire type 2, if it is *)
(* not empty; what was found before a malformed field counts.              *)
ParseFields(data, targetField) ==
  LET Parse[pos \in Nat, result \in Seq(Byte)] ==
        LET tag == ReadVarint(data, pos)
            field == HandleWireType(data, tag.pos, tag.value % 8)
            kept == IF tag.value \div 8 = targetField /\ tag.value % 8 = 2
                    THEN field.field ELSE result
        IN  IF pos > Len(data) \/ ~tag.ok \/ ~field.ok THEN result ELSE Parse[field.pos, kept]
      found == Parse[1, <<>>]
  IN  [ok |-> found # <<>>, data |-> found]

DecodeDataPacket(raw) ==
  LET userData == ParseFields(raw, 2)
  IN  IF userData.ok THEN ParseFields(userData.data, 2) ELSE userData
=============================================================================
