------------------------------- MODULE MuxConn -------------------------------
(***************************************************************************)
(* The byte stream a smux session runs on (internal/muxconn/conn.go), from *)
(* the goroutine of the near session that writes frames to the goroutine of*)
(* the far session that reads bytes. Write waits while the link signals    *)
(* back-pressure and hands each frame to it as one sealed message; Push    *)
(* opens what the link delivers and appends it to a buffer that Read       *)
(* empties in arbitrary slices, waiting on a condition variable.           *)
(*                                                                         *)
(* Messages are numbered in the order of their Writes; a message is two    *)
(* bytes of plaintext. The cipher is external: what it did not seal does   *)
(* not open.                                                               *)
(***************************************************************************)
EXTENDS Integers, Sequences, SequencesExt

CONSTANT Count  (* bound: messages the near session writes                  *)

ASSUME MuxAssumption == Count \in Nat

End == {"near", "far"}
Message == 1 .. Count

VARIABLES
  connClosed,  (* the conns whose closed is set                             *)
  writer,      (* the Write under way: where it is, and its message; "dead" *)
               (* after an error, which ends the session's writes           *)
  failure,     (* the error of that Write                                   *)
  buf,         (* buf of the far conn                                       *)
  reader,      (* the goroutine that calls Read at the far conn             *)
  received     (* history: the bytes Read returned                          *)

muxVars == <<connClosed, writer, failure, buf, reader, received>>

Seal(n) == <<n, 18, n>>
Sealed == {Seal(n) : n \in Message}
Text(n) == <<[msg |-> n, byte |-> 1], [msg |-> n, byte |-> 2]>>

Writing == writer.pc \in {"poll", "check", "send", "enqueue"}

MuxTypeOK ==
  /\ connClosed \subseteq End
  /\ writer \in [pc : {"idle", "poll", "check", "send", "enqueue", "dead"}, msg : Nat]
  /\ writer.msg <= Count /\ (writer.pc # "idle" => writer.msg \in Message)
  /\ failure \in {"none", "closed", "down", "timeout", "full"}
  /\ failure # "none" <=> writer.pc = "dead"
  /\ reader \in {"running", "waiting", "eof"}
  /\ reader = "waiting" => buf = <<>>

MuxInit ==
  /\ connClosed = {}
  /\ writer = [pc |-> "idle", msg |-> 0] /\ failure = "none"
  /\ buf = <<>> /\ reader = "running" /\ received = <<>>

-----------------------------------------------------------------------------
(* smux hands its next frame to Write.                                     *)
WriteBegins ==
  /\ writer.pc = "idle" /\ writer.msg < Count
  /\ writer' = [pc |-> "poll", msg |-> writer.msg + 1]
  /\ UNCHANGED <<connClosed, failure, buf, reader, received>>

WriteFails(error) ==
  /\ writer' = [writer EXCEPT !.pc = "dead"]
  /\ failure' = error
  /\ UNCHANGED <<connClosed, buf, reader, received>>

WriteGoesOn(pc) ==
  /\ writer' = [writer EXCEPT !.pc = pc]
  /\ UNCHANGED <<connClosed, failure, buf, reader, received>>

(* Mutant of CheckClosed: the loop of Write does not look at closed.       *)
CheckNothing == writer.pc = "poll" /\ WriteGoesOn("check")

(* The loop of Write: first isClosed, then CanSend of the link.            *)
CheckClosed ==
  /\ writer.pc = "poll"
  /\ IF "near" \in connClosed THEN WriteFails("closed") ELSE WriteGoesOn("check")

CheckCanSend(canSend) ==
  /\ writer.pc = "check"
  /\ WriteGoesOn(IF canSend THEN "send" ELSE "poll")

(* Close at either end; Broadcast wakes the reader of the far one.         *)
Wake == IF reader = "waiting" THEN "running" ELSE reader

(* Mutant of CloseConn: Close does not wake the reader.                    *)
CloseConnSilently(end) ==
  /\ end \notin connClosed
  /\ connClosed' = connClosed \cup {end}
  /\ UNCHANGED <<writer, failure, buf, reader, received>>

CloseConn(end) ==
  /\ end \notin connClosed
  /\ connClosed' = connClosed \cup {end}
  /\ reader' = IF end = "far" THEN Wake ELSE reader
  /\ UNCHANGED <<writer, failure, buf, received>>

(* Push: a payload that does not open is dropped, one for a closed conn    *)
(* too.                                                                    *)
Push(payload) ==
  /\ IF payload \in Sealed /\ "far" \notin connClosed
     THEN /\ buf' = buf \o Text(Head(payload))
          /\ reader' = Wake
     ELSE UNCHANGED <<buf, reader>>
  /\ UNCHANGED <<connClosed, writer, failure, received>>

(* Read: it takes some of the bytes, waits while there are none, and       *)
(* returns io.EOF when the conn is closed and empty.                       *)
Read ==
  /\ reader = "running"
  /\ \/ \E n \in 1 .. Len(buf) :
          /\ received' = received \o SubSeq(buf, 1, n)
          /\ buf' = SubSeq(buf, n + 1, Len(buf))
          /\ UNCHANGED reader
     \/ /\ buf = <<>>
        /\ reader' = IF "far" \in connClosed THEN "eof" ELSE "waiting"
        /\ UNCHANGED <<buf, received>>
  /\ UNCHANGED <<connClosed, writer, failure>>
=============================================================================
