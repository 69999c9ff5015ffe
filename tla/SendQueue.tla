------------------------------ MODULE SendQueue ------------------------------
(***************************************************************************)
(* What the peers of the three carriers have in common: a bounded queue    *)
(* that Send fills, worker goroutines that empty it onto the carrier (one  *)
(* at jazz and wbstream, several at telemost), and a Close that stops them.*)
(* The carrier is external: it is reliable and keeps the order of what one *)
(* peer gives it.                                                          *)
(***************************************************************************)
EXTENDS Integers, Sequences

CONSTANTS
  Capacity,   (* capacity of sendQueue (5000 in the code)                   *)
  HighWater,  (* length from which jazz's CanSend refuses (4000)            *)
  Large,      (* messages beyond the limit of the data channel (12288 bytes *)
              (* at jazz, trafficShape.MaxMessageSize at telemost)          *)
  Workers     (* worker goroutines of telemost's data channel (4)           *)

ASSUME QueueAssumption ==
  Capacity \in Nat /\ HighWater \in 1 .. Capacity /\ Workers \in Nat \ {0}

Worker == 1 .. Workers

VARIABLES
  connect,  (* where Connect is, and how it ended                           *)
  queue,    (* sendQueue                                                    *)
  worker,   (* each goroutine of processSendQueue and the message it took   *)
  wire,     (* what the carrier has yet to deliver to the other peer        *)
  closer,   (* where Close is                                               *)
  taken,    (* history: what Send put into the queue, in order              *)
  dropped   (* history: messages the worker took and did not send           *)

queueVars == <<connect, queue, worker, wire, closer, taken, dropped>>

NoItem == <<>>
WorkersEnded == \A w \in Worker : worker[w].pc \in {"none", "gone"}

QueueInit ==
  /\ connect = "idle"
  /\ queue = <<>> /\ worker = [w \in Worker |-> [pc |-> "none", item |-> NoItem]]
  /\ wire = <<>> /\ closer = "open"
  /\ taken = <<>> /\ dropped = {}

(* Mutant of Room: one message more than the queue holds.                  *)
RoomForOneMore == Len(queue) <= Capacity

Room == Len(queue) < Capacity

Enqueue(item) ==
  /\ queue' = Append(queue, item)
  /\ taken' = Append(taken, item)
  /\ UNCHANGED <<connect, worker, wire, closer, dropped>>

(* Workers wait for messages from now on.                                  *)
Start(workers) ==
  worker' = [w \in Worker |-> IF w \in workers THEN [pc |-> "waiting", item |-> NoItem]
                              ELSE worker[w]]

(* A worker receives the head of the queue.                                *)
Take(w) ==
  /\ worker[w].pc = "waiting" /\ queue # <<>>
  /\ worker' = [worker EXCEPT ![w] = [pc |-> "sending", item |-> Head(queue)]]
  /\ queue' = Tail(queue)

Goes(w, pc) == worker' = [worker EXCEPT ![w] = [pc |-> pc, item |-> NoItem]]

(* A worker is done with its message: it is on the wire, or dropped.       *)
Put(w, packet) ==
  /\ Goes(w, "waiting")
  /\ wire' = Append(wire, packet)
  /\ UNCHANGED dropped
Drop(w, pc) ==
  /\ Goes(w, pc)
  /\ dropped' = dropped \cup {worker[w].item}
  /\ UNCHANGED wire

(* The connection to the carrier is lost, and some of what it had.         *)
LoseWire == \E n \in 0 .. Len(wire) : wire' = SubSeq(wire, 1, n)
=============================================================================
