--------------------------- MODULE OrderedDelivery --------------------------
(***************************************************************************)
(* What a transport whose Features say Reliable and Ordered promises for   *)
(* one direction: messages 1, 2, .. are submitted one at a time; the       *)
(* receiver gets each at most once and in the order of submission; a Send  *)
(* succeeds only when its message was received. A Send that fails tells    *)
(* nothing: its message may have been received, may still be received      *)
(* before any later one, or never.                                         *)
(***************************************************************************)
EXTENDS Integers, Sequences

CONSTANTS Limit   (* how many messages are submitted at most               *)

VARIABLES
  submitted,      (* the messages submitted are 1 .. submitted             *)
  result,         (* result[m]: what Send returned for m                   *)
  received        (* the messages the receiver got, in the order it got them*)
vars == <<submitted, result, received>>

LastReceived == IF received = <<>> THEN 0 ELSE received[Len(received)]

Init ==
  /\ submitted = 0
  /\ result = [m \in 1 .. Limit |-> "pending"]
  /\ received = <<>>

Submit ==
  /\ submitted < Limit
  /\ submitted > 0 => result[submitted] # "pending"
  /\ submitted' = submitted + 1
  /\ UNCHANGED <<result, received>>

Receive ==
  /\ \E m \in LastReceived + 1 .. submitted : received' = Append(received, m)
  /\ UNCHANGED <<submitted, result>>

Succeed ==
  /\ submitted > 0 /\ result[submitted] = "pending"
  /\ \E i \in 1 .. Len(received) : received[i] = submitted
  /\ result' = [result EXCEPT ![submitted] = "ok"]
  /\ UNCHANGED <<submitted, received>>

Fail ==
  /\ submitted > 0 /\ result[submitted] = "pending"
  /\ \E r \in {"ErrAckTimeout", "ErrTransportClosed"} :
       result' = [result EXCEPT ![submitted] = r]
  /\ UNCHANGED <<submitted, received>>

Next == Submit \/ Receive \/ Succeed \/ Fail
Spec == Init /\ [][Next]_vars
=============================================================================
