----------------------------- MODULE MCVp8Epoch -----------------------------
(* Instances of Vp8Epoch for TLC.                                          *)
EXTENDS Vp8Epoch

OneReaderEach == [p \in Peer |-> {"reader1"}]
TwoAtClient == [p \in Peer |-> IF p = "client" THEN {"reader1", "reader2"} ELSE {}]
Never == [p \in Peer |-> 0]
ClientOnce == [p \in Peer |-> IF p = "client" THEN 1 ELSE 0]
ClientTwice == [p \in Peer |-> IF p = "client" THEN 2 ELSE 0]
ServerOnce == [p \in Peer |-> IF p = "server" THEN 1 ELSE 0]
OnceEach == [p \in Peer |-> 1]
=============================================================================
