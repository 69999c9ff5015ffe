----------------------------- MODULE MCReconnect -----------------------------
(* The two ends of a reconnect, for TLC: the server that replaces its       *)
(* session when the link calls back (ServerSession), and the peer under the *)
(* link that connects again (TelemostPeer). What they see of each other is  *)
(* the callback, which ServerSession lets come at any time, so each is      *)
(* explored apart: a behaviour runs one of the two.                         *)
EXTENDS MCServerSession, TelemostPeer

OneWorker == {"worker1"}

VARIABLE end  (* the end that runs, "server" or "peer"                      *)

allVars == <<end, vars, peerVars>>

AllInit == end \in {"server", "peer"} /\ Init /\ PeerInit
OfServer == end = "server" /\ Next /\ UNCHANGED <<end, peerVars>>
OfPeer == end = "peer" /\ PeerNext /\ UNCHANGED <<end, vars>>
AllNext == OfServer \/ OfPeer

(* The fairness of the two modules. One condition holds a goroutine of each *)
(* end: a behaviour has steps of one of them only.                          *)
Fair(atServer, atPeer) ==
  \/ end = "server" /\ atServer /\ UNCHANGED <<end, peerVars>>
  \/ end = "peer" /\ atPeer /\ UNCHANGED <<end, vars>>

NoStep == FALSE
AllFairness ==
  /\ WF_allVars(Fair(Connected \/ ConnectFails, ConnectStep \/ WatchStep))
  /\ WF_allVars(Fair(ServeStep, CloseAll))
  /\ WF_allVars(Fair(Watch, NoStep))
  /\ WF_allVars(Fair(cancelled /\ ProviderEnds, NoStep))
  /\ WF_allVars(Fair(\E n \in (handlers \cap closed) \ Held : HandlerEnds(n), NoStep))
  /\ \A t \in Callers : WF_allVars(Fair(CallbackStep(t), NoStep))
  /\ \A n \in Session : WF_allVars(Fair(NoStep, StopStep(n)))

AllSpec == AllInit /\ [][AllNext]_allVars /\ AllFairness
=============================================================================
