----------------------------- MODULE MCDataPath ------------------------------
(* The layers bytes go through, for TLC, one at a time: in each behaviour   *)
(* one of them runs and the others stay in an initial state. DataPath is the*)
(* byte stream that Tunnel's smux sessions run on, over a datachannel;      *)
(* Vp8Frames is the bottom of the video path.                               *)
EXTENDS DataPath, Tunnel, Vp8Frames

VARIABLE layer  (* the layer that runs                                      *)

vars == <<layer, pathVars, tunnelVars, framesVars>>

-----------------------------------------------------------------------------
(* What an application writes: a greeting, credentials, a request, data.    *)
Hello == <<5, 1, 0>>
Login(user, pass) == <<1, Len(user)>> \o user \o <<Len(pass)>> \o pass
Connect4(ip, port) == <<5, 1, 0, 1>> \o ip \o <<port \div 256, port % 256>>
ConnectName(name, port) ==
  <<5, 1, 0, 3, Len(name)>> \o name \o <<port \div 256, port % 256>>

User == <<117, 49>>
Pass == <<112>>
Payload == <<7, 8>>
Text4 == <<49, 48, 46, 48, 46, 55, 46, 50, 53, 53>>  (* "10.0.7.255"         *)
Name == <<97, 46, 200>>  (* what is not UTF-8 arrives as U+FFFD              *)

Plain == [user |-> <<>>, pass |-> <<>>, sameId |-> TRUE, viaProxy |-> FALSE, data |-> Payload,
          target |-> [addr |-> Text4, port |-> 443], stuck |-> {},
          bytes |-> Hello \o Connect4(<<10, 0, 7, 255>>, 443) \o Payload]
Named == [Plain EXCEPT !.user = User, !.pass = Pass, !.viaProxy = TRUE,
            !.target = [addr |-> <<97, 46, 239, 191, 189>>, port |-> 8080],
            !.bytes = Hello \o Login(User, Pass) \o ConnectName(Name, 8080) \o <<7>>,
            !.data = <<7>>]

TwoOneThree == <<2, 1, 3>>

SomeScripts ==
  {Plain, Named,
   [Plain EXCEPT !.sameId = FALSE],
   [Plain EXCEPT !.bytes = SubSeq(@, 1, 9)],
   [Plain EXCEPT !.bytes = Hello \o <<5, 2, 0, 1, 10, 0, 0, 1, 0, 80>>],
   [Named EXCEPT !.bytes = Hello \o Login(User, User) \o ConnectName(Name, 8080)]}
  \cup {[Plain EXCEPT !.stuck = {party}] : party \in Party}

TypeOK == PathTypeOK /\ TunnelTypeOK

-----------------------------------------------------------------------------
Init ==
  /\ layer \in {"path", "tunnel", "frames"}
  /\ PathInit /\ TunnelInit /\ FramesInit
  /\ layer # "tunnel" => script = Plain
  /\ layer # "path" => kind = CHOOSE k \in Kinds : TRUE

Path == layer = "path" /\ PathNext /\ UNCHANGED <<layer, tunnelVars, framesVars>>
Through == layer = "tunnel" /\ TunnelNext /\ UNCHANGED <<layer, pathVars, framesVars>>
Assemble == layer = "frames" /\ FramesNext /\ UNCHANGED <<layer, pathVars, tunnelVars>>
Next == Path \/ Through \/ Assemble

(* Goroutines run, and calls of the libraries return. Nothing obliges the   *)
(* SFU to offer, the application to write, the proxy to answer or anyone to *)
(* close. One condition holds a goroutine of each layer: a behaviour has    *)
(* steps of one of them only.                                               *)
Fair(onPath, onTunnel) ==
  \/ layer = "path" /\ ~panicked /\ onPath /\ UNCHANGED <<layer, tunnelVars, framesVars>>
  \/ layer = "tunnel" /\ onTunnel /\ UNCHANGED <<layer, pathVars, framesVars>>

Fairness ==
  /\ WF_vars(Fair(WriterRuns, ClientRuns /\ ~ClientWaits))
  /\ WF_vars(Fair(ReaderReads, ClientCopies /\ ~ClientCopyWaits))
  /\ WF_vars(Fair(WorkerRuns, ServerRuns /\ ~ServerWaits))
  /\ WF_vars(Fair(SignalerRuns, FALSE))
  /\ WF_vars(Fair(closer # "open" /\ Closes, ServerCopies /\ ~ServerCopyWaits))
  /\ WF_vars(Fair(Reconnects, FALSE))

Spec == Init /\ [][Next]_vars /\ Fairness
=============================================================================
