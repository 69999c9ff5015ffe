------------------------------- MODULE Tunnel --------------------------------
(***************************************************************************)
(* One SOCKS5 connection from end to end: the client's handler             *)
(* (internal/client/client.go: handleSocks5, tunnel), a stream of the smux *)
(* sessions, the server's handler (internal/server/server.go:              *)
(* handleStream, dispatch) and the connection it dials. Each handler copies*)
(* one direction itself and has a goroutine copy the other.                *)
(*                                                                         *)
(* External: the application, the target, the upstream proxy, TCP and smux.*)
(* A stream of smux keeps order and is taken to lose nothing while both    *)
(* sessions live (the carriers below keep that only in part: EachSendArrives*)
(* of DataPath, TakenInOrder of TelemostSend). A session that ends does not*)
(* tell the other side, and keepalives are disabled. Both io.Copy of a     *)
(* handler have no deadline: a write waits for as long as its peer takes   *)
(* nothing, or the stream's window (1 MiB) or its link is full.            *)
(***************************************************************************)
EXTENDS Socks5, FiniteSets

CONSTANTS
  Scripts,  (* what an application may write, and under which configuration *)
  Answer    (* bound: what the target writes, the numbers 1 .. Answer       *)

(* Who may stop taking bytes: an end, or one direction of the link.        *)
Party == {"app", "target", "up", "down"}

ASSUME TunnelAssumption ==
  Answer \in Nat /\ \A s \in Scripts : s.bytes \in Seq(0 .. 255) /\ s.stuck \subseteq Party

Side == {"near", "far"}

VARIABLES
  script,    (* the connection explored, a member of Scripts                *)
  app,       (* the application: it has the connection open, has shut down  *)
             (* its writing side ("finished"), or is gone                   *)
  client,    (* handleSocks5 (pc; "pipe" and "write" are the Read and the   *)
             (* Write of its io.Copy), its copying goroutine (copy) and how *)
             (* many of the application's bytes that has copied (sent)      *)
  server,    (* handleStream likewise                                       *)
  stream,    (* each side's end of the stream                               *)
  up, down,  (* the two directions of the stream: frames, and the FIN       *)
  dead,      (* the sides whose session ended                               *)
  header,    (* handleStream's header: the fragments of the request read    *)
  target,    (* the connection the server dialled, and what is yet to read  *)
             (* from it                                                     *)
  dialled,   (* history: the address and the port the target was asked for  *)
  replies,   (* history: the replies to the request the client wrote        *)
  toTarget,  (* history: what the server wrote, or writes, to the target    *)
  toApp      (* history: what the client wrote, or writes, to the app       *)

tunnelVars == <<script, app, client, server, stream, up, down, dead, header, target, dialled,
                replies, toTarget, toApp>>

Nowhere == [addr |-> <<>>, port |-> -1]
Empty == [frames |-> <<>>, fin |-> FALSE]
Ack == <<"ack", 0>>
Json == <<<<"req", 1>>, <<"req", 2>>>>  (* the request, in two reads        *)

ClientPc == {"handshake", "session", "open", "request", "ack", "reply", "pipe", "write",
             "done"}
ServerPc == {"none", "read", "dial", "proxy", "ack", "pipe", "write", "done"}
CopyPc == {"none", "reads", "writes", "gone"}
Piping == {"pipe", "write"}

TunnelTypeOK ==
  /\ script \in Scripts /\ app \in {"open", "finished", "gone"}
  /\ client \in [pc : ClientPc, copy : CopyPc, sent : Nat]
  /\ server \in [pc : ServerPc, copy : CopyPc]
  /\ stream \in [Side -> {"none", "open", "closed"}]
  /\ dead \subseteq Side
  /\ IsPrefix(header, Json)
  /\ target.state \in {"none", "open", "closed"}
  /\ server.pc \in Piping \cup {"ack"} => dialled # Nowhere
  /\ client.pc \in Piping => stream["near"] # "none"
  /\ replies \in {<<>>, <<"success">>, <<"unreachable">>}

TunnelInit ==
  /\ script \in Scripts /\ app = "open"
  /\ client = [pc |-> "handshake", copy |-> "none", sent |-> 0]
  /\ server = [pc |-> "none", copy |-> "none"]
  /\ stream = [s \in Side |-> "none"] /\ up = Empty /\ down = Empty
  /\ dead = {} /\ header = <<>>
  /\ target = [state |-> "none", sends |-> <<>>] /\ dialled = Nowhere
  /\ replies = <<>> /\ toTarget = <<>> /\ toApp = <<>>

(* What the bytes of a script amount to: the request, and the data after it*)
Reading(s) ==
  LET greeting == Handshake(s.bytes, s.user, s.pass)
  IN  IF greeting.status = "ok" THEN Request(s.bytes, greeting.pos) ELSE greeting
Readings == [s \in Scripts |-> Reading(s)]
Asked == Readings[script]
Data == SubSeq(script.bytes, Asked.pos, Len(script.bytes))

(* stream.Close: a FIN follows what was written, while the session lives.  *)
Close(side, flow) ==
  /\ stream' = [stream EXCEPT ![side] = IF @ = "open" THEN "closed" ELSE @]
  /\ flow' = [flow EXCEPT !.fin = @ \/ (stream[side] = "open" /\ side \notin dead)]

Write(flow, frame) == flow' = [flow EXCEPT !.frames = Append(@, frame)]
Consume(flow) == flow' = [flow EXCEPT !.frames = Tail(@)]

(* A read of the stream returns no more data.                              *)
Ended(side, flow) ==
  \/ flow.frames = <<>> /\ flow.fin
  \/ stream[side] = "closed" \/ side \in dead

Writable(side) == stream[side] = "open" /\ side \notin dead

-----------------------------------------------------------------------------
(* The environment: the application shuts down its writes or leaves, the   *)
(* target ends its answer, a session ends and what it had not delivered is *)
(* lost.                                                                   *)
AppFinishes ==
  /\ app = "open" /\ app' = "finished"
  /\ UNCHANGED <<script, client, server, stream, up, down, dead, header, target, dialled, replies,
                 toTarget, toApp>>

AppLeaves ==
  /\ app # "gone" /\ app' = "gone"
  /\ UNCHANGED <<script, client, server, stream, up, down, dead, header, target, dialled, replies,
                 toTarget, toApp>>

TargetEnds ==
  /\ target.state = "open" /\ target' = [target EXCEPT !.state = "closed"]
  /\ UNCHANGED <<script, app, client, server, stream, up, down, dead, header, dialled, replies,
                 toTarget, toApp>>

Lose(flow) == \E n \in 0 .. Len(flow.frames) :
  flow' = [frames |-> SubSeq(flow.frames, 1, n),
           fin |-> flow.fin /\ n = Len(flow.frames)]

SessionEnds(side) ==
  /\ side \notin dead
  /\ dead' = dead \cup {side}
  /\ IF side = "near" THEN Lose(up) /\ UNCHANGED down ELSE Lose(down) /\ UNCHANGED up
  /\ UNCHANGED <<script, app, client, server, stream, header, target, dialled, replies, toTarget,
                 toApp>>

-----------------------------------------------------------------------------
(* handleSocks5 up to the end of socks5Request: no deadline, so it waits   *)
(* for an application that neither goes on nor leaves.                     *)
ReadsRequest ==
  /\ client.pc = "handshake"
  /\ \/ /\ Asked.status = "ok"
        /\ client' = [client EXCEPT !.pc = "session"]
     \/ /\ Asked.status = "bad" \/ app # "open"
        /\ client' = [client EXCEPT !.pc = "done"]
  /\ UNCHANGED <<script, app, server, stream, up, down, dead, header, target, dialled, replies,
                 toTarget, toApp>>

(* The client gives up: an answer, and its defers.                         *)
Refuses ==
  /\ replies' = <<"unreachable">>
  /\ client' = [client EXCEPT !.pc = "done"]
  /\ Close("near", up)

(* The session is looked at under sessMu, and used after that.             *)
ChecksSession ==
  /\ client.pc = "session"
  /\ IF "near" \in dead THEN Refuses
     ELSE client' = [client EXCEPT !.pc = "open"] /\ UNCHANGED <<stream, up, replies>>
  /\ UNCHANGED <<script, app, server, down, dead, header, target, dialled, toTarget, toApp>>

OpensStream ==
  /\ client.pc = "open"
  /\ IF "near" \in dead THEN Refuses
     ELSE /\ client' = [client EXCEPT !.pc = "request"]
          /\ stream' = [stream EXCEPT !["near"] = "open"]
          /\ UNCHANGED <<up, replies>>
  /\ UNCHANGED <<script, app, server, down, dead, header, target, dialled, toTarget, toApp>>

(* sendConnectRequest up to its read; the write fails with the session, or *)
(* after 10 s.                                                             *)
SendsRequest ==
  /\ client.pc = "request"
  /\ \/ /\ "near" \notin dead
        /\ client' = [client EXCEPT !.pc = "ack"]
        /\ up' = [up EXCEPT !.frames = Json]
        /\ UNCHANGED <<stream, replies>>
     \/ Refuses
  /\ UNCHANGED <<script, app, server, down, dead, header, target, dialled, toTarget, toApp>>

(* Mutant of AwaitsAck: the error of the read is not looked at.            *)
AwaitsAnything ==
  /\ client.pc = "ack"
  /\ client' = [client EXCEPT !.pc = "reply"]
  /\ down' = [down EXCEPT !.frames = SubSeq(@, 2, Len(@))]
  /\ UNCHANGED <<script, app, server, stream, up, dead, header, target, dialled, replies, toTarget,
                 toApp>>

(* The acknowledgement arrives, or the read fails: 15 s, the end of the    *)
(* stream or of the session.                                               *)
AwaitsAck ==
  /\ client.pc = "ack"
  /\ \/ /\ down.frames # <<>> /\ Head(down.frames) = Ack
        /\ Consume(down)
        /\ client' = [client EXCEPT !.pc = "reply"]
        /\ UNCHANGED <<stream, up, replies>>
     \/ Refuses /\ UNCHANGED down
  /\ UNCHANGED <<script, app, server, dead, header, target, dialled, toTarget, toApp>>

(* replySuccess, and the copying goroutine starts.                         *)
Replies ==
  /\ client.pc = "reply"
  /\ IF app = "gone"
     THEN client' = [client EXCEPT !.pc = "done"] /\ Close("near", up) /\ UNCHANGED replies
     ELSE /\ replies' = <<"success">>
          /\ client' = [client EXCEPT !.pc = "pipe", !.copy = "reads"]
          /\ UNCHANGED <<stream, up>>
  /\ UNCHANGED <<script, app, server, down, dead, header, target, dialled, toTarget, toApp>>

-----------------------------------------------------------------------------
(* io.Copy(stream, conn) in the goroutine, first its Read: what follows the*)
(* request, then EOF when the application has finished, or an error when it*)
(* is gone or the handler closed conn; then the stream is closed.          *)
ClientCopyEnds == client' = [client EXCEPT !.copy = "gone"] /\ Close("near", up)

ClientCopyReads ==
  /\ client.copy = "reads"
  /\ \/ /\ client.pc # "done" /\ client.sent < Len(Data)
        /\ client' = [client EXCEPT !.copy = "writes"]
        /\ UNCHANGED <<stream, up>>
     \/ /\ \/ client.pc = "done" \/ app = "gone"
           \/ app = "finished" /\ client.sent = Len(Data)
        /\ ClientCopyEnds
  /\ UNCHANGED <<script, app, server, down, dead, header, target, dialled, replies, toTarget,
                 toApp>>

(* Its Write may fail once the other side has closed.                      *)
ClientCopyWrites ==
  /\ client.copy = "writes"
  /\ \/ /\ Writable("near")
        /\ client' = [client EXCEPT !.copy = "reads", !.sent = @ + 1]
        /\ Write(up, <<"data", Data[client.sent + 1]>>)
        /\ UNCHANGED stream
     \/ (~Writable("near") \/ stream["far"] = "closed") /\ ClientCopyEnds
  /\ UNCHANGED <<script, app, server, down, dead, header, target, dialled, replies, toTarget,
                 toApp>>

(* io.Copy(conn, stream), first its Read; the handler's defers when it ends*)
ClientEnds == client' = [client EXCEPT !.pc = "done"] /\ Close("near", up)

ClientReads ==
  /\ client.pc = "pipe"
  /\ \/ /\ down.frames # <<>>
        /\ toApp' = Append(toApp, Head(down.frames)[2])
        /\ Consume(down)
        /\ client' = [client EXCEPT !.pc = "write"]
        /\ UNCHANGED <<stream, up>>
     \/ /\ Ended("near", down)
        /\ ClientEnds
        /\ UNCHANGED <<down, toApp>>
  /\ UNCHANGED <<script, app, server, dead, header, target, dialled, replies, toTarget>>

(* Its Write, which only the application can end, and which may fail once  *)
(* that is gone.                                                           *)
ClientWrites ==
  /\ client.pc = "write"
  /\ \/ client' = [client EXCEPT !.pc = "pipe"] /\ UNCHANGED <<stream, up>>
     \/ app = "gone" /\ ClientEnds
  /\ UNCHANGED <<script, app, server, down, dead, header, target, dialled, replies, toTarget,
                 toApp>>

-----------------------------------------------------------------------------
(* The stream is accepted by the server's session.                         *)
Accepts ==
  /\ server.pc = "none" /\ stream["near"] # "none" /\ "far" \notin dead
  /\ server' = [server EXCEPT !.pc = "read"]
  /\ stream' = [stream EXCEPT !["far"] = "open"]
  /\ UNCHANGED <<script, app, client, up, down, dead, header, target, dialled, replies, toTarget,
                 toApp>>

(* The handler returns: its defers close the stream and the connection.    *)
HandlerEnds ==
  /\ server' = [server EXCEPT !.pc = "done"]
  /\ Close("far", down)
  /\ target' = [target EXCEPT !.state = IF @ = "open" THEN "closed" ELSE @]

(* handleStream's loop: the header parses once all of it is there, and only*)
(* a request with the server's client id is served.                        *)
ReadsHeader ==
  /\ server.pc = "read" /\ up.frames # <<>>
  /\ header' = Append(header, Head(up.frames))
  /\ Consume(up)
  /\ IF header' = Json /\ ~script.sameId
     THEN HandlerEnds
     ELSE /\ server' = [server EXCEPT !.pc = IF header' = Json THEN "dial" ELSE "read"]
          /\ UNCHANGED <<stream, down, target>>
  /\ UNCHANGED <<script, app, client, dead, dialled, replies, toTarget, toApp>>

(* Its read fails: 15 s after the handler started, the end of the stream or*)
(* of the session.                                                         *)
HeaderFails ==
  /\ server.pc = "read"
  /\ HandlerEnds
  /\ UNCHANGED <<script, app, client, up, dead, header, dialled, replies, toTarget, toApp>>

(* dial: the target, or the upstream proxy, accepts the connection or not  *)
(* (10 s). The address went through JSON.                                  *)
Reaches(address, port, sends) ==
  /\ dialled' = [addr |-> address, port |-> port]
  /\ target' = [state |-> "open", sends |-> sends]
  /\ server' = [server EXCEPT !.pc = "ack"]
  /\ UNCHANGED <<stream, down>>

Dials ==
  /\ server.pc = "dial"
  /\ \/ ~script.viaProxy /\ Reaches(ThroughJson(Asked.addr), Asked.port, [i \in 1 .. Answer |-> i])
     \/ /\ script.viaProxy
        /\ server' = [server EXCEPT !.pc = "proxy"]
        /\ UNCHANGED <<stream, down, target, dialled>>
     \/ HandlerEnds /\ UNCHANGED dialled
  /\ UNCHANGED <<script, app, client, up, dead, header, replies, toTarget, toApp>>

(* socks5Connect: the proxy connects to what it was asked for, or refuses, *)
(* or closes; it may also never answer. The reply is taken to be ten bytes *)
(* long: what is left of a longer one comes before the target's answer.    *)
Junk == 99
ProxyAnswers ==
  /\ server.pc = "proxy"
  /\ LET request == Request(ProxyRequest(ThroughJson(Asked.addr), Asked.port), 1)
     IN  \/ \E left \in {<<>>, <<Junk>>} :
              Reaches(request.addr, request.port, left \o [i \in 1 .. Answer |-> i])
         \/ HandlerEnds /\ UNCHANGED dialled
  /\ UNCHANGED <<script, app, client, up, dead, header, replies, toTarget, toApp>>

(* The acknowledgement, and the copying goroutine starts.                  *)
Acknowledges ==
  /\ server.pc = "ack"
  /\ \/ /\ Writable("far")
        /\ Write(down, Ack)
        /\ server' = [pc |-> "pipe", copy |-> "reads"]
        /\ UNCHANGED <<stream, target>>
     \/ (~Writable("far") \/ up.fin) /\ HandlerEnds
  /\ UNCHANGED <<script, app, client, up, dead, header, dialled, replies, toTarget, toApp>>

(* Mutant of ServerCopyReads: the stream is not closed at the target's EOF.*)
ServerCopyLeaves ==
  /\ server.copy = "reads"
  /\ \/ /\ server.pc # "done" /\ target.sends # <<>>
        /\ server' = [server EXCEPT !.copy = "writes"]
     \/ /\ server.pc = "done" \/ (target.state = "closed" /\ target.sends = <<>>)
        /\ server' = [server EXCEPT !.copy = "gone"]
  /\ UNCHANGED <<script, app, client, stream, up, down, dead, header, target, dialled, replies,
                 toTarget, toApp>>

(* io.Copy(stream, conn) in the goroutine, then the stream is closed. The  *)
(* head of what is yet to read is being written while copy is "writes".    *)
ServerCopyEnds == server' = [server EXCEPT !.copy = "gone"] /\ Close("far", down)

ServerCopyReads ==
  /\ server.copy = "reads"
  /\ \/ /\ server.pc # "done" /\ target.sends # <<>>
        /\ server' = [server EXCEPT !.copy = "writes"]
        /\ UNCHANGED <<stream, down>>
     \/ /\ server.pc = "done" \/ (target.state = "closed" /\ target.sends = <<>>)
        /\ ServerCopyEnds
  /\ UNCHANGED <<script, app, client, up, dead, header, target, dialled, replies, toTarget, toApp>>

ServerCopyWrites ==
  /\ server.copy = "writes"
  /\ \/ /\ Writable("far")
        /\ Write(down, <<"data", Head(target.sends)>>)
        /\ target' = [target EXCEPT !.sends = Tail(@)]
        /\ server' = [server EXCEPT !.copy = "reads"]
        /\ UNCHANGED stream
     \/ /\ ~Writable("far") \/ stream["near"] = "closed"
        /\ ServerCopyEnds
        /\ UNCHANGED target
  /\ UNCHANGED <<script, app, client, up, dead, header, dialled, replies, toTarget, toApp>>

(* io.Copy(conn, stream), and the handler's defers when it ends.           *)
ServerReads ==
  /\ server.pc = "pipe"
  /\ \/ /\ up.frames # <<>>
        /\ toTarget' = Append(toTarget, Head(up.frames)[2])
        /\ Consume(up)
        /\ server' = [server EXCEPT !.pc = "write"]
        /\ UNCHANGED <<stream, down, target>>
     \/ /\ Ended("far", up)
        /\ HandlerEnds
        /\ UNCHANGED <<up, toTarget>>
  /\ UNCHANGED <<script, app, client, dead, header, dialled, replies, toApp>>

ServerWrites ==
  /\ server.pc = "write"
  /\ \/ server' = [server EXCEPT !.pc = "pipe"] /\ UNCHANGED <<stream, down, target>>
     \/ target.state = "closed" /\ HandlerEnds
  /\ UNCHANGED <<script, app, client, up, dead, header, dialled, replies, toTarget, toApp>>

-----------------------------------------------------------------------------
Environment == AppFinishes \/ AppLeaves \/ TargetEnds \/ \E s \in Side : SessionEnds(s)
ClientRuns == \/ ReadsRequest \/ ChecksSession \/ OpensStream \/ SendsRequest \/ AwaitsAck
              \/ Replies \/ ClientReads \/ ClientWrites
ClientCopies == ClientCopyReads \/ ClientCopyWrites
ServerRuns == ReadsHeader \/ HeaderFails \/ Dials \/ Acknowledges \/ ServerReads \/ ServerWrites
ServerCopies == ServerCopyReads \/ ServerCopyWrites

TunnelNext == \/ Environment \/ ClientRuns \/ ClientCopies
              \/ Accepts \/ ServerRuns \/ ProxyAnswers \/ ServerCopies

(* Who waits for a party that may never take, or give, another byte: a     *)
(* Write to the application until that one is gone; a Write to the target, *)
(* also to one that has ended its answer; a Read of the stream until the   *)
(* session or the stream ends; a Write to the stream until the session     *)
(* ends, and for a full window until the stream does.                      *)
Stuck(party) == party \in script.stuck

AppHolds == client.pc = "write" /\ Stuck("app") /\ app # "gone"
TargetHolds == server.pc = "write" /\ Stuck("target")

ClientWaits == AppHolds \/ (client.pc = "pipe" /\ Stuck("down") /\ Writable("near"))
ServerWaits == \/ TargetHolds \/ (server.pc = "pipe" /\ Stuck("up") /\ Writable("far"))
               \/ server.pc = "ack" /\ Stuck("down") /\ "far" \notin dead
ClientCopyWaits ==
  /\ client.copy = "writes"
  /\ (Stuck("up") /\ "near" \notin dead) \/ (Stuck("target") /\ Writable("near"))
ServerCopyWaits ==
  /\ server.copy = "writes"
  /\ (Stuck("down") /\ "far" \notin dead) \/ (Stuck("app") /\ Writable("far"))

-----------------------------------------------------------------------------
(* What the application sees is what it asked for: a success means that the*)
(* server accepted the request and reached the address and port the        *)
(* application's bytes named, with the credentials the configuration wants;*)
(* each end then gets a prefix of what the other wrote, and neither the    *)
(* request nor the acknowledgement. What a proxy's reply has beyond ten    *)
(* bytes is the exception.                                                 *)
TunnelIsTransparent ==
  /\ replies = <<"success">> =>
       Asked.status = "ok" /\ script.sameId /\ dialled = script.target
  /\ IsPrefix(toTarget, script.data)
  /\ \E left \in (IF script.viaProxy THEN {<<>>, <<Junk>>} ELSE {<<>>}) :
       IsPrefix(toApp, left \o [i \in 1 .. Answer |-> i])
  /\ toTarget # <<>> \/ toApp # <<>> => replies = <<"success">>

(* What ends a handler, although io.Copy has no deadline: its own session, *)
(* its application or target, the other handler. It still waits, for ever  *)
(* if need be,                                                             *)
(*  - for an application that does not write its request (client.go, no    *)
(*    deadline before the stream is opened), for a silent proxy (server.go,*)
(*    socks5Connect);                                                      *)
(*  - in a Write to an application or a target that does not read, which   *)
(*    not even the end of its session ends;                                *)
(*  - while bytes or a FIN are held back: by a link that takes nothing, in *)
(*    the Write of the acknowledgement or of a copy, or by a window that   *)
(*    the other end does not read;                                         *)
(*  - for the end of its own session, once that of the other side ended:   *)
(*    this is not told.                                                    *)
TunnelEnds ==
  /\ (app # "open" \/ target.state = "closed" \/ ("near" \in dead /\ client.pc # "handshake")) ~>
       \/ client.pc = "done" \/ AppHolds \/ ClientCopyWaits
       \/ /\ app = "open" /\ "near" \notin dead
          /\ "far" \in dead \/ Stuck("down") \/ ServerCopyWaits
  /\ (client.pc = "done" \/ target.state = "closed" \/ "far" \in dead) ~>
       \/ server.pc \in {"none", "proxy", "done"} \/ TargetHolds
       \/ target.state = "closed" /\ "far" \notin dead /\ (Stuck("down") \/ ServerCopyWaits)
       \/ target.state # "closed" /\ "far" \notin dead /\ ("near" \in dead \/ ServerWaits)
=============================================================================
