------------------------------ MODULE Vp8Epoch ------------------------------
(***************************************************************************)
(* The epochs of vp8channel (internal/transport/vp8channel/transport.go):  *)
(* a peer stamps its frames with an epoch drawn when its process starts,   *)
(* and replaces its KCP session, and the smux session above it through the *)
(* reconnect callback, when the epoch of its peer's frames changes or when *)
(* the provider reconnects.                                                *)
(*                                                                         *)
(* An epoch is the number of the process that drew it (odd at the client,  *)
(* even at the server), so two processes never draw the same. Frames whose *)
(* binding token is foreign are dropped without effect and left out.       *)
(*                                                                         *)
(* KCP (xtaci/kcp-go) is external: a message is one segment, numbered from *)
(* 1 in its runtime; an unacknowledged segment may be sent again at any    *)
(* time; a segment below the next one expected is acknowledged and dropped,*)
(* one above it is dropped (KCP may also keep it); every frame carries the *)
(* next number expected, una. The conversation id is the same constant in  *)
(* every runtime.                                                          *)
(***************************************************************************)
EXTENDS Integers, Sequences, FiniteSets

CONSTANTS
  Readers,        (* Readers[p]: goroutines of p that read remote tracks    *)
                  (* (readVP8Track)                                         *)
  NetCap,         (* bound: frames of a peer in outbound and in flight      *)
  MaxEchoes,      (* bound: MaxEchoes[p] frames of p reflected to p         *)
  MsgLimit,       (* bound: MsgLimit[p] messages sent by peer p             *)
  MaxRestarts,    (* bound: MaxRestarts[p] restarts of the process of p     *)
  MaxReconnects,  (* bound: MaxReconnects[p] reconnects of p's provider     *)
  MayClose        (* the peers that may call Close                          *)

Peer == {"client", "server"}
Other(p) == IF p = "client" THEN "server" ELSE "client"
Provider == "provider"
Thread == (UNION {Readers[p] : p \in Peer}) \cup {Provider}
None == 0

ASSUME Vp8Assumption ==
  /\ DOMAIN Readers = Peer
  /\ \A p \in Peer : IsFiniteSet(Readers[p]) /\ Provider \notin Readers[p]
  /\ NetCap \in Nat /\ MayClose \subseteq Peer
  /\ \A f \in {MaxEchoes, MsgLimit, MaxRestarts, MaxReconnects} : f \in [Peer -> Nat]

VARIABLES
  localEpoch,  (* the epoch of the running process of each peer             *)
  hadPeer,     (* a frame of the peer was seen                              *)
  peerEpoch,   (* the last epoch observed, None before                      *)
  kcpOnce,     (* the first KCP runtime was started by handleFirstPeer      *)
  kcp,         (* the current KCP runtime, None when nil                    *)
  runtimes,    (* the KCP runtimes the process started                      *)
  thread,      (* the goroutines that call handleIncomingFrame and resetKCP *)
  closed,      (* Close was called                                          *)
  net,         (* frames each peer wrote that are queued or in flight       *)
  echoes,      (* frames reflected to their sender so far                   *)
  sent,        (* messages Send accepted                                    *)
  restarts, reconnects,  (* how often each happened to a peer               *)
  changes,     (* history: changes of peerEpoch by this process             *)
  due,         (* history: changes of peerEpoch and reconnects of the       *)
               (* provider, less the calls of the reconnect callback        *)
  handed       (* history: messages of the other peer passed to OnData      *)

procVars == <<localEpoch, hadPeer, peerEpoch, kcpOnce, kcp, runtimes, thread, closed>>
boundVars == <<echoes, sent, restarts, reconnects>>
histVars == <<changes, due, handed>>
vars == <<procVars, net, boundVars, histVars>>

NewRuntime == [open |-> TRUE, out |-> <<>>, acked |-> {}, nxt |-> 1]
ClosedRuntime == [NewRuntime EXCEPT !.open = FALSE]
Nowhere == [typ |-> "none", epoch |-> None, sn |-> 0, msg |-> 0, una |-> 1]
AtRest == [pc |-> "read", frame |-> Nowhere, prev |-> None]
Keepalive(p) == [Nowhere EXCEPT !.typ = "keepalive", !.epoch = localEpoch[p]]

Frame == [typ : {"none", "keepalive", "seg", "ack"}, epoch : Nat, sn : Nat, msg : Nat, una : Nat]
(* A KCP runtime is current only if it was started, the epoch of the peer  *)
(* is known only after a frame of it, and no more is acknowledged than was *)
(* sent.                                                                   *)
TypeOK ==
  /\ localEpoch \in [Peer -> Nat \ {None}] /\ peerEpoch \in [Peer -> Nat]
  /\ hadPeer \in [Peer -> BOOLEAN] /\ kcpOnce \in [Peer -> BOOLEAN]
  /\ \A p \in Peer : /\ kcp[p] \in 0 .. Len(runtimes[p])
                     /\ peerEpoch[p] # None \/ kcpOnce[p] => hadPeer[p]
                     /\ \A r \in 1 .. Len(runtimes[p]) :
                          runtimes[p][r].acked \subseteq 1 .. Len(runtimes[p][r].out)
  /\ thread \in [Peer -> [Thread -> [pc : {"read", "handle", "first", "once", "deliver", "cas",
                                           "clear", "start"},
                                     frame : Frame, prev : Nat]]]
  /\ closed \in [Peer -> BOOLEAN]
  /\ net \in [Peer -> Seq(Frame)] /\ \A p \in Peer : Len(net[p]) <= NetCap
  /\ handed \in [Peer -> SUBSET Nat]

Init ==
  /\ localEpoch = [p \in Peer |-> IF p = "client" THEN 1 ELSE 2]
  /\ hadPeer = [p \in Peer |-> FALSE] /\ peerEpoch = [p \in Peer |-> None]
  /\ kcpOnce = [p \in Peer |-> FALSE] /\ kcp = [p \in Peer |-> None]
  /\ runtimes = [p \in Peer |-> <<>>]
  /\ thread = [p \in Peer |-> [t \in Thread |-> AtRest]]
  /\ closed = [p \in Peer |-> FALSE]
  /\ net = [p \in Peer |-> <<>>]
  /\ echoes = [p \in Peer |-> 0] /\ sent = [p \in Peer |-> 0]
  /\ restarts = [p \in Peer |-> 0] /\ reconnects = [p \in Peer |-> 0]
  /\ changes = [p \in Peer |-> 0] /\ due = [p \in Peer |-> 0]
  /\ handed = [p \in Peer |-> {}]

-----------------------------------------------------------------------------
(* A goroutine of peer p goes on at pc; At asks where it is.               *)
At(p, t, pc) == thread[p][t].pc = pc
Goto(p, t, pc) == thread' = [thread EXCEPT ![p][t].pc = pc]
Rest(p, t) == thread' = [thread EXCEPT ![p][t] = AtRest]
Reset(p, t) == thread' = [thread EXCEPT ![p][t] = [AtRest EXCEPT !.pc = "clear"]]

(* KCP and the writer put a frame in flight, or it is lost (which needs no *)
(* step of its own for what may be sent again at any time). What resetKCP  *)
(* drains from outbound counts as lost.                                    *)
Written(p, f) == IF Len(net[p]) < NetCap THEN {Append(net[p], f), net[p]} ELSE {net[p]}

(* startKCP, and the store of the runtime; the one stored before is not    *)
(* closed here.                                                            *)
StartKCP(p) ==
  /\ runtimes' = [runtimes EXCEPT ![p] = Append(@, NewRuntime)]
  /\ kcp' = [kcp EXCEPT ![p] = Len(runtimes[p]) + 1]

-----------------------------------------------------------------------------
(* Send on the current runtime.                                            *)
Send(p) ==
  /\ ~closed[p] /\ kcp[p] # None /\ runtimes[p][kcp[p]].open
  /\ sent[p] < MsgLimit[p]
  /\ sent' = [sent EXCEPT ![p] = @ + 1]
  /\ runtimes' = [runtimes EXCEPT ![p][kcp[p]].out = Append(@, sent[p] + 1)]
  /\ UNCHANGED <<localEpoch, hadPeer, peerEpoch, kcpOnce, kcp, thread, closed, net, echoes,
                 restarts, reconnects, histVars>>

(* A runtime that was not closed sends an unacknowledged segment, for the  *)
(* first time or again, be it current or not.                              *)
Transmit(p, r) ==
  /\ ~closed[p] /\ runtimes[p][r].open /\ Len(net[p]) < NetCap
  /\ \E sn \in (1 .. Len(runtimes[p][r].out)) \ runtimes[p][r].acked :
       net' = [net EXCEPT ![p] =
         Append(@, [typ |-> "seg", epoch |-> localEpoch[p], sn |-> sn,
                    msg |-> runtimes[p][r].out[sn], una |-> runtimes[p][r].nxt])]
  /\ UNCHANGED <<procVars, boundVars, histVars>>

(* writerLoop with nothing to send: a keepalive that shows the epoch.      *)
WriteKeepalive(p) ==
  /\ ~closed[p] /\ Len(net[p]) < NetCap
  /\ net' = [net EXCEPT ![p] = Append(@, Keepalive(p))]
  /\ UNCHANGED <<procVars, boundVars, histVars>>

-----------------------------------------------------------------------------
(* A reader gets the oldest frame of the peer, or one of its own process   *)
(* that the SFU reflects.                                                  *)
Take(p, t) ==
  /\ t \in Readers[p] /\ At(p, t, "read") /\ net[Other(p)] # <<>>
  /\ net' = [net EXCEPT ![Other(p)] = Tail(@)]
  /\ thread' = [thread EXCEPT ![p][t] =
       [pc |-> "handle", frame |-> Head(net[Other(p)]), prev |-> None]]
  /\ UNCHANGED <<localEpoch, hadPeer, peerEpoch, kcpOnce, kcp, runtimes, closed, boundVars,
                 histVars>>

Echo(p, t) ==
  /\ t \in Readers[p] /\ At(p, t, "read")
  /\ echoes[p] < MaxEchoes[p] /\ net[p] # <<>> /\ Head(net[p]).epoch = localEpoch[p]
  /\ echoes' = [echoes EXCEPT ![p] = @ + 1]
  /\ thread' = [thread EXCEPT ![p][t] =
       [pc |-> "handle", frame |-> Head(net[p]), prev |-> None]]
  /\ UNCHANGED <<localEpoch, hadPeer, peerEpoch, kcpOnce, kcp, runtimes, closed, net, sent,
                 restarts, reconnects, histVars>>

(* Mutant of IsEcho: the epoch is not compared with the local one.         *)
NoEcho(p, t) == FALSE

(* handleIncomingFrame: what the frame's epoch says.                       *)
IsEcho(p, t) == thread[p][t].frame.epoch = localEpoch[p]
HandleEcho(p, t) ==
  /\ At(p, t, "handle") /\ IsEcho(p, t)
  /\ Rest(p, t)
  /\ UNCHANGED <<localEpoch, hadPeer, peerEpoch, kcpOnce, kcp, runtimes, closed, net,
                 boundVars, histVars>>
(* Mutant of HandleFirst: hadPeer is loaded, not swapped.                  *)
HandleFirstLoads(p, t) ==
  /\ At(p, t, "handle") /\ ~IsEcho(p, t) /\ ~hadPeer[p]
  /\ Goto(p, t, "first")
  /\ UNCHANGED <<localEpoch, hadPeer, peerEpoch, kcpOnce, kcp, runtimes, closed, net, boundVars,
                 histVars>>

HandleFirst(p, t) ==
  /\ At(p, t, "handle") /\ ~IsEcho(p, t) /\ ~hadPeer[p]
  /\ hadPeer' = [hadPeer EXCEPT ![p] = TRUE]
  /\ Goto(p, t, "first")
  /\ UNCHANGED <<localEpoch, peerEpoch, kcpOnce, kcp, runtimes, closed, net, boundVars, histVars>>
HandleKnown(p, t) ==
  /\ At(p, t, "handle") /\ ~IsEcho(p, t) /\ hadPeer[p]
  /\ IF peerEpoch[p] = thread[p][t].frame.epoch
     THEN Goto(p, t, "deliver")
     ELSE thread' = [thread EXCEPT ![p][t].pc = "cas", ![p][t].prev = peerEpoch[p]]
  /\ UNCHANGED <<localEpoch, hadPeer, peerEpoch, kcpOnce, kcp, runtimes, closed, net,
                 boundVars, histVars>>

(* handleFirstPeer: the epoch is stored, then the first runtime is started,*)
(* over whatever runtime the provider's reset may have stored.             *)
StorePeer(p, t) ==
  /\ At(p, t, "first")
  /\ peerEpoch' = [peerEpoch EXCEPT ![p] = thread[p][t].frame.epoch]
  /\ Goto(p, t, "once")
  /\ UNCHANGED <<localEpoch, hadPeer, kcpOnce, kcp, runtimes, closed, net, boundVars, histVars>>
StartOnce(p, t) ==
  /\ At(p, t, "once")
  /\ IF kcpOnce[p] THEN UNCHANGED <<kcp, runtimes>> ELSE StartKCP(p)
  /\ kcpOnce' = [kcpOnce EXCEPT ![p] = TRUE]
  /\ Goto(p, t, "deliver")
  /\ UNCHANGED <<localEpoch, hadPeer, peerEpoch, closed, net, boundVars, histVars>>

(* deliver: the payload goes to the current runtime, unless there is none, *)
(* it was closed, or the frame is a keepalive.                             *)
Skip(p, t) ==
  /\ At(p, t, "deliver")
  /\ \/ thread[p][t].frame.typ = "keepalive" \/ kcp[p] = None
     \/ kcp[p] # None /\ ~runtimes[p][kcp[p]].open
  /\ Rest(p, t)
  /\ UNCHANGED <<localEpoch, hadPeer, peerEpoch, kcpOnce, kcp, runtimes, closed, net,
                 boundVars, histVars>>

(* KCP processes a frame: what una and an acknowledgement acknowledge, and *)
(* a segment, which is passed to OnData if it is the next and acknowledged *)
(* if it is not above the next.                                            *)
Deliver(p, t) ==
  LET f == thread[p][t].frame
      rt == runtimes[p][kcp[p]]
      isNext == f.typ = "seg" /\ f.sn = rt.nxt
      nxt == IF isNext THEN rt.nxt + 1 ELSE rt.nxt
      acks == {i \in 1 .. Len(rt.out) : i < f.una \/ (f.typ = "ack" /\ i = f.sn)}
      ack == [typ |-> "ack", epoch |-> localEpoch[p], sn |-> f.sn, msg |-> 0, una |-> nxt]
  IN
  /\ At(p, t, "deliver") /\ f.typ # "keepalive" /\ kcp[p] # None /\ rt.open
  /\ runtimes' = [runtimes EXCEPT ![p][kcp[p]] = [rt EXCEPT !.acked = @ \cup acks, !.nxt = nxt]]
  /\ handed' = [handed EXCEPT ![p] = @ \cup (IF isNext THEN {f.msg} ELSE {})]
  /\ \E n \in IF f.typ = "seg" /\ f.sn < nxt /\ ~closed[p] THEN Written(p, ack) ELSE {net[p]} :
       net' = [net EXCEPT ![p] = n]
  /\ Rest(p, t)
  /\ UNCHANGED <<localEpoch, hadPeer, peerEpoch, kcpOnce, kcp, closed, boundVars, changes,
                 due>>

(* Mutant of CompareAndSwap: the new epoch is stored unconditionally.      *)
StoreEpoch(p, t) ==
  /\ At(p, t, "cas")
  /\ peerEpoch' = [peerEpoch EXCEPT ![p] = thread[p][t].frame.epoch]
  /\ changes' = [changes EXCEPT ![p] = @ + IF peerEpoch'[p] # peerEpoch[p] THEN 1 ELSE 0]
  /\ due' = [due EXCEPT ![p] = @ + IF peerEpoch'[p] # peerEpoch[p] THEN 1 ELSE 0]
  /\ Reset(p, t)
  /\ UNCHANGED <<localEpoch, hadPeer, kcpOnce, kcp, runtimes, closed, net, boundVars,
                 handed>>

(* The epoch changed: one goroutine gets to reset, and the packet is       *)
(* dropped by every goroutine that saw the change.                         *)
CompareAndSwap(p, t) ==
  /\ At(p, t, "cas")
  /\ IF peerEpoch[p] = thread[p][t].prev
     THEN /\ peerEpoch' = [peerEpoch EXCEPT ![p] = thread[p][t].frame.epoch]
          /\ changes' = [changes EXCEPT ![p] = @ + 1]
          /\ due' = [due EXCEPT ![p] = @ + 1]
          /\ Reset(p, t)
     ELSE /\ Rest(p, t)
          /\ UNCHANGED <<peerEpoch, changes, due>>
  /\ UNCHANGED <<localEpoch, hadPeer, kcpOnce, kcp, runtimes, closed, net, boundVars,
                 handed>>

-----------------------------------------------------------------------------
(* The provider reconnected and calls the callback SetReconnectCallback    *)
(* gave it, which resets KCP first.                                        *)
Reconnect(p) ==
  /\ At(p, Provider, "read") /\ reconnects[p] < MaxReconnects[p]
  /\ reconnects' = [reconnects EXCEPT ![p] = @ + 1]
  /\ due' = [due EXCEPT ![p] = @ + 1]
  /\ Reset(p, Provider)
  /\ UNCHANGED <<localEpoch, hadPeer, peerEpoch, kcpOnce, kcp, runtimes, closed, net, echoes,
                 sent, restarts, changes, handed>>

(* resetKCP: the runtime is taken out under kcpMu and closed.              *)
ResetClear(p, t) ==
  /\ At(p, t, "clear")
  /\ kcp' = [kcp EXCEPT ![p] = None]
  /\ runtimes' = IF kcp[p] = None THEN runtimes
                 ELSE [runtimes EXCEPT ![p][kcp[p]] = ClosedRuntime]
  /\ Goto(p, t, "start")
  /\ UNCHANGED <<localEpoch, hadPeer, peerEpoch, kcpOnce, closed, net, boundVars, histVars>>

(* Mutant of ResetStart: the new runtime is not stored.                    *)
ResetStoresNothing(p, t) ==
  /\ At(p, t, "start")
  /\ runtimes' = [runtimes EXCEPT ![p] = Append(@, NewRuntime)]
  /\ due' = [due EXCEPT ![p] = @ - 1]
  /\ Rest(p, t)
  /\ UNCHANGED <<localEpoch, kcp, hadPeer, peerEpoch, kcpOnce, closed, net, boundVars, changes,
                 handed>>

(* resetKCP: a new runtime, with the same epoch; then reconnectFn, by which*)
(* the owner of the link replaces its smux session.                        *)
ResetStart(p, t) ==
  /\ At(p, t, "start")
  /\ StartKCP(p)
  /\ due' = [due EXCEPT ![p] = @ - 1]
  /\ Rest(p, t)
  /\ UNCHANGED <<localEpoch, hadPeer, peerEpoch, kcpOnce, closed, net, boundVars, changes,
                 handed>>

(* Close: the flag, then the current runtime; goroutines in the middle of  *)
(* a reset go on.                                                          *)
Close(p) ==
  /\ p \in MayClose /\ ~closed[p]
  /\ closed' = [closed EXCEPT ![p] = TRUE]
  /\ runtimes' = IF kcp[p] = None THEN runtimes
                 ELSE [runtimes EXCEPT ![p][kcp[p]] = ClosedRuntime]
  /\ UNCHANGED <<localEpoch, hadPeer, peerEpoch, kcpOnce, kcp, thread, net, boundVars, histVars>>

(* The process of p ends and starts again (New), with another epoch; what  *)
(* it wrote stays in flight, what was on its way to it is lost.            *)
Restart(p) ==
  /\ restarts[p] < MaxRestarts[p]
  /\ restarts' = [restarts EXCEPT ![p] = @ + 1]
  /\ localEpoch' = [localEpoch EXCEPT ![p] = @ + 2]
  /\ hadPeer' = [hadPeer EXCEPT ![p] = FALSE]
  /\ peerEpoch' = [peerEpoch EXCEPT ![p] = None]
  /\ kcpOnce' = [kcpOnce EXCEPT ![p] = FALSE]
  /\ kcp' = [kcp EXCEPT ![p] = None]
  /\ runtimes' = [runtimes EXCEPT ![p] = <<>>]
  /\ thread' = [thread EXCEPT ![p] = [t \in Thread |-> AtRest]]
  /\ closed' = [closed EXCEPT ![p] = FALSE]
  /\ net' = [net EXCEPT ![Other(p)] = <<>>]
  /\ changes' = [changes EXCEPT ![p] = 0] /\ due' = [due EXCEPT ![p] = 0]
  /\ UNCHANGED <<echoes, sent, reconnects, handed>>

-----------------------------------------------------------------------------
FrameStep(p, t) ==
  \/ HandleEcho(p, t) \/ HandleFirst(p, t) \/ HandleKnown(p, t) \/ StorePeer(p, t)
  \/ StartOnce(p, t) \/ Skip(p, t) \/ Deliver(p, t) \/ CompareAndSwap(p, t)
ResetStep(p, t) == ResetClear(p, t) \/ ResetStart(p, t)

Next == \E p \in Peer :
  \/ Send(p) \/ WriteKeepalive(p)
  \/ \E r \in 1 .. Len(runtimes[p]) : Transmit(p, r)
  \/ \E t \in Thread : Take(p, t) \/ Echo(p, t) \/ FrameStep(p, t) \/ ResetStep(p, t)
  \/ Reconnect(p) \/ Close(p) \/ Restart(p)

Spec == Init /\ [][Next]_vars

-----------------------------------------------------------------------------
(* "CAS guards against double-reset when fragmented frames straddle the    *)
(* epoch boundary": the smux session is replaced once per change of the    *)
(* peer's epoch, and once per reconnect of the provider, however many      *)
(* goroutines see the change.                                              *)
OneResetPerChange == \A p \in Peer : due[p] >= 0

(* The two sides do not "loop forever tearing down smux": how often a      *)
(* process sees its peer's epoch change is bounded by the restarts of the  *)
(* peer. A restart changes it once, and every further reader, which may    *)
(* still hold a frame of the process before, back and forth once; the race *)
(* for the very first frame, whose epoch is stored only after hadPeer is   *)
(* set, may pass for one more change per further reader.                   *)
ChangesAreCaused == \A p \in Peer :
  LET others == IF Readers[p] = {} THEN 0 ELSE Cardinality(Readers[p]) - 1
  IN changes[p] <= others + restarts[Other(p)] * (2 * others + 1)

(* A process that started KCP is never left without a runtime, which Send  *)
(* and CanSend need: when there is none, a goroutine that resets is about  *)
(* to store one, however the resets of readers and provider interleave.    *)
KcpComesBack == \A p \in Peer :
  kcpOnce[p] /\ kcp[p] = None => \E t \in Thread : At(p, t, "start")

(* "KCP guarantees in-order delivery with retransmits" (Features): what the*)
(* current runtime was told is delivered was passed to OnData at the peer. *)
AckedIsHanded == \A p \in Peer : kcp[p] # None =>
  \A sn \in runtimes[p][kcp[p]].acked : runtimes[p][kcp[p]].out[sn] \in handed[Other(p)]

=============================================================================
