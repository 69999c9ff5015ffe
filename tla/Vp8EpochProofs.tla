--------------------------- MODULE Vp8EpochProofs ---------------------------
(***************************************************************************)
(* Proofs about Vp8Epoch for any readers, any bounds and any set of peers  *)
(* that close: its type invariant, that the reconnect callback is called   *)
(* once per change, that a peer always gets a KCP runtime back, that       *)
(* changes of the epoch are caused, and that what KCP acknowledges to a    *)
(* peer nothing resets was passed to OnData.                               *)
(***************************************************************************)
EXTENDS Vp8Epoch, FiniteSetTheorems, SequenceTheorems, TLAPS

KcpRuntime == [open : BOOLEAN, out : Seq(Nat), acked : SUBSET Nat, nxt : Nat]
ThreadState == [pc : {"read", "handle", "first", "once", "deliver", "cas", "clear", "start"},
                frame : Frame, prev : Nat]

(* The parts of the type invariant: TypeOK, what it leaves open (the types *)
(* of runtimes and counters), and that a goroutine past handle knows of the*)
(* peer.                                                                   *)
PeerInv ==
  /\ localEpoch \in [Peer -> Nat \ {None}] /\ peerEpoch \in [Peer -> Nat]
  /\ hadPeer \in [Peer -> BOOLEAN] /\ kcpOnce \in [Peer -> BOOLEAN]
  /\ closed \in [Peer -> BOOLEAN]
  /\ \A p \in Peer : peerEpoch[p] # None \/ kcpOnce[p] => hadPeer[p]
RuntimeInv ==
  /\ runtimes \in [Peer -> Seq(KcpRuntime)] /\ kcp \in [Peer -> Nat]
  /\ \A p \in Peer : kcp[p] <= Len(runtimes[p])
  /\ \A p \in Peer : \A r \in 1 .. Len(runtimes[p]) :
       runtimes[p][r].acked \subseteq 1 .. Len(runtimes[p][r].out)
ThreadInv ==
  /\ thread \in [Peer -> [Thread -> ThreadState]]
  /\ \A p \in Peer, t \in Thread : thread[p][t].pc \in {"first", "once", "cas"} => hadPeer[p]
NetInv == net \in [Peer -> Seq(Frame)] /\ \A p \in Peer : Len(net[p]) <= NetCap
CountInv ==
  /\ handed \in [Peer -> SUBSET Nat] /\ sent \in [Peer -> Nat]
  /\ changes \in [Peer -> Nat] /\ due \in [Peer -> Int]

TypeInv == PeerInv /\ RuntimeInv /\ ThreadInv /\ NetInv /\ CountInv

LEMMA InitTypeInv == Init => TypeInv
<1> SUFFICES ASSUME Init PROVE TypeInv
  OBVIOUS
<1> USE Vp8Assumption DEF Init, None
<1>1. PeerInv
  BY DEF PeerInv, Peer
<1>2. RuntimeInv
  BY DEF RuntimeInv
<1>3. ThreadInv
  BY DEF ThreadInv, ThreadState, AtRest, Nowhere, Frame
<1>4. NetInv
  BY DEF NetInv
<1>5. CountInv
  BY DEF CountInv
<1> QED
  BY <1>1, <1>2, <1>3, <1>4, <1>5 DEF TypeInv

-----------------------------------------------------------------------------
(* Replacing the state of one KCP runtime, and storing a new one.          *)
LEMMA ReplaceRuntime ==
  ASSUME RuntimeInv, NEW p \in Peer, NEW r \in 1 .. Len(runtimes[p]), NEW rt \in KcpRuntime,
         rt.acked \subseteq 1 .. Len(rt.out),
         runtimes' = [runtimes EXCEPT ![p][r] = rt],
         kcp' \in [Peer -> Nat], \A q \in Peer : kcp'[q] <= kcp[q]
  PROVE  RuntimeInv'
<1> USE DEF RuntimeInv
<1> DEFINE new == [runtimes[p] EXCEPT ![r] = rt]
<1>1. /\ new \in Seq(KcpRuntime) /\ Len(new) = Len(runtimes[p])
      /\ \A j \in 1 .. Len(runtimes[p]) : new[j] = IF j = r THEN rt ELSE runtimes[p][j]
  BY ExceptSeq
<1>2. runtimes' = [runtimes EXCEPT ![p] = new]
  OBVIOUS
<1> HIDE DEF new
<1>3. \A q \in Peer : runtimes'[q] = IF q = p THEN new ELSE runtimes[q]
  BY <1>2
<1>4. runtimes' \in [Peer -> Seq(KcpRuntime)]
  BY <1>1, <1>2
<1>5. ASSUME NEW q \in Peer PROVE kcp'[q] <= Len(runtimes'[q])
  <2>1. Len(runtimes'[q]) = Len(runtimes[q]) /\ Len(runtimes[q]) \in Nat
    BY <1>1, <1>3, LenProperties
  <2>2. /\ kcp'[q] \in Nat /\ kcp[q] \in Nat
        /\ kcp'[q] <= kcp[q] /\ kcp[q] <= Len(runtimes[q])
    OBVIOUS
  <2> QED
    BY <2>1, <2>2
<1>6. ASSUME NEW q \in Peer, NEW j \in 1 .. Len(runtimes'[q])
      PROVE  runtimes'[q][j].acked \subseteq 1 .. Len(runtimes'[q][j].out)
  <2>1. CASE q = p /\ j = r
    BY <1>1, <1>3, <2>1
  <2>2. CASE ~(q = p /\ j = r)
    <3>1. runtimes'[q][j] = runtimes[q][j] /\ j \in 1 .. Len(runtimes[q])
      BY <1>1, <1>3, <2>2
    <3> QED
      BY <3>1
  <2> QED
    BY <2>1, <2>2
<1> QED
  BY <1>4, <1>5, <1>6

LEMMA NewRuntimeType == NewRuntime \in KcpRuntime /\ ClosedRuntime \in KcpRuntime
                        /\ NewRuntime.acked = {} /\ ClosedRuntime.acked = {}
<1>1. <<>> \in Seq(Nat) /\ {} \in SUBSET Nat /\ TRUE \in BOOLEAN /\ FALSE \in BOOLEAN /\ 1 \in Nat
  OBVIOUS
<1>2. NewRuntime = [open |-> TRUE, out |-> <<>>, acked |-> {}, nxt |-> 1]
  BY DEF NewRuntime
<1>3. NewRuntime \in KcpRuntime
  BY <1>1, <1>2 DEF KcpRuntime
<1>4. ClosedRuntime \in KcpRuntime /\ ClosedRuntime.acked = NewRuntime.acked
  BY <1>3 DEF ClosedRuntime, KcpRuntime
<1> QED
  BY <1>2, <1>3, <1>4

LEMMA SameRuntimes == RuntimeInv /\ UNCHANGED <<runtimes, kcp>> => RuntimeInv'
BY DEF RuntimeInv

LEMMA CloseRuntime ==
  ASSUME RuntimeInv, NEW p \in Peer, kcp' \in [Peer -> Nat], \A q \in Peer : kcp'[q] <= kcp[q],
         kcp[p] # None, runtimes' = [runtimes EXCEPT ![p][kcp[p]] = ClosedRuntime]
  PROVE  RuntimeInv'
<1>1. kcp[p] \in 1 .. Len(runtimes[p])
  BY LenProperties DEF RuntimeInv, None
<1>2. ClosedRuntime \in KcpRuntime /\ ClosedRuntime.acked \subseteq 1 .. Len(ClosedRuntime.out)
  BY NewRuntimeType
<1> QED
  BY <1>1, <1>2, ReplaceRuntime

LEMMA StoreRuntime ==
  ASSUME RuntimeInv, NEW p \in Peer, StartKCP(p)
  PROVE  RuntimeInv' /\ kcp'[p] # None /\ \A q \in Peer \ {p} : kcp'[q] = kcp[q]
<1> USE DEF RuntimeInv
<1> DEFINE new == Append(runtimes[p], NewRuntime)
<1>1. /\ new \in Seq(KcpRuntime) /\ Len(new) = Len(runtimes[p]) + 1
      /\ \A j \in 1 .. Len(runtimes[p]) : new[j] = runtimes[p][j]
      /\ new[Len(runtimes[p]) + 1] = NewRuntime
      /\ Len(runtimes[p]) \in Nat
  BY NewRuntimeType, AppendProperties, LenProperties
<1>2. /\ runtimes' = [runtimes EXCEPT ![p] = new]
      /\ kcp' = [kcp EXCEPT ![p] = Len(runtimes[p]) + 1]
  BY DEF StartKCP
<1> HIDE DEF new
<1>3. runtimes' \in [Peer -> Seq(KcpRuntime)] /\ kcp' \in [Peer -> Nat]
  BY <1>1, <1>2
<1>4. \A q \in Peer : kcp'[q] <= Len(runtimes'[q])
  BY <1>1, <1>2
<1>5. ASSUME NEW q \in Peer, NEW j \in 1 .. Len(runtimes'[q])
      PROVE  runtimes'[q][j].acked \subseteq 1 .. Len(runtimes'[q][j].out)
  <2>1. CASE q = p /\ j = Len(runtimes[p]) + 1
    BY <1>1, <1>2, <2>1, NewRuntimeType
  <2>2. CASE ~(q = p /\ j = Len(runtimes[p]) + 1)
    <3>1. CASE q = p
      <4>1. runtimes'[q] = new
        BY <1>2, <3>1
      <4>2. j \in 1 .. Len(runtimes[p])
        BY <1>1, <2>2, <3>1, <4>1
      <4> QED
        BY <1>1, <3>1, <4>1, <4>2
    <3>2. CASE q # p
      <4>1. runtimes'[q] = runtimes[q]
        BY <1>2, <3>2
      <4> QED
        BY <4>1
    <3> QED
      BY <3>1, <3>2
  <2> QED
    BY <2>1, <2>2
<1>6. kcp'[p] # None /\ \A q \in Peer \ {p} : kcp'[q] = kcp[q]
  BY <1>1, <1>2 DEF None
<1> QED
  BY <1>3, <1>4, <1>5, <1>6

-----------------------------------------------------------------------------
(* A goroutine that moves keeps ThreadInv if it may be where it moves to.  *)
LEMMA MoveThread ==
  ASSUME ThreadInv, NEW p \in Peer, NEW t \in Thread, NEW state \in ThreadState,
         thread' = [thread EXCEPT ![p][t] = state],
         hadPeer' \in [Peer -> BOOLEAN], \A q \in Peer : hadPeer[q] => hadPeer'[q],
         state.pc \in {"first", "once", "cas"} => hadPeer'[p]
  PROVE  ThreadInv'
BY DEF ThreadInv

LEMMA RestStates ==
  /\ AtRest \in ThreadState /\ AtRest.pc = "read"
  /\ [AtRest EXCEPT !.pc = "clear"] \in ThreadState /\ [AtRest EXCEPT !.pc = "clear"].pc = "clear"
<1>1. AtRest \in ThreadState /\ AtRest.pc = "read"
  BY DEF AtRest, ThreadState, Nowhere, Frame, None
<1> QED
  BY <1>1 DEF ThreadState

LEMMA GotoThread ==
  ASSUME ThreadInv, NEW p \in Peer, NEW t \in Thread,
         NEW at \in {"read", "handle", "first", "once", "deliver", "cas", "clear", "start"},
         Goto(p, t, at),
         hadPeer' \in [Peer -> BOOLEAN], \A q \in Peer : hadPeer[q] => hadPeer'[q],
         at \in {"first", "once", "cas"} => hadPeer'[p]
  PROVE  ThreadInv'
<1> DEFINE state == [thread[p][t] EXCEPT !.pc = at]
<1>1. state \in ThreadState /\ state.pc = at
  BY DEF ThreadInv, ThreadState
<1>2. thread' = [thread EXCEPT ![p][t] = state]
  BY DEF Goto
<1> HIDE DEF state
<1> QED
  BY <1>1, <1>2, MoveThread

LEMMA RestThread ==
  ASSUME ThreadInv, NEW p \in Peer, NEW t \in Thread, Rest(p, t) \/ Reset(p, t),
         hadPeer' \in [Peer -> BOOLEAN], \A q \in Peer : hadPeer[q] => hadPeer'[q]
  PROVE  ThreadInv'
<1>1. CASE Rest(p, t)
  BY <1>1, RestStates, MoveThread DEF Rest
<1>2. CASE Reset(p, t)
  BY <1>2, RestStates, MoveThread DEF Reset
<1> QED
  BY <1>1, <1>2

(* Of all goroutines, only t of p changes its state.                       *)
OnlyMoves(p, t) == \A q \in Peer, u \in Thread :
  q # p \/ u # t => thread'[q][u] = thread[q][u]

LEMMA SetMoves ==
  ASSUME ThreadInv, NEW p \in Peer, NEW t \in Thread, NEW state,
         thread' = [thread EXCEPT ![p][t] = state]
  PROVE  OnlyMoves(p, t)
<1> SUFFICES ASSUME NEW q \in Peer, NEW u \in Thread, q # p \/ u # t
             PROVE  thread'[q][u] = thread[q][u]
  BY DEF OnlyMoves
<1>1. DOMAIN thread = Peer /\ DOMAIN thread[p] = Thread
  BY DEF ThreadInv
<1>2. CASE q # p
  BY <1>1, <1>2
<1>3. CASE q = p
  <2>1. thread'[p] = [thread[p] EXCEPT ![t] = state]
    BY <1>1
  <2> QED
    BY <1>1, <1>3, <2>1
<1> QED
  BY <1>2, <1>3

LEMMA GotoMoves ==
  ASSUME ThreadInv, NEW p \in Peer, NEW t \in Thread, NEW at, Goto(p, t, at)
  PROVE  OnlyMoves(p, t)
<1>1. thread' = [thread EXCEPT ![p][t] = [thread[p][t] EXCEPT !.pc = at]]
  BY DEF Goto
<1> QED
  BY <1>1, SetMoves

LEMMA RestMoves ==
  ASSUME ThreadInv, NEW p \in Peer, NEW t \in Thread, Rest(p, t) \/ Reset(p, t)
  PROVE  OnlyMoves(p, t)
<1>1. CASE Rest(p, t)
  BY <1>1, SetMoves DEF Rest
<1>2. CASE Reset(p, t)
  BY <1>2, SetMoves DEF Reset
<1> QED
  BY <1>1, <1>2

(* A step of a goroutine leaves the others where they are.                 *)
LEMMA StepMoves ==
  ASSUME ThreadInv, NEW p \in Peer, NEW t \in Thread,
         Take(p, t) \/ Echo(p, t) \/ FrameStep(p, t) \/ ResetStep(p, t)
  PROVE  OnlyMoves(p, t)
<1>1. CASE Take(p, t)
  BY <1>1, SetMoves DEF Take
<1>2. CASE Echo(p, t)
  BY <1>2, SetMoves DEF Echo
<1>3. CASE HandleEcho(p, t)
  BY <1>3, RestMoves DEF HandleEcho
<1>4. CASE HandleFirst(p, t)
  BY <1>4, GotoMoves DEF HandleFirst
<1>5. CASE HandleKnown(p, t)
  <2>1. CASE peerEpoch[p] = thread[p][t].frame.epoch
    BY <1>5, <2>1, GotoMoves DEF HandleKnown
  <2>2. CASE peerEpoch[p] # thread[p][t].frame.epoch
    <3>1. thread' = [thread EXCEPT ![p][t] =
                       [thread[p][t] EXCEPT !.pc = "cas", !.prev = peerEpoch[p]]]
      BY <1>5, <2>2 DEF HandleKnown, ThreadInv
    <3> QED
      BY <3>1, SetMoves
  <2> QED
    BY <2>1, <2>2
<1>6. CASE StorePeer(p, t)
  BY <1>6, GotoMoves DEF StorePeer
<1>7. CASE StartOnce(p, t)
  BY <1>7, GotoMoves DEF StartOnce
<1>8. CASE Skip(p, t)
  BY <1>8, RestMoves DEF Skip
<1>9. CASE Deliver(p, t)
  BY <1>9, RestMoves DEF Deliver
<1>10. CASE CompareAndSwap(p, t)
  BY <1>10, RestMoves DEF CompareAndSwap
<1>11. CASE ResetClear(p, t)
  BY <1>11, GotoMoves DEF ResetClear
<1>12. CASE ResetStart(p, t)
  BY <1>12, RestMoves DEF ResetStart
<1> QED
  BY <1>1, <1>2, <1>3, <1>4, <1>5, <1>6, <1>7, <1>8, <1>9, <1>10, <1>11, <1>12
  DEF FrameStep, ResetStep

LEMMA PutFrame ==
  ASSUME NetInv, NEW p \in Peer, NEW f \in Frame, Len(net[p]) < NetCap,
         net' = [net EXCEPT ![p] = Append(@, f)]
  PROVE  NetInv'
<1>1. /\ Append(net[p], f) \in Seq(Frame) /\ Len(Append(net[p], f)) = Len(net[p]) + 1
      /\ Len(net[p]) \in Nat
  BY AppendProperties, LenProperties DEF NetInv
<1> QED
  BY <1>1, Vp8Assumption DEF NetInv

LEMMA ProviderIsThread == Provider \in Thread
<1>1. Provider \in {Provider}
  OBVIOUS
<1> QED
  BY <1>1 DEF Thread, Provider

(* Every action keeps the type invariant.                                  *)
LEMMA NextTypeInv == TypeInv /\ [Next]_vars => TypeInv'
<1> SUFFICES ASSUME TypeInv, [Next]_vars PROVE TypeInv'
  OBVIOUS
<1> USE DEF TypeInv, histVars, boundVars, procVars
<1>1. ASSUME NEW p \in Peer, Send(p) PROVE TypeInv'
  <2> USE <1>1 DEF Send
  <2> DEFINE rt == [runtimes[p][kcp[p]] EXCEPT !.out = Append(@, sent[p] + 1)]
  <2>1. kcp[p] \in 1 .. Len(runtimes[p]) /\ runtimes[p][kcp[p]] \in KcpRuntime
    BY ElementOfSeq, LenProperties DEF RuntimeInv, None
  <2>2. /\ Append(runtimes[p][kcp[p]].out, sent[p] + 1) \in Seq(Nat)
        /\ Len(Append(runtimes[p][kcp[p]].out, sent[p] + 1)) = Len(runtimes[p][kcp[p]].out) + 1
        /\ Len(runtimes[p][kcp[p]].out) \in Nat
    BY <2>1, AppendProperties, LenProperties DEF CountInv, KcpRuntime
  <2>3. /\ rt \in KcpRuntime /\ rt.acked = runtimes[p][kcp[p]].acked
        /\ rt.out = Append(runtimes[p][kcp[p]].out, sent[p] + 1)
    BY <2>1, <2>2 DEF KcpRuntime
  <2>5. runtimes[p][kcp[p]].acked \subseteq 1 .. Len(runtimes[p][kcp[p]].out)
    BY <2>1 DEF RuntimeInv
  <2>6. rt.acked \subseteq 1 .. Len(rt.out)
    <3>1. Len(rt.out) = Len(runtimes[p][kcp[p]].out) + 1
      BY <2>2, <2>3
    <3> HIDE DEF rt, TypeInv, Send
    <3> QED
      BY <2>2, <2>3, <2>5, <3>1
  <2>7. runtimes' = [runtimes EXCEPT ![p][kcp[p]] = rt]
    OBVIOUS
  <2>8. kcp' \in [Peer -> Nat] /\ \A q \in Peer : kcp'[q] <= kcp[q]
    BY DEF RuntimeInv
  <2>9. RuntimeInv
    OBVIOUS
  <2>4. RuntimeInv'
    <3> HIDE <1>1 DEF TypeInv, Send, rt
    <3> QED
      BY <2>1, <2>3, <2>6, <2>7, <2>8, <2>9, ReplaceRuntime
  <2> QED
    BY <2>4 DEF PeerInv, ThreadInv, NetInv, CountInv
<1>2. ASSUME NEW p \in Peer, NEW r \in 1 .. Len(runtimes[p]), Transmit(p, r) PROVE TypeInv'
  <2> USE <1>2 DEF Transmit
  <2>1. PICK sn \in (1 .. Len(runtimes[p][r].out)) \ runtimes[p][r].acked :
          net' = [net EXCEPT ![p] =
            Append(@, [typ |-> "seg", epoch |-> localEpoch[p], sn |-> sn,
                       msg |-> runtimes[p][r].out[sn], una |-> runtimes[p][r].nxt])]
    OBVIOUS
  <2>2. runtimes[p][r] \in KcpRuntime
    BY ElementOfSeq DEF RuntimeInv
  <2>6. runtimes[p][r].out \in Seq(Nat) /\ sn \in 1 .. Len(runtimes[p][r].out)
    BY <2>2 DEF KcpRuntime
  <2>7. Len(runtimes[p][r].out) \in Nat
    BY <2>6, LenProperties
  <2>3. runtimes[p][r].out[sn] \in Nat /\ sn \in Nat
    <3>1. sn \in Nat
      BY <2>6, <2>7
    <3> HIDE DEF TypeInv, Transmit
    <3>2. runtimes[p][r].out[sn] \in Nat
      BY <2>6, ElementOfSeq, Zenon
    <3> QED
      BY <3>1, <3>2
  <2>4. [typ |-> "seg", epoch |-> localEpoch[p], sn |-> sn,
         msg |-> runtimes[p][r].out[sn], una |-> runtimes[p][r].nxt] \in Frame
    BY <2>2, <2>3 DEF Frame, KcpRuntime, PeerInv
  <2>5. NetInv'
    BY <2>1, <2>4, PutFrame
  <2> QED
    BY <2>5 DEF PeerInv, ThreadInv, RuntimeInv, CountInv
<1>3. ASSUME NEW p \in Peer, WriteKeepalive(p) PROVE TypeInv'
  <2> USE <1>3 DEF WriteKeepalive
  <2>1. Keepalive(p) \in Frame
    BY DEF Keepalive, Nowhere, Frame, PeerInv, None
  <2>2. NetInv'
    BY <2>1, PutFrame
  <2> QED
    BY <2>2 DEF PeerInv, ThreadInv, RuntimeInv, CountInv
<1>4. ASSUME NEW p \in Peer, NEW t \in Thread, Take(p, t) PROVE TypeInv'
  <2> USE <1>4 DEF Take
  <2> DEFINE state == [pc |-> "handle", frame |-> Head(net[Other(p)]), prev |-> None]
  <2>1. Other(p) \in Peer
    BY DEF Other, Peer
  <2>2. /\ Head(net[Other(p)]) \in Frame /\ Tail(net[Other(p)]) \in Seq(Frame)
        /\ Len(Tail(net[Other(p)])) <= NetCap
    BY <2>1, HeadTailProperties, LenProperties, Vp8Assumption DEF NetInv
  <2>3. state \in ThreadState /\ state.pc = "handle"
    BY <2>2 DEF ThreadState, None
  <2>4. ThreadInv'
    BY <2>3, MoveThread DEF PeerInv
  <2>5. NetInv'
    BY <2>1, <2>2 DEF NetInv
  <2> QED
    BY <2>4, <2>5 DEF PeerInv, RuntimeInv, CountInv
<1>5. ASSUME NEW p \in Peer, NEW t \in Thread, Echo(p, t) PROVE TypeInv'
  <2> USE <1>5 DEF Echo
  <2> DEFINE state == [pc |-> "handle", frame |-> Head(net[p]), prev |-> None]
  <2>1. Head(net[p]) \in Frame
    BY HeadTailProperties DEF NetInv
  <2>2. state \in ThreadState /\ state.pc = "handle"
    BY <2>1 DEF ThreadState, None
  <2>3. ThreadInv'
    BY <2>2, MoveThread DEF PeerInv
  <2> QED
    BY <2>3 DEF PeerInv, RuntimeInv, NetInv, CountInv
<1>6. ASSUME NEW p \in Peer, NEW t \in Thread, HandleEcho(p, t) PROVE TypeInv'
  <2>1. ThreadInv'
    BY <1>6, RestThread DEF HandleEcho, PeerInv
  <2> QED
    BY <1>6, <2>1 DEF HandleEcho, PeerInv, RuntimeInv, NetInv, CountInv
<1>7. ASSUME NEW p \in Peer, NEW t \in Thread, HandleFirst(p, t) PROVE TypeInv'
  <2> USE <1>7 DEF HandleFirst
  <2>1. PeerInv'
    BY DEF PeerInv
  <2>2. ThreadInv'
    BY <2>1, GotoThread DEF PeerInv
  <2> QED
    BY <2>1, <2>2 DEF RuntimeInv, NetInv, CountInv
<1>8. ASSUME NEW p \in Peer, NEW t \in Thread, HandleKnown(p, t) PROVE TypeInv'
  <2>1. hadPeer[p] /\ hadPeer' = hadPeer /\ hadPeer \in [Peer -> BOOLEAN]
    BY <1>8 DEF HandleKnown, PeerInv
  <2>2. ASSUME Goto(p, t, "deliver") PROVE ThreadInv'
    BY <2>1, <2>2, GotoThread
  <2>3. ASSUME thread' = [thread EXCEPT ![p][t].pc = "cas", ![p][t].prev = peerEpoch[p]]
        PROVE  ThreadInv'
    <3> DEFINE state == [thread[p][t] EXCEPT !.pc = "cas", !.prev = peerEpoch[p]]
    <3>1. thread[p][t] \in ThreadState /\ peerEpoch[p] \in Nat
      BY DEF ThreadInv, PeerInv
    <3>2. state \in ThreadState /\ state.pc = "cas"
      BY <3>1 DEF ThreadState
    <3>3. thread' = [thread EXCEPT ![p][t] = state]
      BY <2>3 DEF ThreadInv
    <3> HIDE DEF state
    <3> QED
      BY <2>1, <3>2, <3>3, MoveThread
  <2>4. ThreadInv'
    BY <1>8, <2>2, <2>3 DEF HandleKnown
  <2> QED
    BY <1>8, <2>4 DEF HandleKnown, PeerInv, RuntimeInv, NetInv, CountInv
<1>9. ASSUME NEW p \in Peer, NEW t \in Thread, StorePeer(p, t) PROVE TypeInv'
  <2> USE <1>9 DEF StorePeer
  <2>1. hadPeer[p] /\ thread[p][t].frame.epoch \in Nat
    BY DEF ThreadInv, At, ThreadState, Frame
  <2>2. PeerInv'
    BY <2>1 DEF PeerInv
  <2>3. ThreadInv'
    BY <2>1, GotoThread DEF PeerInv
  <2> QED
    BY <2>2, <2>3 DEF RuntimeInv, NetInv, CountInv
<1>10. ASSUME NEW p \in Peer, NEW t \in Thread, StartOnce(p, t) PROVE TypeInv'
  <2> USE <1>10 DEF StartOnce
  <2>1. hadPeer[p]
    BY DEF ThreadInv, At
  <2>2. RuntimeInv'
    BY StoreRuntime DEF RuntimeInv
  <2>3. PeerInv'
    BY <2>1 DEF PeerInv
  <2>4. ThreadInv'
    BY <2>1, GotoThread DEF PeerInv
  <2> QED
    BY <2>2, <2>3, <2>4 DEF NetInv, CountInv
<1>11. ASSUME NEW p \in Peer, NEW t \in Thread, Skip(p, t) PROVE TypeInv'
  <2>1. ThreadInv'
    BY <1>11, RestThread DEF Skip, PeerInv
  <2> QED
    BY <1>11, <2>1 DEF Skip, PeerInv, RuntimeInv, NetInv, CountInv
<1>12. ASSUME NEW p \in Peer, NEW t \in Thread, Deliver(p, t) PROVE TypeInv'
  <2> DEFINE f == thread[p][t].frame
             rt == runtimes[p][kcp[p]]
             isNext == f.typ = "seg" /\ f.sn = rt.nxt
             nxt == IF isNext THEN rt.nxt + 1 ELSE rt.nxt
             acks == {i \in 1 .. Len(rt.out) : i < f.una \/ (f.typ = "ack" /\ i = f.sn)}
             ack == [typ |-> "ack", epoch |-> localEpoch[p], sn |-> f.sn, msg |-> 0,
                     una |-> nxt]
             new == [rt EXCEPT !.acked = @ \cup acks, !.nxt = nxt]
  <2>1. /\ kcp[p] # None
        /\ Rest(p, t)
        /\ UNCHANGED <<localEpoch, hadPeer, peerEpoch, kcpOnce, kcp, closed, boundVars,
                       changes, due>>
    BY <1>12 DEF Deliver
  <2>a. runtimes' = [runtimes EXCEPT ![p][kcp[p]] = new]
    BY <1>12 DEF Deliver
  <2>b. handed' = [handed EXCEPT ![p] = @ \cup (IF isNext THEN {f.msg} ELSE {})]
    BY <1>12, Zenon DEF Deliver
  <2>c. \E n \in IF f.typ = "seg" /\ f.sn < nxt /\ ~closed[p] THEN Written(p, ack)
              ELSE {net[p]} : net' = [net EXCEPT ![p] = n]
    BY <1>12, Zenon DEF Deliver
  <2>2. f \in Frame
    BY DEF ThreadInv, ThreadState
  <2>3. kcp[p] \in 1 .. Len(runtimes[p]) /\ rt \in KcpRuntime
    BY <2>1, ElementOfSeq, LenProperties DEF RuntimeInv, None
  <2>4. rt.acked \subseteq 1 .. Len(rt.out) /\ acks \subseteq 1 .. Len(rt.out)
    BY <2>3 DEF RuntimeInv
  <2>5. nxt \in Nat /\ rt.acked \cup acks \in SUBSET Nat
    BY <2>3, <2>4 DEF KcpRuntime
  <2>6. ack \in Frame
    BY <2>2, <2>5 DEF Frame, PeerInv
  <2>7. new \in KcpRuntime /\ new.acked = rt.acked \cup acks /\ new.out = rt.out
    BY <2>3, <2>5 DEF KcpRuntime
  <2> HIDE DEF nxt, acks, ack
  <2>8. new.acked \subseteq 1 .. Len(new.out)
    BY <2>4, <2>7
  <2> HIDE DEF new
  <2>9. RuntimeInv'
    <3>1. kcp' \in [Peer -> Nat] /\ \A q \in Peer : kcp'[q] <= kcp[q]
      BY <2>1 DEF RuntimeInv
    <3> HIDE DEF rt
    <3> QED
      BY <2>1, <2>a, <2>3, <2>7, <2>8, <3>1, ReplaceRuntime
  <2>10. NetInv'
    <3>1. CASE net' = [net EXCEPT ![p] = net[p]]
      BY <3>1 DEF NetInv
    <3>2. CASE Len(net[p]) < NetCap /\ net' = [net EXCEPT ![p] = Append(net[p], ack)]
      BY <2>6, <3>2, PutFrame
    <3> QED
      BY <2>c, <3>1, <3>2 DEF Written
  <2>11. ThreadInv'
    BY <2>1, RestThread DEF PeerInv
  <2>12. CountInv'
    <3>1. f.msg \in Nat
      BY <2>2 DEF Frame
    <3> HIDE DEF f
    <3> QED
      BY <2>1, <2>b, <3>1 DEF CountInv
  <2> QED
    BY <2>1, <2>9, <2>10, <2>11, <2>12 DEF PeerInv
<1>13. ASSUME NEW p \in Peer, NEW t \in Thread, CompareAndSwap(p, t) PROVE TypeInv'
  <2> USE <1>13 DEF CompareAndSwap
  <2>1. hadPeer[p] /\ thread[p][t].frame.epoch \in Nat
    BY DEF ThreadInv, At, ThreadState, Frame
  <2>2. PeerInv' /\ CountInv'
    BY <2>1 DEF PeerInv, CountInv
  <2>3. ThreadInv'
    BY RestThread DEF PeerInv
  <2> QED
    BY <2>2, <2>3 DEF RuntimeInv, NetInv
<1>14. ASSUME NEW p \in Peer, Reconnect(p) PROVE TypeInv'
  <2> USE <1>14 DEF Reconnect
  <2>1. ThreadInv'
    <3>2. hadPeer' \in [Peer -> BOOLEAN] /\ \A q \in Peer : hadPeer[q] => hadPeer'[q]
      BY DEF PeerInv
    <3> QED
      BY <3>2, ProviderIsThread, RestThread
  <2>2. CountInv'
    BY DEF CountInv
  <2> QED
    BY <2>1, <2>2 DEF PeerInv, RuntimeInv, NetInv
<1>15. ASSUME NEW p \in Peer, NEW t \in Thread, ResetClear(p, t) PROVE TypeInv'
  <2>1. ThreadInv'
    BY <1>15, GotoThread DEF ResetClear, PeerInv
  <2>2. kcp' \in [Peer -> Nat] /\ \A q \in Peer : kcp'[q] <= kcp[q]
    BY <1>15 DEF ResetClear, RuntimeInv, None
  <2>3. ASSUME kcp[p] = None PROVE RuntimeInv'
    <3>1. runtimes' = runtimes /\ kcp' = kcp
      BY <1>15, <2>3 DEF ResetClear, RuntimeInv
    <3> QED
      BY <3>1, SameRuntimes
  <2>4. ASSUME kcp[p] # None PROVE RuntimeInv'
    <3>1. runtimes' = [runtimes EXCEPT ![p][kcp[p]] = ClosedRuntime]
      BY <1>15, <2>4 DEF ResetClear
    <3> QED
      BY <2>2, <2>4, <3>1, CloseRuntime
  <2>5. RuntimeInv'
    BY <2>3, <2>4
  <2> QED
    BY <1>15, <2>1, <2>5 DEF ResetClear, PeerInv, NetInv, CountInv
<1>16. ASSUME NEW p \in Peer, NEW t \in Thread, ResetStart(p, t) PROVE TypeInv'
  <2> USE <1>16 DEF ResetStart
  <2>1. ThreadInv'
    BY RestThread DEF PeerInv
  <2>2. RuntimeInv'
    BY StoreRuntime
  <2> QED
    BY <2>1, <2>2 DEF PeerInv, NetInv, CountInv
<1>17. ASSUME NEW p \in Peer, Close(p) PROVE TypeInv'
  <2>1. ASSUME kcp[p] = None PROVE RuntimeInv'
    <3>1. runtimes' = runtimes /\ kcp' = kcp
      BY <1>17, <2>1 DEF Close
    <3> QED
      BY <3>1, SameRuntimes
  <2>2. ASSUME kcp[p] # None PROVE RuntimeInv'
    <3>1. runtimes' = [runtimes EXCEPT ![p][kcp[p]] = ClosedRuntime] /\ kcp' = kcp
      BY <1>17, <2>2 DEF Close
    <3>2. kcp' \in [Peer -> Nat] /\ \A q \in Peer : kcp'[q] <= kcp[q]
      BY <3>1 DEF RuntimeInv
    <3> QED
      BY <2>2, <3>1, <3>2, CloseRuntime
  <2>3. RuntimeInv'
    BY <2>1, <2>2
  <2> QED
    BY <1>17, <2>3 DEF Close, PeerInv, ThreadInv, NetInv, CountInv
<1>18. ASSUME NEW p \in Peer, Restart(p) PROVE TypeInv'
  <2> USE <1>18 DEF Restart
  <2>1. PeerInv'
    BY DEF PeerInv, None
  <2>2. RuntimeInv'
    <3>1. <<>> \in Seq(KcpRuntime) /\ Len(<<>>) = 0
      BY EmptySeq
    <3>2. runtimes' \in [Peer -> Seq(KcpRuntime)] /\ kcp' \in [Peer -> Nat]
      BY <3>1 DEF RuntimeInv, None
    <3>3. ASSUME NEW q \in Peer
          PROVE  /\ kcp'[q] <= Len(runtimes'[q])
                 /\ \A r \in 1 .. Len(runtimes'[q]) :
                      runtimes'[q][r].acked \subseteq 1 .. Len(runtimes'[q][r].out)
      <4>1. CASE q = p
        BY <3>1, <4>1 DEF RuntimeInv, None
      <4>2. CASE q # p
        BY <4>2 DEF RuntimeInv
      <4> QED
        BY <4>1, <4>2
    <3> QED
      BY <3>2, <3>3 DEF RuntimeInv
  <2>3. ThreadInv'
    BY RestStates DEF ThreadInv
  <2>4. NetInv'
    <3>1. <<>> \in Seq(Frame) /\ Len(<<>>) = 0 /\ NetCap \in Nat
      BY EmptySeq, Vp8Assumption
    <3>2. net' \in [Peer -> Seq(Frame)]
      BY <3>1 DEF NetInv
    <3>3. ASSUME NEW q \in Peer PROVE Len(net'[q]) <= NetCap
      <4>1. net'[q] = net[q] \/ net'[q] = <<>>
        BY DEF NetInv
      <4> QED
        BY <3>1, <4>1 DEF NetInv
    <3> QED
      BY <3>2, <3>3 DEF NetInv
  <2> QED
    BY <2>1, <2>2, <2>3, <2>4 DEF CountInv
<1>19. CASE UNCHANGED vars
  BY <1>19 DEF vars, PeerInv, RuntimeInv, ThreadInv, NetInv, CountInv
<1> QED
  BY <1>1, <1>2, <1>3, <1>4, <1>5, <1>6, <1>7, <1>8, <1>9, <1>10, <1>11, <1>12, <1>13, <1>14,
     <1>15, <1>16, <1>17, <1>18, <1>19
  DEF Next, FrameStep, ResetStep

(* Epochs, KCP runtimes, goroutines and frames are well-formed: the stored *)
(* runtime was started, the peer's epoch is known only after a frame of it,*)
(* and no more is acknowledged than was sent (transport.go, kcp.go).       *)
THEOREM EpochTypeCorrect == Spec => []TypeOK
<1>1. TypeInv => TypeOK
  <2> SUFFICES ASSUME TypeInv PROVE TypeOK
    OBVIOUS
  <2>1. \A p \in Peer : kcp[p] \in 0 .. Len(runtimes[p])
    BY LenProperties DEF TypeInv, RuntimeInv
  <2>2. thread \in [Peer -> [Thread ->
          [pc : {"read", "handle", "first", "once", "deliver", "cas", "clear", "start"},
           frame : Frame, prev : Nat]]]
    BY DEF TypeInv, ThreadInv, ThreadState
  <2> QED
    BY <2>1, <2>2 DEF TypeInv, PeerInv, RuntimeInv, NetInv, CountInv, TypeOK
<1> QED
  BY InitTypeInv, NextTypeInv, <1>1, PTL DEF Spec

-----------------------------------------------------------------------------
(* The goroutines of p in resetKCP: due counts them, which is stronger than*)
(* OneResetPerChange and inductive.                                        *)
Resetting(p) == {t \in Thread : thread[p][t].pc \in {"clear", "start"}}
ResetInv == \A p \in Peer : due[p] = Cardinality(Resetting(p))

LEMMA ThreadIsFinite == IsFiniteSet(Thread)
<1>1. IsFiniteSet(Readers["client"] \cup Readers["server"])
  BY Vp8Assumption, FS_Union DEF Peer
<1>2. UNION {Readers[p] : p \in Peer} = Readers["client"] \cup Readers["server"]
  BY DEF Peer
<1>3. Thread = (Readers["client"] \cup Readers["server"]) \cup {Provider}
  BY <1>2 DEF Thread
<1> QED
  BY <1>1, <1>3, FS_AddElement

LEMMA ResettingIsFinite == \A p \in Peer : IsFiniteSet(Resetting(p))
BY ThreadIsFinite, FS_Subset DEF Resetting

(* A goroutine t of p moves; it enters resetKCP, leaves it, or neither.    *)
LEMMA KeepResets ==
  ASSUME ThreadInv, ResetInv, due' = due, NEW p \in Peer, NEW t \in Thread,
         NEW state \in ThreadState, thread' = [thread EXCEPT ![p][t] = state],
         state.pc \in {"clear", "start"} <=> thread[p][t].pc \in {"clear", "start"}
  PROVE  ResetInv'
<1>1. \A q \in Peer : Resetting(q)' = Resetting(q)
  BY DEF Resetting, ThreadInv
<1> QED
  BY <1>1 DEF ResetInv

LEMMA EnterReset ==
  ASSUME ThreadInv, CountInv, ResetInv, NEW p \in Peer, NEW t \in Thread, Reset(p, t),
         thread[p][t].pc \notin {"clear", "start"}, due' = [due EXCEPT ![p] = @ + 1]
  PROVE  ResetInv'
<1>1. Resetting(p)' = Resetting(p) \cup {t} /\ t \notin Resetting(p)
  BY RestStates DEF Resetting, ThreadInv, Reset
<1>2. \A q \in Peer \ {p} : Resetting(q)' = Resetting(q)
  BY DEF Resetting, ThreadInv, Reset
<1>3. Cardinality(Resetting(p)') = Cardinality(Resetting(p)) + 1
  BY <1>1, ResettingIsFinite, FS_AddElement
<1> QED
  BY <1>2, <1>3 DEF ResetInv, CountInv

LEMMA LeaveReset ==
  ASSUME ThreadInv, CountInv, ResetInv, NEW p \in Peer, NEW t \in Thread, Rest(p, t),
         thread[p][t].pc \in {"clear", "start"}, due' = [due EXCEPT ![p] = @ - 1]
  PROVE  ResetInv'
<1>1. Resetting(p)' = Resetting(p) \ {t} /\ t \in Resetting(p)
  BY RestStates DEF Resetting, ThreadInv, Rest
<1>2. \A q \in Peer \ {p} : Resetting(q)' = Resetting(q)
  BY DEF Resetting, ThreadInv, Rest
<1>3. Cardinality(Resetting(p)') = Cardinality(Resetting(p)) - 1
  BY <1>1, ResettingIsFinite, FS_RemoveElement
<1> QED
  BY <1>2, <1>3 DEF ResetInv, CountInv

LEMMA KeepResetsAtRest ==
  ASSUME ThreadInv, ResetInv, due' = due, NEW p \in Peer, NEW t \in Thread, Rest(p, t),
         thread[p][t].pc \notin {"clear", "start"}
  PROVE  ResetInv'
BY RestStates, KeepResets DEF Rest

LEMMA KeepResetsOnGoto ==
  ASSUME ThreadInv, ResetInv, due' = due, NEW p \in Peer, NEW t \in Thread,
         NEW at \in {"read", "handle", "first", "once", "deliver", "cas", "clear", "start"},
         Goto(p, t, at),
         at \in {"clear", "start"} <=> thread[p][t].pc \in {"clear", "start"}
  PROVE  ResetInv'
<1> DEFINE state == [thread[p][t] EXCEPT !.pc = at]
<1>1. state \in ThreadState /\ state.pc = at
  BY DEF ThreadInv, ThreadState
<1>2. thread' = [thread EXCEPT ![p][t] = state]
  BY DEF Goto
<1> HIDE DEF state
<1> QED
  BY <1>1, <1>2, KeepResets

LEMMA KeepResetsOfOthers == ResetInv /\ UNCHANGED <<thread, due>> => ResetInv'
BY DEF ResetInv, Resetting

LEMMA InitResetInv == Init => ResetInv
<1> SUFFICES ASSUME Init, NEW p \in Peer PROVE due[p] = Cardinality(Resetting(p))
  BY DEF ResetInv
<1>1. Resetting(p) = {}
  BY DEF Init, Resetting, AtRest
<1> QED
  BY <1>1, FS_EmptySet DEF Init

LEMMA NextResetInv == TypeInv /\ ResetInv /\ [Next]_vars => ResetInv'
<1> SUFFICES ASSUME TypeInv, ResetInv, [Next]_vars PROVE ResetInv'
  OBVIOUS
<1> USE DEF TypeInv
<1>1. ASSUME NEW p \in Peer, Send(p) \/ WriteKeepalive(p) \/ Close(p)
                            \/ \E r \in 1 .. Len(runtimes[p]) : Transmit(p, r)
      PROVE  ResetInv'
  BY <1>1, KeepResetsOfOthers
  DEF Send, WriteKeepalive, Close, Transmit, procVars, histVars
<1>2. ASSUME NEW p \in Peer, NEW t \in Thread, Take(p, t) \/ Echo(p, t) PROVE ResetInv'
  <2>1. PICK f \in Frame :
          thread' = [thread EXCEPT ![p][t] = [pc |-> "handle", frame |-> f, prev |-> None]]
    <3>1. Other(p) \in Peer
      BY DEF Other, Peer
    <3>2. net[p] # <<>> => Head(net[p]) \in Frame
      BY HeadTailProperties DEF NetInv
    <3>3. net[Other(p)] # <<>> => Head(net[Other(p)]) \in Frame
      BY <3>1, HeadTailProperties DEF NetInv
    <3> QED
      BY <1>2, <3>2, <3>3 DEF Take, Echo
  <2>2. [pc |-> "handle", frame |-> f, prev |-> None] \in ThreadState
    BY DEF ThreadState, None
  <2>3. due' = due /\ thread[p][t].pc = "read"
    BY <1>2 DEF Take, Echo, At, histVars
  <2> QED
    BY <2>1, <2>2, <2>3, KeepResets
<1>3. ASSUME NEW p \in Peer, NEW t \in Thread, HandleEcho(p, t) \/ Skip(p, t) \/ Deliver(p, t)
      PROVE  ResetInv'
  <2>1. Rest(p, t) /\ due' = due /\ thread[p][t].pc \in {"handle", "deliver"}
    BY <1>3 DEF HandleEcho, Skip, Deliver, At, histVars
  <2> QED
    BY <2>1, KeepResetsAtRest
<1>4. ASSUME NEW p \in Peer, NEW t \in Thread,
             HandleFirst(p, t) \/ StorePeer(p, t) \/ StartOnce(p, t)
      PROVE  ResetInv'
  <2>1. PICK at \in {"first", "once", "deliver"} : Goto(p, t, at)
    BY <1>4 DEF HandleFirst, StorePeer, StartOnce
  <2>2. due' = due /\ thread[p][t].pc \in {"handle", "first", "once"}
    BY <1>4 DEF HandleFirst, StorePeer, StartOnce, At, histVars
  <2> QED
    BY <2>1, <2>2, KeepResetsOnGoto
<1>5. ASSUME NEW p \in Peer, NEW t \in Thread, HandleKnown(p, t) PROVE ResetInv'
  <2>1. due' = due /\ thread[p][t].pc = "handle"
    BY <1>5 DEF HandleKnown, At, histVars
  <2>2. ASSUME Goto(p, t, "deliver") PROVE ResetInv'
    BY <2>1, <2>2, KeepResetsOnGoto
  <2>3. ASSUME thread' = [thread EXCEPT ![p][t].pc = "cas", ![p][t].prev = peerEpoch[p]]
        PROVE  ResetInv'
    <3> DEFINE state == [thread[p][t] EXCEPT !.pc = "cas", !.prev = peerEpoch[p]]
    <3>1. thread[p][t] \in ThreadState /\ peerEpoch[p] \in Nat
      BY DEF ThreadInv, PeerInv
    <3>2. state \in ThreadState /\ state.pc = "cas"
      BY <3>1 DEF ThreadState
    <3>3. thread' = [thread EXCEPT ![p][t] = state]
      BY <2>3 DEF ThreadInv
    <3> HIDE DEF state
    <3> QED
      BY <2>1, <3>2, <3>3, KeepResets
  <2> QED
    BY <1>5, <2>2, <2>3 DEF HandleKnown
<1>6. ASSUME NEW p \in Peer, NEW t \in Thread, CompareAndSwap(p, t) PROVE ResetInv'
  <2>1. thread[p][t].pc = "cas"
    BY <1>6 DEF CompareAndSwap, At
  <2>2. ASSUME peerEpoch[p] = thread[p][t].prev PROVE ResetInv'
    BY <1>6, <2>1, <2>2, EnterReset DEF CompareAndSwap
  <2>3. ASSUME peerEpoch[p] # thread[p][t].prev PROVE ResetInv'
    BY <1>6, <2>1, <2>3, KeepResetsAtRest DEF CompareAndSwap
  <2> QED
    BY <2>2, <2>3
<1>7. ASSUME NEW p \in Peer, Reconnect(p) PROVE ResetInv'
  BY <1>7, ProviderIsThread, EnterReset DEF Reconnect, At
<1>8. ASSUME NEW p \in Peer, NEW t \in Thread, ResetClear(p, t) PROVE ResetInv'
  BY <1>8, KeepResetsOnGoto DEF ResetClear, At, histVars
<1>9. ASSUME NEW p \in Peer, NEW t \in Thread, ResetStart(p, t) PROVE ResetInv'
  BY <1>9, LeaveReset DEF ResetStart, At
<1>10. ASSUME NEW p \in Peer, Restart(p) PROVE ResetInv'
  <2>1. Resetting(p)' = {} /\ \A q \in Peer \ {p} : Resetting(q)' = Resetting(q)
    BY <1>10 DEF Restart, Resetting, AtRest, ThreadInv
  <2> QED
    BY <1>10, <2>1, FS_EmptySet DEF Restart, ResetInv, CountInv
<1>11. CASE UNCHANGED vars
  BY <1>11, KeepResetsOfOthers DEF vars, procVars, histVars
<1> QED
  BY <1>1, <1>2, <1>3, <1>4, <1>5, <1>6, <1>7, <1>8, <1>9, <1>10, <1>11
  DEF Next, FrameStep, ResetStep

(* The reconnect callback, by which the owner of the link replaces its smux*)
(* session, is called once per change of the peer's epoch that a           *)
(* compare-and-swap won and once per reconnect of the provider, and the    *)
(* calls outstanding are those of the goroutines still in resetKCP: however*)
(* many goroutines read frames of both epochs (transport.go).              *)
THEOREM ResetsArePaired == Spec => []OneResetPerChange
<1>1. ResetInv => OneResetPerChange
  BY ResettingIsFinite, FS_CardinalityType DEF ResetInv, OneResetPerChange
<1> QED
  BY InitTypeInv, NextTypeInv, InitResetInv, NextResetInv, <1>1, PTL DEF Spec

-----------------------------------------------------------------------------
LEMMA InitKcpComesBack == Init => KcpComesBack
BY DEF Init, KcpComesBack

(* kcp is cleared only by a goroutine that goes on to store a runtime, and *)
(* kcpOnce is set with a runtime stored.                                   *)
LEMMA NextKcpComesBack == TypeInv /\ KcpComesBack /\ [Next]_vars => KcpComesBack'
<1> SUFFICES ASSUME TypeInv, KcpComesBack, [Next]_vars, NEW q \in Peer,
                    kcpOnce'[q], kcp'[q] = None
             PROVE  \E u \in Thread : thread'[q][u].pc = "start"
  BY DEF KcpComesBack, At
<1> USE DEF TypeInv
<1> DEFINE Kept == /\ kcpOnce'[q] = kcpOnce[q] /\ kcp'[q] = kcp[q]
                   /\ \A u \in Thread : thread[q][u].pc = "start" => thread'[q][u].pc = "start"
<1>k. ASSUME Kept PROVE \E u \in Thread : thread'[q][u].pc = "start"
  BY <1>k DEF KcpComesBack, At
<1> DEFINE Goal == \E u \in Thread : thread'[q][u].pc = "start"
<1>1. ASSUME NEW p \in Peer, Send(p) \/ WriteKeepalive(p) \/ Close(p)
                            \/ \E r \in 1 .. Len(runtimes[p]) : Transmit(p, r)
      PROVE  Goal
  BY <1>1, <1>k DEF Send, WriteKeepalive, Close, Transmit, procVars
<1>2. ASSUME NEW p \in Peer, NEW t \in Thread,
             \/ Take(p, t) \/ Echo(p, t) \/ HandleEcho(p, t) \/ Skip(p, t) \/ Deliver(p, t)
             \/ HandleFirst(p, t) \/ HandleKnown(p, t) \/ StorePeer(p, t)
             \/ CompareAndSwap(p, t)
      PROVE  Goal
  <2>1. thread[p][t].pc # "start"
    BY <1>2 DEF Take, Echo, HandleEcho, HandleFirst, HandleKnown, Skip, Deliver, StorePeer,
                CompareAndSwap, At
  <2>2. kcpOnce' = kcpOnce /\ kcp' = kcp
    BY <1>2 DEF Take, Echo, HandleEcho, HandleFirst, HandleKnown, Skip, Deliver, StorePeer,
                CompareAndSwap
  <2>3. OnlyMoves(p, t)
    BY <1>2, StepMoves DEF FrameStep
  <2>4. \A u \in Thread : thread[q][u].pc = "start" => thread'[q][u].pc = "start"
    BY <2>1, <2>3 DEF OnlyMoves
  <2> QED
    BY <1>k, <2>2, <2>4
<1>3. ASSUME NEW p \in Peer, NEW t \in Thread, StartOnce(p, t) PROVE Goal
  <2>1. thread[p][t].pc = "once" /\ OnlyMoves(p, t)
    BY <1>3, StepMoves DEF StartOnce, At, FrameStep
  <2>4. \A u \in Thread : thread[q][u].pc = "start" => thread'[q][u].pc = "start"
    BY <2>1 DEF OnlyMoves
  <2>2. CASE q = p
    <3>1. kcpOnce[p]
      BY <1>3, <2>2, StoreRuntime DEF StartOnce
    <3>2. kcp' = kcp /\ kcpOnce'[p] = kcpOnce[p]
      BY <1>3, <3>1 DEF StartOnce, PeerInv
    <3> QED
      BY <1>k, <2>2, <2>4, <3>2
  <2>3. CASE q # p
    <3>1. kcp'[q] = kcp[q] /\ kcpOnce'[q] = kcpOnce[q]
      BY <1>3, <2>3, StoreRuntime DEF StartOnce, PeerInv
    <3> QED
      BY <1>k, <2>3, <2>4, <3>1
  <2> QED
    BY <2>2, <2>3
<1>4. ASSUME NEW p \in Peer, Reconnect(p) PROVE Goal
  <2>1. /\ thread[p][Provider].pc = "read" /\ kcpOnce' = kcpOnce /\ kcp' = kcp
        /\ \A u \in Thread : q # p \/ u # Provider => thread'[q][u] = thread[q][u]
    BY <1>4, ProviderIsThread DEF Reconnect, At, Reset, ThreadInv
  <2> QED
    BY <1>k, <2>1
<1>5. ASSUME NEW p \in Peer, NEW t \in Thread, ResetClear(p, t) PROVE Goal
  <2>1. /\ kcpOnce' = kcpOnce /\ thread'[p][t].pc = "start"
        /\ q # p => kcp'[q] = kcp[q] /\ thread'[q] = thread[q]
    BY <1>5 DEF ResetClear, Goto, ThreadInv, ThreadState, RuntimeInv
  <2> QED
    BY <1>k, <2>1
<1>6. ASSUME NEW p \in Peer, NEW t \in Thread, ResetStart(p, t) PROVE Goal
  <2>1. q # p /\ kcp'[q] = kcp[q] /\ kcpOnce' = kcpOnce
    BY <1>6, StoreRuntime DEF ResetStart
  <2>2. thread'[q] = thread[q]
    BY <1>6, <2>1 DEF ResetStart, Rest, ThreadInv
  <2> QED
    BY <1>k, <2>1, <2>2
<1>7. ASSUME NEW p \in Peer, Restart(p) PROVE Goal
  <2>1. q # p /\ kcp'[q] = kcp[q] /\ kcpOnce'[q] = kcpOnce[q] /\ thread'[q] = thread[q]
    BY <1>7 DEF Restart, PeerInv, RuntimeInv, ThreadInv
  <2> QED
    BY <1>k, <2>1
<1>8. CASE UNCHANGED vars
  BY <1>k, <1>8 DEF vars, procVars
<1> QED
  BY <1>1, <1>2, <1>3, <1>4, <1>5, <1>6, <1>7, <1>8 DEF Next, FrameStep, ResetStep

(* A peer that started KCP is without a runtime only while a goroutine is  *)
(* between the two halves of resetKCP, whatever readers, the provider's    *)
(* reconnects and Close interleave with it: Send and CanSend recover.      *)
THEOREM KcpAlwaysComesBack == Spec => []KcpComesBack
BY InitTypeInv, NextTypeInv, InitKcpComesBack, NextKcpComesBack, PTL DEF Spec

-----------------------------------------------------------------------------
(* ChangesAreCaused for p. Its peer o stamps its frames with Epoch(o, k)   *)
(* after k restarts, and its frames arrive in the order of their epochs. A *)
(* goroutine of p holds a frame of o until it compared its epoch; when the *)
(* newest epoch p took is Epoch(o, k), it is stale if its frame has another*)
(* one. Each stale goroutine may change peerEpoch once, and peerEpoch may  *)
(* then be changed back; a newer epoch makes all goroutines but one stale. *)
Epoch(q, k) == (IF q = "client" THEN 1 ELSE 2) + 2 * k
Others(p) == IF Readers[p] = {} THEN 0 ELSE Cardinality(Readers[p]) - 1
PerRestart(p) == 2 * Others(p) + 1
ForFirst(p) == IF Others(p) = 0 THEN 0 ELSE 1

Holders(p) == {t \in Readers[p] : /\ thread[p][t].pc \in {"handle", "first", "cas"}
                                  /\ thread[p][t].frame.epoch # localEpoch[p]}
Stale(p, k) == {t \in Holders(p) : thread[p][t].frame.epoch # Epoch(Other(p), k)}
Owed(p, k) == IF \/ peerEpoch[p] = Epoch(Other(p), k)
                 \/ peerEpoch[p] = None /\ Others(p) = 0 THEN 0 ELSE 1

Untouched(p) == Holders(p) = {} /\ changes[p] = 0
NewestIs(p, k) ==
  /\ \A t \in Holders(p) : thread[p][t].frame.epoch <= Epoch(Other(p), k)
  /\ \A i \in 1 .. Len(net[Other(p)]) : net[Other(p)][i].epoch >= Epoch(Other(p), k)
  /\ changes[p] + 2 * Cardinality(Stale(p, k)) + Owed(p, k) <= ForFirst(p) + k * PerRestart(p)

ReaderOk(p) == \A t \in Thread :
  /\ thread[p][t].pc \in {"handle", "first", "once", "deliver", "cas"} =>
       t \in Readers[p] /\ thread[p][t].frame.epoch # None
  /\ thread[p][t].pc \in {"first", "cas"} => thread[p][t].frame.epoch # localEpoch[p]
  /\ thread[p][t].pc = "cas" => thread[p][t].prev # thread[p][t].frame.epoch
FirstOk(p) ==
  hadPeer[p] /\ peerEpoch[p] = None => \E t \in Readers[p] : thread[p][t].pc = "first"
AloneOk(p) == \A t \in Thread :
  Others(p) = 0 /\ thread[p][t].pc = "cas" => peerEpoch[p] # None
EpochInv ==
  /\ restarts \in [Peer -> Nat]
  /\ \A q \in Peer :
       /\ localEpoch[q] = Epoch(q, restarts[q])
       /\ \A i \in 1 .. Len(net[q]) :
            /\ \E k \in 0 .. restarts[q] : net[q][i].epoch = Epoch(q, k)
            /\ \A j \in 1 .. i : net[q][j].epoch <= net[q][i].epoch
ChangesOk(p) ==
  (Untouched(p) /\ peerEpoch[p] = None) \/ \E k \in 0 .. restarts[Other(p)] : NewestIs(p, k)

PeerOk(p) == ReaderOk(p) /\ FirstOk(p) /\ AloneOk(p) /\ ChangesOk(p)
ChangesInv == TypeInv /\ EpochInv /\ \A p \in Peer : PeerOk(p)

(* What a step does to the frames of a peer, and to its epoch.             *)
Put(q) == \E f \in Frame : f.epoch = localEpoch[q] /\ net'[q] = Append(net[q], f)
Took(q) == net[q] # <<>> /\ net'[q] = Tail(net[q])
NetStep(q) == net'[q] = net[q] \/ Put(q) \/ Took(q) \/ net'[q] = <<>>
Restarted(q) == /\ restarts' = [restarts EXCEPT ![q] = @ + 1]
                /\ localEpoch' = [localEpoch EXCEPT ![q] = @ + 2]

LEMMA NetSteps ==
  TypeInv /\ [Next]_vars =>
    /\ \A q \in Peer : NetStep(q)
    /\ UNCHANGED <<restarts, localEpoch>> \/ \E q \in Peer : Restarted(q)
<1> SUFFICES ASSUME TypeInv, [Next]_vars
             PROVE  /\ \A q \in Peer : NetStep(q)
                    /\ UNCHANGED <<restarts, localEpoch>> \/ \E q \in Peer : Restarted(q)
  OBVIOUS
<1> USE DEF TypeInv, procVars, boundVars
<1> DEFINE Same == UNCHANGED <<restarts, localEpoch>>
<1>1. ASSUME UNCHANGED net PROVE \A q \in Peer : NetStep(q)
  BY <1>1 DEF NetStep
<1>2. ASSUME NEW p \in Peer, NEW f \in Frame, f.epoch = localEpoch[p],
             net' = [net EXCEPT ![p] = Append(net[p], f)]
      PROVE  \A q \in Peer : NetStep(q)
  BY <1>2 DEF NetStep, Put, NetInv
<1>3. ASSUME NEW p \in Peer, NEW r \in 1 .. Len(runtimes[p]), Transmit(p, r)
      PROVE  (\A q \in Peer : NetStep(q)) /\ Same
  <2>1. PICK sn \in (1 .. Len(runtimes[p][r].out)) \ runtimes[p][r].acked :
          net' = [net EXCEPT ![p] =
            Append(@, [typ |-> "seg", epoch |-> localEpoch[p], sn |-> sn,
                       msg |-> runtimes[p][r].out[sn], una |-> runtimes[p][r].nxt])]
    BY <1>3 DEF Transmit
  <2> DEFINE f == [typ |-> "seg", epoch |-> localEpoch[p], sn |-> sn,
                   msg |-> runtimes[p][r].out[sn], una |-> runtimes[p][r].nxt]
  <2>2. runtimes[p][r] \in KcpRuntime
    BY ElementOfSeq DEF RuntimeInv
  <2>6. runtimes[p][r].out \in Seq(Nat) /\ sn \in 1 .. Len(runtimes[p][r].out)
    BY <2>2 DEF KcpRuntime
  <2>7. Len(runtimes[p][r].out) \in Nat
    BY <2>6, LenProperties
  <2>3. runtimes[p][r].out[sn] \in Nat /\ sn \in Nat
    <3>1. sn \in Nat
      BY <2>6, <2>7
    <3> HIDE DEF TypeInv, Transmit
    <3>2. runtimes[p][r].out[sn] \in Nat
      BY <2>6, ElementOfSeq, Zenon
    <3> QED
      BY <3>1, <3>2
  <2>4. f \in Frame /\ f.epoch = localEpoch[p]
    BY <2>2, <2>3 DEF Frame, KcpRuntime, PeerInv
  <2> HIDE DEF f
  <2>5. \A q \in Peer : NetStep(q)
    BY <1>2, <2>1, <2>4 DEF f
  <2> QED
    BY <1>3, <2>5 DEF Transmit
<1>4. ASSUME NEW p \in Peer, WriteKeepalive(p) PROVE (\A q \in Peer : NetStep(q)) /\ Same
  <2>1. Keepalive(p) \in Frame /\ Keepalive(p).epoch = localEpoch[p]
    BY DEF Keepalive, Nowhere, Frame, PeerInv, None
  <2> QED
    BY <1>2, <1>4, <2>1 DEF WriteKeepalive
<1>5. ASSUME NEW p \in Peer, NEW t \in Thread, Take(p, t)
      PROVE  (\A q \in Peer : NetStep(q)) /\ Same
  BY <1>5 DEF Take, NetStep, Took, NetInv, Other, Peer
<1>6. ASSUME NEW p \in Peer, NEW t \in Thread, Deliver(p, t)
      PROVE  (\A q \in Peer : NetStep(q)) /\ Same
  <2> DEFINE f == thread[p][t].frame
             rt == runtimes[p][kcp[p]]
             nxt == IF f.typ = "seg" /\ f.sn = rt.nxt THEN rt.nxt + 1 ELSE rt.nxt
             ack == [typ |-> "ack", epoch |-> localEpoch[p], sn |-> f.sn, msg |-> 0,
                     una |-> nxt]
  <2>1. /\ kcp[p] # None /\ Same
        /\ \E n \in IF f.typ = "seg" /\ f.sn < nxt /\ ~closed[p] THEN Written(p, ack)
                    ELSE {net[p]} : net' = [net EXCEPT ![p] = n]
    BY <1>6, Zenon DEF Deliver
  <2>2. f \in Frame
    BY DEF ThreadInv, ThreadState
  <2>3. rt \in KcpRuntime
    BY <2>1, ElementOfSeq, LenProperties DEF RuntimeInv, None
  <2>4. nxt \in Nat
    BY <2>3 DEF KcpRuntime
  <2>5. ack \in Frame /\ ack.epoch = localEpoch[p]
    BY <2>2, <2>4 DEF Frame, PeerInv
  <2> HIDE DEF ack, nxt, rt, f
  <2>6. net' = net \/ net' = [net EXCEPT ![p] = Append(net[p], ack)]
    BY <2>1 DEF Written, NetInv
  <2> QED
    BY <1>1, <1>2, <2>1, <2>5, <2>6
<1>7. ASSUME NEW p \in Peer, Restart(p) PROVE (\A q \in Peer : NetStep(q)) /\ Restarted(p)
  BY <1>7 DEF Restart, Restarted, NetStep, NetInv, Other, Peer
<1>8. ASSUME NEW p \in Peer, Send(p) \/ Reconnect(p) \/ Close(p) \/ \E t \in Thread :
               \/ Echo(p, t) \/ HandleEcho(p, t) \/ HandleFirst(p, t) \/ HandleKnown(p, t)
               \/ StorePeer(p, t) \/ StartOnce(p, t) \/ Skip(p, t) \/ CompareAndSwap(p, t)
               \/ ResetClear(p, t) \/ ResetStart(p, t)
      PROVE  UNCHANGED net /\ Same
  BY <1>8 DEF Send, Reconnect, Close, Echo, HandleEcho, HandleFirst, HandleKnown, StorePeer,
              StartOnce, Skip, CompareAndSwap, ResetClear, ResetStart
<1>9. CASE UNCHANGED vars
  BY <1>1, <1>9 DEF vars
<1> QED
  BY <1>1, <1>3, <1>4, <1>5, <1>6, <1>7, <1>8, <1>9 DEF Next, FrameStep, ResetStep

LEMMA EpochGrows ==
  ASSUME NEW q \in Peer, NEW n \in Nat
  PROVE  /\ Epoch(q, n) \in Nat /\ Epoch(q, n) # None
         /\ \A m \in 0 .. n : Epoch(q, m) <= Epoch(q, n)
         /\ Epoch(q, n) + 2 = Epoch(q, n + 1)
BY DEF Epoch, None

LEMMA InitEpochInv == Init => EpochInv
BY DEF Init, EpochInv, Epoch, Peer

(* The frames of a peer that are in flight are in the order of their       *)
(* epochs: every frame is stamped with the newest one.                     *)
LEMMA NextEpochInv == TypeInv /\ EpochInv /\ [Next]_vars => EpochInv'
<1> SUFFICES ASSUME TypeInv, EpochInv, [Next]_vars PROVE EpochInv'
  OBVIOUS
<1> USE DEF EpochInv
<1>1. /\ restarts' \in [Peer -> Nat]
      /\ \A q \in Peer : restarts'[q] >= restarts[q] /\ localEpoch'[q] = Epoch(q, restarts'[q])
  <2>1. CASE UNCHANGED <<restarts, localEpoch>>
    BY <2>1
  <2>2. ASSUME NEW p \in Peer, Restarted(p)
        PROVE  /\ restarts' \in [Peer -> Nat]
               /\ \A q \in Peer : /\ restarts'[q] >= restarts[q]
                                  /\ localEpoch'[q] = Epoch(q, restarts'[q])
    <3>1. /\ restarts' \in [Peer -> Nat] /\ restarts'[p] = restarts[p] + 1
          /\ localEpoch'[p] = localEpoch[p] + 2
      BY <2>2 DEF Restarted, TypeInv, PeerInv
    <3>2. \A q \in Peer \ {p} : restarts'[q] = restarts[q] /\ localEpoch'[q] = localEpoch[q]
      BY <2>2 DEF Restarted, TypeInv, PeerInv
    <3>3. localEpoch'[p] = Epoch(p, restarts'[p])
      <4>1. restarts[p] \in Nat /\ localEpoch[p] = Epoch(p, restarts[p])
        OBVIOUS
      <4>2. Epoch(p, restarts[p]) + 2 = Epoch(p, restarts[p] + 1)
        BY <4>1, EpochGrows
      <4> QED
        BY <3>1, <4>1, <4>2
    <3> QED
      BY <3>1, <3>2, <3>3
  <2> QED
    BY <2>1, <2>2, NetSteps
<1>2. ASSUME NEW q \in Peer, NEW i \in 1 .. Len(net'[q])
      PROVE  /\ \E k \in 0 .. restarts'[q] : net'[q][i].epoch = Epoch(q, k)
             /\ \A j \in 1 .. i : net'[q][j].epoch <= net'[q][i].epoch
  <2>0. net[q] \in Seq(Frame) /\ Len(net[q]) \in Nat /\ restarts[q] \in Nat
        /\ restarts'[q] \in Nat /\ restarts'[q] >= restarts[q]
    BY <1>1, LenProperties DEF TypeInv, NetInv
  <2>e. 0 .. restarts[q] \subseteq 0 .. restarts'[q]
    BY <2>0
  <2>1. CASE net'[q] = net[q]
    BY <2>0, <2>1
  <2>2. CASE Put(q)
    <3>1. PICK f \in Frame : f.epoch = localEpoch[q] /\ net'[q] = Append(net[q], f)
      BY <2>2 DEF Put
    <3>2. /\ Len(net'[q]) = Len(net[q]) + 1
          /\ \A j \in 1 .. Len(net[q]) : net'[q][j] = net[q][j]
          /\ net'[q][Len(net[q]) + 1] = f
      BY <2>0, <3>1, AppendProperties
    <3>3. f.epoch = Epoch(q, restarts[q])
      BY <3>1
    <3>4. CASE i = Len(net[q]) + 1
      <4>1. \A j \in 1 .. Len(net[q]) : net[q][j].epoch <= f.epoch
        BY <2>0, <3>3, EpochGrows
      <4>2. f.epoch <= f.epoch /\ restarts[q] \in 0 .. restarts'[q]
        BY <2>0, <3>3, EpochGrows
      <4>3. net'[q][i] = f
        BY <3>2, <3>4
      <4>4. ASSUME NEW j \in 1 .. i PROVE net'[q][j].epoch <= f.epoch
        <5>1. j \in 1 .. Len(net[q]) \/ j = i
          BY <2>0, <3>4
        <5> QED
          BY <3>2, <4>1, <4>2, <4>3, <5>1
      <4> QED
        BY <3>3, <4>2, <4>3, <4>4
    <3>5. CASE i \in 1 .. Len(net[q])
      <4>1. \A j \in 1 .. i : net'[q][j] = net[q][j]
        BY <2>0, <3>2, <3>5
      <4>2. net'[q][i] = net[q][i]
        BY <3>2, <3>5
      <4> QED
        BY <2>0, <3>5, <4>1, <4>2, <2>e
    <3> QED
      BY <2>0, <3>2, <3>4, <3>5
  <2>3. CASE Took(q)
    <3>1. /\ Len(net'[q]) = Len(net[q]) - 1
          /\ \A j \in 1 .. Len(net[q]) - 1 : net'[q][j] = net[q][j + 1]
      BY <2>0, <2>3, HeadTailProperties DEF Took
    <3>2. i + 1 \in 1 .. Len(net[q]) /\ net'[q][i] = net[q][i + 1]
          /\ \A j \in 1 .. i : j + 1 \in 1 .. i + 1 /\ net'[q][j] = net[q][j + 1]
      BY <2>0, <3>1
    <3>3. \A j \in 1 .. i + 1 : net[q][j].epoch <= net[q][i + 1].epoch
      BY <3>2
    <3> QED
      BY <2>0, <3>2, <3>3, <2>e
  <2>4. CASE net'[q] = <<>>
    BY <2>4
  <2> QED
    BY <2>1, <2>2, <2>3, <2>4, NetSteps DEF NetStep
<1> QED
  BY <1>1, <1>2

(* What one step does to the frames a peer has yet to take.                *)
LEMMA NetAtLeast ==
  ASSUME TypeInv, EpochInv, [Next]_vars, NEW q \in Peer, NEW k \in 0 .. restarts[q],
         \A i \in 1 .. Len(net[q]) : net[q][i].epoch >= Epoch(q, k)
  PROVE  \A i \in 1 .. Len(net'[q]) : net'[q][i].epoch >= Epoch(q, k)
<1> SUFFICES ASSUME NEW i \in 1 .. Len(net'[q]) PROVE net'[q][i].epoch >= Epoch(q, k)
  OBVIOUS
<1>0. net[q] \in Seq(Frame) /\ Len(net[q]) \in Nat /\ restarts[q] \in Nat
  BY LenProperties DEF TypeInv, NetInv, EpochInv
<1>1. CASE Put(q)
  <2>1. PICK f \in Frame : f.epoch = localEpoch[q] /\ net'[q] = Append(net[q], f)
    BY <1>1 DEF Put
  <2>2. f.epoch = Epoch(q, restarts[q])
    BY <2>1 DEF EpochInv
  <2>3. Epoch(q, k) <= Epoch(q, restarts[q])
    BY <1>0, EpochGrows
  <2>4. k \in Nat
    BY <1>0
  <2>6. Epoch(q, k) \in Nat /\ Epoch(q, restarts[q]) \in Nat
    BY <1>0, <2>4, EpochGrows
  <2>5. f.epoch >= Epoch(q, k)
    BY <2>2, <2>3, <2>6
  <2> QED
    BY <1>0, <2>1, <2>5, AppendProperties
<1>2. CASE Took(q)
  BY <1>0, <1>2, HeadTailProperties DEF Took
<1> QED
  BY <1>1, <1>2, NetSteps DEF NetStep

-----------------------------------------------------------------------------
LEMMA ReadersOf ==
  ASSUME NEW p \in Peer
  PROVE  /\ Readers[p] \subseteq Thread /\ Other(p) \in Peer /\ Other(p) # p
         /\ IsFiniteSet(Readers[p]) /\ Cardinality(Readers[p]) \in Nat
         /\ Others(p) \in Nat /\ PerRestart(p) \in Nat /\ PerRestart(p) = 2 * Others(p) + 1
         /\ ForFirst(p) \in Nat /\ ForFirst(p) <= Others(p)
<1>1. IsFiniteSet(Readers[p]) /\ Cardinality(Readers[p]) \in Nat
  BY Vp8Assumption, FS_CardinalityType
<1>2. Readers[p] # {} => Cardinality(Readers[p]) # 0
  BY <1>1, FS_EmptySet
<1>3. Readers[p] \subseteq Thread
  BY DEF Thread
<1>4. Other(p) \in Peer /\ Other(p) # p
  BY DEF Other, Peer
<1>5. Others(p) \in Nat
  BY <1>1, <1>2 DEF Others
<1> QED
  BY <1>1, <1>3, <1>4, <1>5 DEF PerRestart, ForFirst

LEMMA AloneReader ==
  ASSUME NEW p \in Peer, Others(p) = 0, NEW t \in Readers[p], NEW u \in Readers[p]
  PROVE  u = t
<1>1. IsFiniteSet(Readers[p]) /\ Cardinality(Readers[p]) = 1
  BY ReadersOf DEF Others
<1> QED
  BY <1>1, FS_Singleton

LEMMA StaleIsFinite ==
  ASSUME NEW p \in Peer, NEW k
  PROVE  /\ IsFiniteSet(Holders(p)) /\ IsFiniteSet(Stale(p, k))
         /\ Stale(p, k) \subseteq Holders(p) /\ Holders(p) \subseteq Readers[p]
         /\ Cardinality(Stale(p, k)) \in Nat
         /\ Owed(p, k) \in 0 .. 1
<1>1. Stale(p, k) \subseteq Holders(p) /\ Holders(p) \subseteq Readers[p]
  BY DEF Stale, Holders
<1> QED
  BY <1>1, ReadersOf, FS_Subset, FS_CardinalityType DEF Owed

LEMMA BoundIsNat ==
  ASSUME NEW p \in Peer, NEW k \in Nat
  PROVE  k * PerRestart(p) \in Nat /\ ForFirst(p) + k * PerRestart(p) \in Nat
BY ReadersOf

(* A step after which the goroutines of q hold nothing new.                *)
Quietly(q, t) ==
  /\ thread[q][t].pc # "first"
  /\ thread'[q][t].pc \in {"read", "deliver", "clear", "start"}
  /\ thread'[q][t].pc = "deliver" => t \in Readers[q] /\ thread'[q][t].frame.epoch # None

(* The newest epoch taken stays the newest if no newer one is taken and no *)
(* more changes are possible than before.                                  *)
LEMMA NewestStays ==
  ASSUME ChangesInv, EpochInv', [Next]_vars, NEW q \in Peer,
         NEW k \in 0 .. restarts[Other(q)], NewestIs(q, k),
         \A t \in Holders(q)' : thread'[q][t].frame.epoch <= Epoch(Other(q), k),
         changes'[q] + 2 * Cardinality(Stale(q, k)') + Owed(q, k)'
           <= changes[q] + 2 * Cardinality(Stale(q, k)) + Owed(q, k)
  PROVE  ChangesOk(q)'
<1> USE DEF ChangesInv
<1>1. Other(q) \in Peer /\ restarts[Other(q)] \in Nat /\ restarts'[Other(q)] \in Nat
      /\ restarts'[Other(q)] >= restarts[Other(q)] /\ k \in Nat
  <2>1. Other(q) \in Peer
    BY ReadersOf
  <2> QED
    BY <2>1, NetSteps DEF EpochInv, Restarted
<1>2. k \in 0 .. restarts'[Other(q)]
  BY <1>1
<1>3. \A i \in 1 .. Len(net'[Other(q)]) : net'[Other(q)][i].epoch >= Epoch(Other(q), k)
  BY <1>1, NetAtLeast DEF NewestIs
<1>4. changes'[q] + 2 * Cardinality(Stale(q, k)') + Owed(q, k)'
        <= ForFirst(q) + k * PerRestart(q)
  <2>1. changes[q] \in Nat /\ Cardinality(Stale(q, k)) \in Nat /\ Owed(q, k) \in Nat
    BY StaleIsFinite DEF TypeInv, CountInv
  <2>2. changes'[q] \in Nat /\ Cardinality(Stale(q, k)') \in Nat /\ Owed(q, k)' \in Nat
    <3>1. TypeInv'
      BY NextTypeInv
    <3>2. IsFiniteSet(Stale(q, k)')
      BY ReadersOf, FS_Subset DEF Stale, Holders
    <3> QED
      BY <3>1, <3>2, FS_CardinalityType DEF TypeInv, CountInv, Owed
  <2>3. ForFirst(q) + k * PerRestart(q) \in Nat
    BY <1>1, BoundIsNat
  <2>4. changes[q] + 2 * Cardinality(Stale(q, k)) + Owed(q, k) <= ForFirst(q) + k * PerRestart(q)
    BY DEF NewestIs
  <2> HIDE DEF Owed, ForFirst, PerRestart
  <2> QED
    BY <2>1, <2>2, <2>3, <2>4
<1>5. NewestIs(q, k)'
  BY <1>3, <1>4 DEF NewestIs, Epoch, Other, ForFirst, PerRestart, Others
<1> QED
  BY <1>2, <1>5 DEF ChangesOk, Other

LEMMA QuietStep ==
  ASSUME ChangesInv, EpochInv', [Next]_vars, NEW q \in Peer,
         localEpoch'[q] = localEpoch[q], peerEpoch'[q] = peerEpoch[q],
         hadPeer'[q] = hadPeer[q], changes'[q] = changes[q],
         \A t \in Thread : thread'[q][t] = thread[q][t] \/ Quietly(q, t)
  PROVE  PeerOk(q)'
<1> USE DEF ChangesInv
<1>1. ReaderOk(q)'
  BY DEF ReaderOk, PeerOk, Quietly
<1>2. FirstOk(q)'
  BY ReadersOf DEF FirstOk, PeerOk, Quietly
<1>3. AloneOk(q)'
  BY DEF AloneOk, PeerOk, Quietly, Others
<1>4. \A t \in Holders(q)' : t \in Holders(q) /\ thread'[q][t] = thread[q][t]
  BY ReadersOf DEF Holders, Quietly
<1>5. ChangesOk(q)'
  <2>1. CASE Untouched(q) /\ peerEpoch[q] = None
    BY <1>4, <2>1 DEF ChangesOk, Untouched
  <2>2. ASSUME NEW k \in 0 .. restarts[Other(q)], NewestIs(q, k) PROVE ChangesOk(q)'
    <3>1. \A t \in Holders(q)' : thread'[q][t].frame.epoch <= Epoch(Other(q), k)
      BY <1>4, <2>2 DEF NewestIs
    <3>2. Stale(q, k)' \subseteq Stale(q, k)
      BY <1>4 DEF Stale, Epoch, Other
    <3>3. Cardinality(Stale(q, k)') <= Cardinality(Stale(q, k))
          /\ Cardinality(Stale(q, k)') \in Nat /\ Cardinality(Stale(q, k)) \in Nat
      BY <3>2, StaleIsFinite, FS_Subset, FS_CardinalityType
    <3>4. Owed(q, k)' = Owed(q, k)
      BY DEF Owed, Epoch, Other, Others
    <3>5. changes[q] \in Nat /\ Owed(q, k) \in Nat
      BY StaleIsFinite DEF TypeInv, CountInv
    <3> QED
      BY <2>2, <3>1, <3>3, <3>4, <3>5, NewestStays
  <2> QED
    BY <2>1, <2>2 DEF PeerOk, ChangesOk
<1> QED
  BY <1>1, <1>2, <1>3, <1>5 DEF PeerOk

(* Facts of a step of goroutine t of p alone.                              *)
Alone(p, t) == \A u \in Thread \ {t} : thread'[p][u] = thread[p][u]

LEMMA FirstStep ==
  ASSUME ChangesInv, EpochInv', [Next]_vars, NEW p \in Peer, NEW t \in Thread, HandleFirst(p, t)
  PROVE  PeerOk(p)'
<1> USE DEF ChangesInv
<1>1. /\ thread[p][t].pc = "handle" /\ thread'[p][t].pc = "first"
      /\ thread'[p][t].frame = thread[p][t].frame /\ Alone(p, t)
      /\ thread[p][t].frame.epoch # localEpoch[p]
      /\ UNCHANGED <<localEpoch, peerEpoch, changes>>
  BY DEF HandleFirst, At, IsEcho, Goto, Alone, TypeInv, ThreadInv, ThreadState, histVars
<1>2. t \in Readers[p] /\ thread[p][t].frame.epoch # None
  BY <1>1 DEF PeerOk, ReaderOk
<1>3. ReaderOk(p)'
  BY <1>1, <1>2 DEF PeerOk, ReaderOk, Alone
<1>4. FirstOk(p)'
  BY <1>1, <1>2 DEF FirstOk
<1>5. AloneOk(p)'
  BY <1>1 DEF PeerOk, AloneOk, Alone, Others
<1>6. /\ Holders(p)' = Holders(p)
      /\ \A u \in Holders(p) : thread'[p][u].frame = thread[p][u].frame
  BY <1>1, <1>2, ReadersOf DEF Holders, Alone
<1>7. ChangesOk(p)'
  <2>1. CASE Untouched(p) /\ peerEpoch[p] = None
    BY <1>1, <1>6, <2>1 DEF ChangesOk, Untouched
  <2>2. ASSUME NEW k \in 0 .. restarts[Other(p)], NewestIs(p, k) PROVE ChangesOk(p)'
    <3>1. Stale(p, k)' = Stale(p, k) /\ Owed(p, k)' = Owed(p, k)
      BY <1>1, <1>6 DEF Stale, Owed, Epoch, Other, Others
    <3>2. \A u \in Holders(p)' : thread'[p][u].frame.epoch <= Epoch(Other(p), k)
      BY <1>6, <2>2 DEF NewestIs
    <3>3. /\ changes'[p] = changes[p] /\ changes[p] \in Nat
          /\ Cardinality(Stale(p, k)) \in Nat /\ Owed(p, k) \in Nat
      BY <1>1, StaleIsFinite DEF TypeInv, CountInv
    <3> QED
      BY <2>2, <3>1, <3>2, <3>3, NewestStays
  <2> QED
    BY <2>1, <2>2 DEF PeerOk, ChangesOk
<1> QED
  BY <1>3, <1>4, <1>5, <1>7 DEF PeerOk

(* A goroutine about to compare and swap saw an epoch that is not its      *)
(* frame's; were it the only reader, the epoch would have been stored.     *)
LEMMA SawChangeStep ==
  ASSUME ChangesInv, EpochInv', [Next]_vars, NEW p \in Peer, NEW t \in Thread,
         HandleKnown(p, t), peerEpoch[p] # thread[p][t].frame.epoch
  PROVE  PeerOk(p)'
<1> USE DEF ChangesInv
<1>1. /\ thread[p][t].pc = "handle" /\ thread'[p][t].pc = "cas"
      /\ thread'[p][t].frame = thread[p][t].frame /\ thread'[p][t].prev = peerEpoch[p]
      /\ Alone(p, t)
      /\ thread[p][t].frame.epoch # localEpoch[p] /\ hadPeer[p]
      /\ UNCHANGED <<localEpoch, peerEpoch, hadPeer, changes>>
  BY DEF HandleKnown, At, IsEcho, Alone, TypeInv, ThreadInv, ThreadState, histVars
<1>2. t \in Readers[p] /\ thread[p][t].frame.epoch # None
  BY <1>1 DEF PeerOk, ReaderOk
<1>3. ReaderOk(p)'
  BY <1>1, <1>2 DEF PeerOk, ReaderOk, Alone
<1>4. FirstOk(p)'
  BY <1>1, ReadersOf DEF PeerOk, FirstOk, Alone
<1>5. AloneOk(p)'
  <2>1. Others(p) = 0 => peerEpoch[p] # None
    <3> SUFFICES ASSUME Others(p) = 0, peerEpoch[p] = None PROVE FALSE
      OBVIOUS
    <3>1. PICK u \in Readers[p] : thread[p][u].pc = "first"
      BY <1>1 DEF PeerOk, FirstOk
    <3> QED
      BY <1>1, <1>2, <3>1, AloneReader
  <2> QED
    BY <1>1, <2>1 DEF PeerOk, AloneOk, Alone, Others
<1>6. /\ Holders(p)' = Holders(p)
      /\ \A u \in Holders(p) : thread'[p][u].frame = thread[p][u].frame
  BY <1>1, <1>2, ReadersOf DEF Holders, Alone
<1>7. ChangesOk(p)'
  <2>1. CASE Untouched(p) /\ peerEpoch[p] = None
    BY <1>1, <1>6, <2>1 DEF ChangesOk, Untouched
  <2>2. ASSUME NEW k \in 0 .. restarts[Other(p)], NewestIs(p, k) PROVE ChangesOk(p)'
    <3>1. Stale(p, k)' = Stale(p, k) /\ Owed(p, k)' = Owed(p, k)
      BY <1>1, <1>6 DEF Stale, Owed, Epoch, Other, Others
    <3>2. \A u \in Holders(p)' : thread'[p][u].frame.epoch <= Epoch(Other(p), k)
      BY <1>6, <2>2 DEF NewestIs
    <3>3. /\ changes'[p] = changes[p] /\ changes[p] \in Nat
          /\ Cardinality(Stale(p, k)) \in Nat /\ Owed(p, k) \in Nat
      BY <1>1, StaleIsFinite DEF TypeInv, CountInv
    <3> QED
      BY <2>2, <3>1, <3>2, <3>3, NewestStays
  <2> QED
    BY <2>1, <2>2 DEF PeerOk, ChangesOk
<1> QED
  BY <1>3, <1>4, <1>5, <1>7 DEF PeerOk

(* A stale goroutine stops being one; a fresh one stores the newest epoch. *)
LEMMA StoreStep ==
  ASSUME ChangesInv, EpochInv', [Next]_vars, NEW p \in Peer, NEW t \in Thread,
         \/ StorePeer(p, t)
         \/ CompareAndSwap(p, t) /\ peerEpoch[p] = thread[p][t].prev
  PROVE  PeerOk(p)'
<1> USE DEF ChangesInv
<1> DEFINE e == thread[p][t].frame.epoch
<1>1. /\ thread[p][t].pc \in {"first", "cas"}
      /\ thread'[p][t].pc \in {"once", "clear"}
      /\ thread'[p][t].pc = "once" => thread'[p][t].frame = thread[p][t].frame
      /\ Alone(p, t)
      /\ UNCHANGED <<localEpoch, hadPeer>> /\ peerEpoch'[p] = e
      /\ changes'[p] = IF thread[p][t].pc = "cas" THEN changes[p] + 1 ELSE changes[p]
      /\ thread[p][t].pc = "cas" => peerEpoch[p] = thread[p][t].prev
  <2>1. CASE StorePeer(p, t)
    BY <2>1 DEF StorePeer, At, Goto, Alone, TypeInv, PeerInv, ThreadInv, ThreadState, CountInv, histVars
  <2>2. CASE CompareAndSwap(p, t) /\ peerEpoch[p] = thread[p][t].prev
    BY <2>2, RestStates
    DEF CompareAndSwap, At, Reset, Alone, TypeInv, PeerInv, ThreadInv, ThreadState, CountInv
  <2> QED
    BY <2>1, <2>2
<1>2. t \in Readers[p] /\ e # None /\ e # localEpoch[p] /\ t \in Holders(p)
      /\ (thread[p][t].pc = "cas" => peerEpoch[p] # e)
  BY <1>1 DEF PeerOk, ReaderOk, Holders
<1>3. ReaderOk(p)'
  BY <1>1, <1>2 DEF PeerOk, ReaderOk, Alone
<1>4. FirstOk(p)'
  BY <1>1, <1>2 DEF FirstOk
<1>5. AloneOk(p)'
  BY <1>1, <1>2 DEF AloneOk
<1>6. /\ Holders(p)' = Holders(p) \ {t}
      /\ \A u \in Holders(p)' : thread'[p][u] = thread[p][u]
  BY <1>1, <1>2, ReadersOf DEF Holders, Alone
<1>7. ASSUME NEW k \in 0 .. restarts[Other(p)], NewestIs(p, k) PROVE ChangesOk(p)'
  <2>1. \A u \in Holders(p)' : thread'[p][u].frame.epoch <= Epoch(Other(p), k)
    BY <1>6, <1>7 DEF NewestIs
  <2>2. Stale(p, k)' = Stale(p, k) \ {t}
    BY <1>6 DEF Stale, Epoch, Other
  <2>3. /\ changes[p] \in Nat /\ Cardinality(Stale(p, k)) \in Nat /\ Owed(p, k) \in 0 .. 1
        /\ changes'[p] <= changes[p] + 1 /\ changes'[p] \in Nat
    BY <1>1, StaleIsFinite DEF TypeInv, CountInv
  <2>4. CASE e = Epoch(Other(p), k)
    <3>1. Stale(p, k)' = Stale(p, k)
      BY <2>2, <2>4 DEF Stale
    <3>2. Owed(p, k)' = 0
      BY <1>1, <2>4 DEF Owed, Epoch, Other
    <3>3. thread[p][t].pc = "cas" => Owed(p, k) = 1
      BY <1>1, <1>2, <2>4 DEF Owed, PeerOk, AloneOk
    <3>4. changes'[p] + Owed(p, k)' <= changes[p] + Owed(p, k)
      BY <1>1, <2>3, <3>2, <3>3
    <3> QED
      BY <1>7, <2>1, <2>3, <3>1, <3>2, <3>4, NewestStays
  <2>5. CASE e # Epoch(Other(p), k)
    <3>1. t \in Stale(p, k)
      BY <1>2, <2>5 DEF Stale
    <3>2. Cardinality(Stale(p, k)') = Cardinality(Stale(p, k)) - 1
      BY <2>2, <3>1, StaleIsFinite, FS_RemoveElement
    <3>3. Owed(p, k)' \in 0 .. 1
      BY DEF Owed
    <3> QED
      BY <1>7, <2>1, <2>3, <3>2, <3>3, NewestStays
  <2> QED
    BY <2>4, <2>5
<1>8. ~Untouched(p)
  BY <1>2 DEF Untouched
<1> QED
  BY <1>3, <1>4, <1>5, <1>7, <1>8 DEF PeerOk, ChangesOk

(* A reader takes a frame: its own process's, one of the newest epoch so   *)
(* far, or one of a newer epoch, of which no goroutine holds a frame yet.  *)
LEMMA TakeStep ==
  ASSUME ChangesInv, EpochInv', [Next]_vars, NEW p \in Peer, NEW t \in Thread,
         Take(p, t) \/ Echo(p, t)
  PROVE  PeerOk(p)'
<1> USE DEF ChangesInv
<1> DEFINE o == Other(p)
           e == thread'[p][t].frame.epoch
<1>0. /\ o \in Peer /\ t \in Readers[p] /\ net[o] \in Seq(Frame) /\ restarts[o] \in Nat
      /\ restarts' = restarts /\ localEpoch' = localEpoch
  BY ReadersOf DEF Take, Echo, EpochInv, TypeInv, NetInv, boundVars
<1>1. /\ thread[p][t].pc = "read" /\ thread'[p][t].pc = "handle" /\ Alone(p, t)
      /\ UNCHANGED <<hadPeer, peerEpoch, changes>>
  BY DEF Take, Echo, At, Alone, TypeInv, ThreadInv, histVars
<1>2. e = localEpoch[p] \/ (net[o] # <<>> /\ e = Head(net[o]).epoch /\ net'[o] = Tail(net[o]))
  BY <1>0 DEF Take, Echo, TypeInv, ThreadInv, NetInv
<1>3. ASSUME e # localEpoch[p]
      PROVE  /\ \E k \in 0 .. restarts[o] : e = Epoch(o, k)
             /\ \A i \in 1 .. Len(net'[o]) : net'[o][i].epoch >= e
             /\ net[o] # <<>> /\ e = net[o][1].epoch
  <2>1. net[o] # <<>> /\ e = net[o][1].epoch /\ net'[o] = Tail(net[o]) /\ Len(net[o]) \in Nat
        /\ Len(net[o]) >= 1
    BY <1>0, <1>2, <1>3, HeadTailProperties, LenProperties, EmptySeq
  <2>2. \E k \in 0 .. restarts[o] : e = Epoch(o, k)
    BY <1>0, <2>1 DEF EpochInv
  <2>3. ASSUME NEW i \in 1 .. Len(net'[o]) PROVE net'[o][i].epoch >= e
    <3>1. net'[o][i] = net[o][i + 1] /\ i + 1 \in 1 .. Len(net[o]) /\ 1 \in 1 .. i + 1
      BY <1>0, <2>1, HeadTailProperties
    <3>2. net[o][1].epoch <= net[o][i + 1].epoch /\ net[o][i + 1] \in Frame /\ net[o][1] \in Frame
      BY <1>0, <3>1, <2>1, ElementOfSeq DEF EpochInv
    <3> QED
      BY <2>1, <3>1, <3>2 DEF Frame
  <2> QED
    BY <2>1, <2>2, <2>3
<1>4. e # None
  <2>1. Epoch(p, restarts[p]) # None /\ localEpoch[p] = Epoch(p, restarts[p])
    BY EpochGrows DEF EpochInv
  <2>2. \A k \in 0 .. restarts[o] : Epoch(o, k) # None
    BY <1>0, EpochGrows
  <2> QED
    BY <1>3, <2>1, <2>2
<1> HIDE DEF e
<1>5. ReaderOk(p)'
  BY <1>0, <1>1, <1>4 DEF PeerOk, ReaderOk, Alone, e
<1>6. FirstOk(p)'
  BY <1>0, <1>1, ReadersOf DEF PeerOk, FirstOk, Alone
<1>7. AloneOk(p)'
  BY <1>1 DEF PeerOk, AloneOk, Alone, Others
<1>8. /\ t \notin Holders(p)
      /\ Holders(p)' = Holders(p) \cup (IF e = localEpoch[p] THEN {} ELSE {t})
      /\ \A u \in Holders(p) : thread'[p][u] = thread[p][u]
  BY <1>0, <1>1, ReadersOf DEF Holders, Alone, e
<1>9. ASSUME NEW k \in 0 .. restarts[o], e = Epoch(o, k), e # localEpoch[p],
             Untouched(p), peerEpoch[p] = None
      PROVE  ChangesOk(p)'
  <2>1. Holders(p)' = {t}
    BY <1>8, <1>9 DEF Untouched
  <2>2. Cardinality(Stale(p, k)') = 0
    <3>1. Stale(p, k)' = {}
      BY <1>0, <1>9, <2>1 DEF Stale, Epoch, Other, e
    <3> QED
      BY <3>1, FS_EmptySet
  <2>3. Owed(p, k)' <= ForFirst(p) /\ Owed(p, k)' \in Nat
    BY <1>1, <1>9 DEF Owed, ForFirst, Others
  <2>4. k * PerRestart(p) \in Nat /\ ForFirst(p) \in Nat
    BY <1>0, BoundIsNat, ReadersOf
  <2>5. /\ changes'[p] = 0 /\ changes'[p] + 2 * Cardinality(Stale(p, k)') + Owed(p, k)'
             <= ForFirst(p) + k * PerRestart(p)
    BY <1>1, <1>9, <2>2, <2>3, <2>4 DEF Untouched
  <2>6. \A u \in Holders(p)' : thread'[p][u].frame.epoch <= Epoch(o, k)
    <3>1. e <= Epoch(o, k)
      BY <1>0, <1>9, EpochGrows
    <3> QED
      BY <2>1, <3>1 DEF e
  <2>7. \A i \in 1 .. Len(net'[o]) : net'[o][i].epoch >= Epoch(o, k)
    BY <1>3, <1>9
  <2>8. NewestIs(p, k)'
    BY <2>5, <2>6, <2>7 DEF NewestIs, Epoch, Other, ForFirst, PerRestart, Others
  <2> QED
    BY <1>0, <2>8 DEF ChangesOk, Other
<1>10. ASSUME NEW k \in 0 .. restarts[o], NewestIs(p, k),
              e = localEpoch[p] \/ e = Epoch(o, k)
       PROVE  ChangesOk(p)'
  <2>1. \A u \in Holders(p)' : thread'[p][u].frame.epoch <= Epoch(o, k)
    <3>1. Epoch(o, k) <= Epoch(o, k)
      BY <1>0, EpochGrows
    <3> QED
      BY <1>8, <1>10, <3>1 DEF NewestIs, e
  <2>2. Stale(p, k)' = Stale(p, k)
    BY <1>0, <1>8, <1>10 DEF Stale, Epoch, Other, e
  <2>3. Owed(p, k)' = Owed(p, k) /\ changes' = changes
    BY <1>1 DEF Owed, Epoch, Other, Others
  <2>4. /\ changes[p] \in Nat /\ Cardinality(Stale(p, k)) \in Nat /\ Owed(p, k) \in Nat
    BY StaleIsFinite DEF TypeInv, CountInv
  <2> QED
    BY <1>10, <2>1, <2>2, <2>3, <2>4, NewestStays
<1>11. ASSUME NEW k \in 0 .. restarts[o], NewestIs(p, k), e # localEpoch[p], e # Epoch(o, k)
       PROVE  ChangesOk(p)'
  <2>1. PICK m \in 0 .. restarts[o] : e = Epoch(o, m)
    BY <1>3, <1>11
  <2>2. e >= Epoch(o, k) /\ Epoch(o, k) \in Nat /\ e \in Nat
    <3>1. 1 \in 1 .. Len(net[o])
      BY <1>0, <1>3, <1>11, EmptySeq
    <3>2. net[o][1].epoch >= Epoch(o, k)
      BY <1>11, <3>1 DEF NewestIs
    <3>3. Epoch(o, k) \in Nat /\ Epoch(o, m) \in Nat
      BY <1>0, EpochGrows
    <3> QED
      BY <1>3, <1>11, <2>1, <3>2, <3>3
  <2>3. m >= k + 1 /\ m \in Nat /\ k \in Nat
    BY <1>0, <1>11, <2>1, <2>2 DEF Epoch
  <2>4. \A u \in Holders(p)' : thread'[p][u].frame.epoch <= e
    <3>1. ASSUME NEW u \in Holders(p) PROVE thread'[p][u].frame.epoch <= e
      <4>1. thread[p][u].frame.epoch <= Epoch(o, k) /\ thread[p][u].frame.epoch \in Nat
        BY <1>11, ReadersOf
        DEF NewestIs, Holders, TypeInv, ThreadInv, ThreadState, Frame
      <4> QED
        BY <1>8, <2>2, <4>1
    <3> QED
      BY <1>8, <2>2, <3>1 DEF e
  <2>5. Cardinality(Stale(p, m)') <= Others(p) /\ Cardinality(Stale(p, m)') \in Nat
    <3>1. Stale(p, m)' \subseteq Readers[p] \ {t}
      BY <1>0, <1>8, <2>1 DEF Stale, Holders, Epoch, Other, e
    <3>2. Cardinality(Readers[p] \ {t}) = Others(p) /\ IsFiniteSet(Readers[p] \ {t})
      BY <1>0, ReadersOf, FS_RemoveElement DEF Others
    <3> QED
      BY <3>1, <3>2, FS_Subset, FS_CardinalityType
  <2>6. changes'[p] = changes[p] /\ changes[p] \in Nat /\ Owed(p, m)' \in 0 .. 1
    BY <1>1 DEF Owed, TypeInv, CountInv
  <2>7. changes[p] <= ForFirst(p) + k * PerRestart(p)
    <3>1. /\ Cardinality(Stale(p, k)) \in Nat /\ Owed(p, k) \in Nat
          /\ ForFirst(p) + k * PerRestart(p) \in Nat
      BY <2>3, StaleIsFinite, BoundIsNat
    <3> QED
      BY <1>11, <2>6, <3>1 DEF NewestIs
  <2>8. k * PerRestart(p) + PerRestart(p) <= m * PerRestart(p)
    <3>1. PerRestart(p) \in Nat
      BY ReadersOf
    <3> HIDE DEF PerRestart
    <3> QED
      BY <2>3, <3>1
  <2>9. changes'[p] + 2 * Cardinality(Stale(p, m)') + Owed(p, m)'
          <= ForFirst(p) + m * PerRestart(p)
    <3>1. /\ k * PerRestart(p) \in Nat /\ m * PerRestart(p) \in Nat /\ ForFirst(p) \in Nat
          /\ PerRestart(p) = 2 * Others(p) + 1 /\ Others(p) \in Nat
      BY <2>3, BoundIsNat, ReadersOf
    <3> QED
      BY <2>5, <2>6, <2>7, <2>8, <3>1
  <2>10. NewestIs(p, m)'
    BY <1>3, <1>11, <2>1, <2>4, <2>9
    DEF NewestIs, Epoch, Other, ForFirst, PerRestart, Others
  <2> QED
    BY <1>0, <2>1, <2>10 DEF ChangesOk, Other
<1>12. ChangesOk(p)'
  <2>1. CASE Untouched(p) /\ peerEpoch[p] = None /\ e = localEpoch[p]
    BY <1>1, <1>8, <2>1 DEF ChangesOk, Untouched
  <2>2. CASE Untouched(p) /\ peerEpoch[p] = None /\ e # localEpoch[p]
    BY <1>3, <1>9, <2>2
  <2>3. CASE \E k \in 0 .. restarts[o] : NewestIs(p, k)
    BY <1>10, <1>11, <2>3
  <2> QED
    BY <2>1, <2>2, <2>3 DEF PeerOk, ChangesOk
<1> QED
  BY <1>5, <1>6, <1>7, <1>12 DEF PeerOk

LEMMA InitChangesInv == Init => ChangesInv
<1> SUFFICES ASSUME Init PROVE ChangesInv
  OBVIOUS
<1>1. ASSUME NEW p \in Peer PROVE PeerOk(p)
  BY <1>1, ReadersOf
  DEF Init, AtRest, PeerOk, ReaderOk, FirstOk, AloneOk, ChangesOk, Untouched, Holders
<1> QED
  BY <1>1, InitTypeInv, InitEpochInv DEF ChangesInv

LEMMA NextChangesInv == ChangesInv /\ [Next]_vars => ChangesInv'
<1> SUFFICES ASSUME ChangesInv, [Next]_vars PROVE ChangesInv'
  OBVIOUS
<1>0. TypeInv' /\ EpochInv'
  BY NextTypeInv, NextEpochInv DEF ChangesInv
<1> SUFFICES ASSUME NEW q \in Peer PROVE PeerOk(q)'
  BY <1>0 DEF ChangesInv
<1> USE DEF ChangesInv
<1> DEFINE Same == /\ localEpoch'[q] = localEpoch[q] /\ peerEpoch'[q] = peerEpoch[q]
                   /\ hadPeer'[q] = hadPeer[q] /\ changes'[q] = changes[q]
           Still == Same /\ thread'[q] = thread[q]
<1>s. ASSUME Still PROVE PeerOk(q)'
  BY <1>0, <1>s, QuietStep
<1>1. ASSUME NEW p \in Peer, Send(p) \/ WriteKeepalive(p) \/ Close(p)
                            \/ \E r \in 1 .. Len(runtimes[p]) : Transmit(p, r)
      PROVE  PeerOk(q)'
  BY <1>1, <1>s DEF Send, WriteKeepalive, Close, Transmit, procVars, histVars
<1>2. ASSUME NEW p \in Peer, NEW t \in Thread, Take(p, t) \/ Echo(p, t) PROVE PeerOk(q)'
  <2>1. CASE q = p
    BY <1>0, <1>2, <2>1, TakeStep
  <2>2. CASE q # p
    BY <1>2, <1>s, <2>2 DEF Take, Echo, TypeInv, ThreadInv, histVars
  <2> QED
    BY <2>1, <2>2
<1>3. ASSUME NEW p \in Peer, NEW t \in Thread, HandleFirst(p, t) PROVE PeerOk(q)'
  <2>1. CASE q = p
    BY <1>0, <1>3, <2>1, FirstStep
  <2>2. CASE q # p
    BY <1>3, <1>s, <2>2 DEF HandleFirst, Goto, TypeInv, ThreadInv, PeerInv, histVars
  <2> QED
    BY <2>1, <2>2
<1>4. ASSUME NEW p \in Peer, NEW t \in Thread,
             \/ HandleEcho(p, t) \/ Skip(p, t) \/ Deliver(p, t) \/ StartOnce(p, t)
             \/ ResetClear(p, t) \/ ResetStart(p, t)
             \/ HandleKnown(p, t) /\ peerEpoch[p] = thread[p][t].frame.epoch
             \/ CompareAndSwap(p, t) /\ peerEpoch[p] # thread[p][t].prev
      PROVE  PeerOk(q)'
  <2>1. Same
    BY <1>4
    DEF HandleEcho, Skip, Deliver, StartOnce, ResetClear, ResetStart, HandleKnown,
        CompareAndSwap, histVars
  <2>2. \A u \in Thread : q # p \/ u # t => thread'[q][u] = thread[q][u]
    BY <1>4, StepMoves DEF FrameStep, ResetStep, OnlyMoves, TypeInv
  <2>3. Quietly(p, t)
    <3>1. CASE Rest(p, t) /\ ~At(p, t, "first")
      <4>1. thread'[p][t] = AtRest
        BY <3>1 DEF Rest, TypeInv, ThreadInv
      <4> QED
        BY <3>1, <4>1, RestStates DEF At, Quietly
    <3>2. CASE thread[p][t].pc \in {"handle", "once"} /\ Goto(p, t, "deliver")
      <4>1. /\ thread'[p][t].pc = "deliver"
            /\ thread'[p][t].frame = thread[p][t].frame
        BY <3>2 DEF Goto, TypeInv, ThreadInv, ThreadState
      <4>2. t \in Readers[p] /\ thread[p][t].frame.epoch # None
        BY <3>2 DEF PeerOk, ReaderOk
      <4> QED
        BY <3>2, <4>1, <4>2 DEF Quietly
    <3>3. CASE thread[p][t].pc = "clear" /\ Goto(p, t, "start")
      <4>1. thread'[p][t].pc = "start"
        BY <3>3 DEF Goto, TypeInv, ThreadInv, ThreadState
      <4> QED
        BY <3>3, <4>1 DEF Quietly
    <3>4. CASE HandleEcho(p, t) \/ Skip(p, t) \/ Deliver(p, t) \/ ResetStart(p, t)
      BY <3>1, <3>4 DEF HandleEcho, Skip, Deliver, ResetStart, At
    <3>5. CASE CompareAndSwap(p, t) /\ peerEpoch[p] # thread[p][t].prev
      BY <3>1, <3>5 DEF CompareAndSwap, At
    <3>6. CASE HandleKnown(p, t) /\ peerEpoch[p] = thread[p][t].frame.epoch
      BY <3>2, <3>6 DEF HandleKnown, At
    <3>7. CASE StartOnce(p, t)
      BY <3>2, <3>7 DEF StartOnce, At
    <3>8. CASE ResetClear(p, t)
      BY <3>3, <3>8 DEF ResetClear, At
    <3> QED
      BY <1>4, <3>4, <3>5, <3>6, <3>7, <3>8
  <2> QED
    BY <1>0, <2>1, <2>2, <2>3, QuietStep
<1>5. ASSUME NEW p \in Peer, NEW t \in Thread,
             HandleKnown(p, t), peerEpoch[p] # thread[p][t].frame.epoch
      PROVE  PeerOk(q)'
  <2>1. CASE q = p
    BY <1>0, <1>5, <2>1, SawChangeStep
  <2>2. CASE q # p
    BY <1>5, <1>s, <2>2 DEF HandleKnown, TypeInv, ThreadInv, histVars
  <2> QED
    BY <2>1, <2>2
<1>6. ASSUME NEW p \in Peer, NEW t \in Thread,
             \/ StorePeer(p, t)
             \/ CompareAndSwap(p, t) /\ peerEpoch[p] = thread[p][t].prev
      PROVE  PeerOk(q)'
  <2>1. CASE q = p
    BY <1>0, <1>6, <2>1, StoreStep
  <2>2. CASE q # p
    BY <1>6, <1>s, <2>2
    DEF StorePeer, CompareAndSwap, Goto, Reset, TypeInv, ThreadInv, PeerInv, CountInv, histVars
  <2> QED
    BY <2>1, <2>2
<1>7. ASSUME NEW p \in Peer, Reconnect(p) PROVE PeerOk(q)'
  <2>1. Same
    BY <1>7 DEF Reconnect
  <2>2. \A u \in Thread : q # p \/ u # Provider => thread'[q][u] = thread[q][u]
    BY <1>7, ProviderIsThread DEF Reconnect, Reset, TypeInv, ThreadInv
  <2>3. Quietly(p, Provider)
    BY <1>7, ProviderIsThread, RestStates DEF Reconnect, Reset, At, Quietly, TypeInv, ThreadInv
  <2> QED
    BY <1>0, <2>1, <2>2, <2>3, QuietStep
<1>8. ASSUME NEW p \in Peer, Restart(p) PROVE PeerOk(q)'
  <2>1. CASE q = p
    BY <1>8, <2>1, RestStates, ReadersOf
    DEF Restart, TypeInv, ThreadInv, PeerInv, CountInv, PeerOk, ReaderOk, FirstOk, AloneOk,
        ChangesOk, Untouched, Holders
  <2>2. CASE q # p
    BY <1>8, <1>s, <2>2 DEF Restart, TypeInv, ThreadInv, PeerInv, CountInv
  <2> QED
    BY <2>1, <2>2
<1>9. CASE UNCHANGED vars
  BY <1>9, <1>s DEF vars, procVars, histVars
<1> QED
  BY <1>1, <1>2, <1>3, <1>4, <1>5, <1>6, <1>7, <1>8, <1>9 DEF Next, FrameStep, ResetStep

(* How often a process sees the epoch of its peer change is bounded by the *)
(* restarts of the peer and the goroutines that read it, whatever frames of*)
(* old epochs they still hold, and however late the epoch of the very first*)
(* frame is stored: no peer tears down its smux session for ever           *)
(* (handleIncomingFrame in transport.go).                                  *)
THEOREM EpochChangesAreCaused == Spec => []ChangesAreCaused
<1>1. ChangesInv => ChangesAreCaused
  <2> SUFFICES ASSUME ChangesInv, NEW p \in Peer
               PROVE  changes[p] <= Others(p) + restarts[Other(p)] * (2 * Others(p) + 1)
    BY DEF ChangesAreCaused, Others
  <2> DEFINE r == restarts[Other(p)]
  <2>1. r \in Nat /\ r * PerRestart(p) \in Nat /\ changes[p] \in Nat
    BY ReadersOf, BoundIsNat DEF ChangesInv, EpochInv, TypeInv, CountInv
  <2>2. CASE Untouched(p)
    BY <2>1, <2>2, ReadersOf DEF Untouched
  <2>3. ASSUME NEW k \in 0 .. r, NewestIs(p, k)
        PROVE  changes[p] <= Others(p) + r * PerRestart(p)
    <3>0. k \in Nat
      BY <2>1
    <3>1. k * PerRestart(p) \in Nat /\ ForFirst(p) \in Nat /\ Others(p) \in Nat
          /\ ForFirst(p) <= Others(p) /\ PerRestart(p) \in Nat
      BY <3>0, ReadersOf, BoundIsNat
    <3>2. Cardinality(Stale(p, k)) \in Nat /\ Owed(p, k) \in Nat
      BY StaleIsFinite
    <3>3. changes[p] <= ForFirst(p) + k * PerRestart(p)
      BY <2>1, <2>3, <3>1, <3>2 DEF NewestIs
    <3>4. k * PerRestart(p) <= r * PerRestart(p)
      <4> HIDE DEF PerRestart, r
      <4> QED
        BY <2>1, <3>0, <3>1
    <3> QED
      BY <2>1, <3>1, <3>3, <3>4
  <2> QED
    BY <2>1, <2>2, <2>3, ReadersOf DEF ChangesInv, PeerOk, ChangesOk
<1> QED
  BY InitChangesInv, NextChangesInv, <1>1, PTL DEF Spec

-----------------------------------------------------------------------------
(* AckedIsHanded does not hold in general. It holds of what p sends as long*)
(* as no process restarts, the provider of p does not reconnect and one    *)
(* goroutine of p reads the remote tracks: p then has one KCP runtime, and *)
(* its n-th message is its segment n, which nothing acknowledges but the   *)
(* delivery of that message, whatever runtimes the other peer goes through.*)
Undisturbed(p) ==
  MaxReconnects[p] = 0 /\ Others(p) = 0 /\ \A q \in Peer : MaxRestarts[q] = 0
AckedOf(p) == kcp[p] # None =>
  \A sn \in runtimes[p][kcp[p]].acked : runtimes[p][kcp[p]].out[sn] \in handed[Other(p)]

(* What a frame acknowledges; a frame of p carries its n-th message under  *)
(* the number n, and one of its peer acknowledges what was handed, H, there*)
Told(f) == {i \in Nat \ {0} : i < f.una \/ (f.typ = "ack" /\ i = f.sn)}
Good(H, p, q, f) == IF q = p THEN f.typ = "seg" => f.msg = f.sn ELSE Told(f) \subseteq H[q]
Grows == \A q \in Peer : handed[q] \subseteq handed'[q]

NetGood(p) == \A q \in Peer : \A i \in 1 .. Len(net[q]) : Good(handed, p, q, net[q][i])
HeldOk(H, p, q, s) ==
  /\ s.pc \in {"first", "once", "deliver", "cas"} => s.frame.epoch # localEpoch[q]
  /\ s.frame.epoch \in {None, localEpoch[q], localEpoch[Other(q)]}
  /\ s.frame.epoch # localEpoch[q] => Good(H, p, Other(q), s.frame)
HeldGood(p) == \A q \in Peer, t \in Thread : HeldOk(handed, p, q, thread[q][t])

(* p never resets, and has one runtime at most; the number of its segments *)
(* is the number of messages sent.                                         *)
NeverResets(p) ==
  /\ peerEpoch[p] \in {None, localEpoch[Other(p)]}
  /\ \A t \in Thread : thread[p][t].pc \notin {"cas", "clear", "start"}
KcpOk(h, n, rt) ==
  /\ \A i \in 1 .. Len(rt.out) : rt.out[i] = i
  /\ rt.open => Len(rt.out) = n
  /\ rt.acked \subseteq h
OneRuntime(p) ==
  /\ Len(runtimes[p]) <= 1
  /\ ~kcpOnce[p] => runtimes[p] = <<>>
  /\ runtimes[p] = <<>> => sent[p] = 0
  /\ \A r \in 1 .. Len(runtimes[p]) : KcpOk(handed[Other(p)], sent[p], runtimes[p][r])

(* What a runtime of the other peer expects next has all before it handed. *)
FarGood(p) == \A r \in 1 .. Len(runtimes[Other(p)]) :
  \A i \in Nat \ {0} : i < runtimes[Other(p)][r].nxt => i \in handed[Other(p)]

Calm(p) == /\ reconnects \in [Peer -> Nat] /\ reconnects[p] = 0
           /\ \A q \in Peer : restarts[q] = 0
OneWay(p) ==
  /\ ChangesInv /\ Calm(p)
  /\ NetGood(p) /\ HeldGood(p) /\ NeverResets(p) /\ OneRuntime(p) /\ FarGood(p)

LEMMA GoodGrows ==
  ASSUME NEW p \in Peer, NEW q \in Peer, NEW f, Good(handed, p, q, f), Grows
  PROVE  Good(handed', p, q, f)
BY DEF Good, Grows

LEMMA NetGoodStays ==
  ASSUME NetInv, NEW p \in Peer, NetGood(p), Grows,
         \A q \in Peer : \/ net'[q] = net[q]
                         \/ net[q] # <<>> /\ net'[q] = Tail(net[q])
                         \/ \E f \in Frame : Good(handed', p, q, f) /\ net'[q] = Append(net[q], f)
  PROVE  NetGood(p)'
<1> SUFFICES ASSUME NEW q \in Peer, NEW i \in 1 .. Len(net'[q])
             PROVE  Good(handed', p, q, net'[q][i])
  BY DEF NetGood
<1>0. net[q] \in Seq(Frame) /\ Len(net[q]) \in Nat
  BY LenProperties DEF NetInv
<1>k. ASSUME NEW j \in 1 .. Len(net[q]) PROVE Good(handed', p, q, net[q][j])
  BY GoodGrows DEF NetGood
<1>1. CASE net'[q] = net[q]
  BY <1>1, <1>k
<1>2. CASE net[q] # <<>> /\ net'[q] = Tail(net[q])
  <2>1. i + 1 \in 1 .. Len(net[q]) /\ net'[q][i] = net[q][i + 1]
    BY <1>0, <1>2, HeadTailProperties
  <2> QED
    BY <1>k, <2>1
<1>3. ASSUME NEW f \in Frame, Good(handed', p, q, f), net'[q] = Append(net[q], f)
      PROVE  Good(handed', p, q, net'[q][i])
  <2>1. net'[q][i] = f \/ (i \in 1 .. Len(net[q]) /\ net'[q][i] = net[q][i])
    BY <1>0, <1>3, AppendProperties
  <2> QED
    BY <1>k, <1>3, <2>1
<1> QED
  BY <1>1, <1>2, <1>3

LEMMA HeldStays ==
  ASSUME NEW p \in Peer, HeldGood(p), Grows, localEpoch' = localEpoch,
         NEW r \in Peer, NEW t \in Thread, OnlyMoves(r, t),
         HeldOk(handed', p, r, thread'[r][t])
  PROVE  HeldGood(p)'
<1> SUFFICES ASSUME NEW q \in Peer, NEW u \in Thread
             PROVE  HeldOk(handed', p, q, thread'[q][u])
  BY DEF HeldGood, HeldOk
<1>1. CASE q = r /\ u = t
  BY <1>1
<1>2. CASE q # r \/ u # t
  <2>1. thread'[q][u] = thread[q][u] /\ HeldOk(handed, p, q, thread[q][u])
    BY <1>2 DEF OnlyMoves, HeldGood
  <2>2. Other(q) \in Peer
    BY ReadersOf
  <2> QED
    BY <2>1, <2>2, GoodGrows DEF HeldOk
<1> QED
  BY <1>1, <1>2

LEMMA HeldSame ==
  ASSUME NEW p \in Peer, HeldGood(p), Grows, UNCHANGED <<localEpoch, thread>>
  PROVE  HeldGood(p)'
<1> SUFFICES ASSUME NEW q \in Peer, NEW u \in Thread
             PROVE  HeldOk(handed', p, q, thread[q][u])
  BY DEF HeldGood, HeldOk
<1>1. HeldOk(handed, p, q, thread[q][u]) /\ Other(q) \in Peer
  BY ReadersOf DEF HeldGood
<1> QED
  BY <1>1, GoodGrows DEF HeldOk

(* A goroutine at rest holds nothing.                                      *)
LEMMA RestIsGood ==
  ASSUME NEW p \in Peer, NEW q \in Peer, NEW H, NEW s,
         s = AtRest \/ s = [AtRest EXCEPT !.pc = "clear"]
  PROVE  HeldOk(H, p, q, s)
<1>1. /\ s.frame = Nowhere /\ s.pc \in {"read", "clear"}
      /\ Nowhere.epoch = None /\ Nowhere.typ = "none" /\ Nowhere.una = 1
  BY DEF AtRest, Nowhere
<1>2. Told(Nowhere) = {}
  BY <1>1 DEF Told
<1> QED
  BY <1>1, <1>2 DEF HeldOk, Good

LEMMA NearSame ==
  ASSUME NEW p \in Peer, OneRuntime(p), Grows,
         runtimes'[p] = runtimes[p], kcpOnce'[p] = kcpOnce[p], sent'[p] = sent[p]
  PROVE  OneRuntime(p)'
<1>1. handed[Other(p)] \subseteq handed'[Other(p)]
  BY ReadersOf DEF Grows
<1> QED
  BY <1>1 DEF OneRuntime, KcpOk

LEMMA FarSame ==
  ASSUME NEW p \in Peer, FarGood(p), Grows,
         \A r \in 1 .. Len(runtimes'[Other(p)]) :
           \/ runtimes'[Other(p)][r].nxt = 1
           \/ /\ r \in 1 .. Len(runtimes[Other(p)])
              /\ runtimes'[Other(p)][r].nxt = runtimes[Other(p)][r].nxt
  PROVE  FarGood(p)'
<1>1. handed[Other(p)] \subseteq handed'[Other(p)]
  BY ReadersOf DEF Grows
<1> SUFFICES ASSUME NEW r \in 1 .. Len(runtimes'[Other(p)]), NEW i \in Nat \ {0},
                    i < runtimes'[Other(p)][r].nxt
             PROVE  i \in handed'[Other(p)]
  BY DEF FarGood
<1>2. runtimes'[Other(p)][r].nxt # 1
  OBVIOUS
<1> QED
  BY <1>1, <1>2 DEF FarGood

(* p takes one epoch only, so nothing makes it reset.                      *)
LEMMA OneWayCannot ==
  ASSUME NEW p \in Peer, Undisturbed(p), OneWay(p)
  PROVE  /\ \A q \in Peer : ~Restart(q)
         /\ ~Reconnect(p)
         /\ \A t \in Thread : ~CompareAndSwap(p, t) /\ ~ResetStep(p, t)
         /\ \A t \in Thread : HandleKnown(p, t) => Goto(p, t, "deliver")
<1>1. (\A q \in Peer : ~Restart(q)) /\ ~Reconnect(p)
  BY DEF Undisturbed, OneWay, Calm, Restart, Reconnect
<1>2. ASSUME NEW t \in Thread PROVE ~CompareAndSwap(p, t) /\ ~ResetStep(p, t)
  BY DEF OneWay, NeverResets, CompareAndSwap, ResetStep, ResetClear, ResetStart, At
<1>3. ASSUME NEW t \in Thread, HandleKnown(p, t) PROVE Goto(p, t, "deliver")
  <2> DEFINE e == thread[p][t].frame.epoch
  <2>1. thread[p][t].pc = "handle" /\ hadPeer[p] /\ e # localEpoch[p]
    BY <1>3 DEF HandleKnown, At, IsEcho
  <2>2. t \in Readers[p] /\ e # None
    BY <2>1 DEF OneWay, ChangesInv, PeerOk, ReaderOk
  <2>3. e = localEpoch[Other(p)]
    BY <2>1, <2>2 DEF OneWay, HeldGood, HeldOk
  <2>4. peerEpoch[p] # None
    <3> SUFFICES ASSUME peerEpoch[p] = None PROVE FALSE
      OBVIOUS
    <3>1. PICK u \in Readers[p] : thread[p][u].pc = "first"
      BY <2>1 DEF OneWay, ChangesInv, PeerOk, FirstOk
    <3>2. u = t
      BY <2>2, AloneReader DEF Undisturbed
    <3> QED
      BY <2>1, <3>1, <3>2
  <2>5. peerEpoch[p] = e
    BY <2>3, <2>4 DEF OneWay, NeverResets
  <2> QED
    BY <1>3, <2>5 DEF HandleKnown
<1> QED
  BY <1>1, <1>2, <1>3

LEMMA RuntimesBecome ==
  ASSUME RuntimeInv, NEW q \in Peer, NEW j \in 1 .. Len(runtimes[q]), NEW rt \in KcpRuntime,
         runtimes' = [runtimes EXCEPT ![q][j] = rt]
  PROVE  /\ \A r \in Peer : Len(runtimes'[r]) = Len(runtimes[r])
         /\ \A r \in Peer : \A i \in 1 .. Len(runtimes[r]) :
              runtimes'[r][i] = IF r = q /\ i = j THEN rt ELSE runtimes[r][i]
         /\ \A r \in Peer \ {q} : runtimes'[r] = runtimes[r]
<1> DEFINE new == [runtimes[q] EXCEPT ![j] = rt]
<1>1. Len(new) = Len(runtimes[q])
      /\ \A i \in 1 .. Len(runtimes[q]) : new[i] = IF i = j THEN rt ELSE runtimes[q][i]
  BY ExceptSeq DEF RuntimeInv
<1>2. runtimes' = [runtimes EXCEPT ![q] = new]
  OBVIOUS
<1> HIDE DEF new
<1>3. \A r \in Peer : runtimes'[r] = IF r = q THEN new ELSE runtimes[r]
  BY <1>2 DEF RuntimeInv
<1> QED
  BY <1>1, <1>3

LEMMA RuntimesGrow ==
  ASSUME RuntimeInv, NEW q \in Peer, StartKCP(q)
  PROVE  /\ Len(runtimes'[q]) = Len(runtimes[q]) + 1
         /\ \A i \in 1 .. Len(runtimes[q]) : runtimes'[q][i] = runtimes[q][i]
         /\ runtimes'[q][Len(runtimes[q]) + 1] = NewRuntime
         /\ \A r \in Peer \ {q} : runtimes'[r] = runtimes[r]
<1>1. runtimes'[q] = Append(runtimes[q], NewRuntime)
      /\ \A r \in Peer \ {q} : runtimes'[r] = runtimes[r]
  BY DEF StartKCP, RuntimeInv
<1>2. runtimes[q] \in Seq(KcpRuntime) /\ NewRuntime \in KcpRuntime
  BY NewRuntimeType DEF RuntimeInv
<1> QED
  BY <1>1, <1>2, AppendProperties

(* Closing the runtimes or starting one leaves what is known of them.      *)
LEMMA ClosedRuntimes ==
  ASSUME TypeInv, NEW q \in Peer, NEW p \in Peer, OneRuntime(p), FarGood(p), Grows,
         UNCHANGED <<kcpOnce, sent>>,
         runtimes' = IF kcp[q] = None THEN runtimes
                     ELSE [runtimes EXCEPT ![q][kcp[q]] = ClosedRuntime]
  PROVE  OneRuntime(p)' /\ FarGood(p)'
<1>1. CASE kcp[q] = None
  <2>1. runtimes' = runtimes
    BY <1>1
  <2>2. FarGood(p)'
    BY <2>1, FarSame
  <2> QED
    BY <2>1, <2>2, NearSame
<1>2. CASE kcp[q] # None
  <2>0. RuntimeInv /\ Other(p) \in Peer
    BY ReadersOf DEF TypeInv
  <2>1. kcp[q] \in 1 .. Len(runtimes[q])
    BY <1>2, <2>0, LenProperties DEF RuntimeInv, None
  <2>2. ClosedRuntime \in KcpRuntime
    BY NewRuntimeType
  <2>3. /\ \A r \in Peer : Len(runtimes'[r]) = Len(runtimes[r])
        /\ \A r \in Peer : \A i \in 1 .. Len(runtimes[r]) :
             runtimes'[r][i] = IF r = q /\ i = kcp[q] THEN ClosedRuntime ELSE runtimes[r][i]
        /\ \A r \in Peer \ {q} : runtimes'[r] = runtimes[r]
    BY <1>2, <2>0, <2>1, <2>2, RuntimesBecome
  <2>4. /\ ClosedRuntime.out = <<>> /\ ClosedRuntime.acked = {} /\ ClosedRuntime.nxt = 1
        /\ ClosedRuntime.open = FALSE
    BY DEF ClosedRuntime, NewRuntime
  <2>5. FarGood(p)'
    BY <2>0, <2>3, <2>4, FarSame
  <2>6. CASE q # p
    BY <2>3, <2>5, <2>6, NearSame
  <2>7. CASE q = p
    <3>1. handed[Other(p)] \subseteq handed'[Other(p)]
      BY <2>0 DEF Grows
    <3>2. ASSUME NEW i \in 1 .. Len(runtimes'[p])
          PROVE  KcpOk(handed'[Other(p)], sent'[p], runtimes'[p][i])
      <4>1. CASE i = kcp[p]
        BY <2>3, <2>4, <2>7, <4>1 DEF KcpOk
      <4>2. CASE i # kcp[p]
        BY <2>3, <2>7, <3>1, <4>2 DEF KcpOk, OneRuntime
      <4> QED
        BY <4>1, <4>2
    <3>3. runtimes[p] # <<>> /\ runtimes'[p] # <<>>
      BY <2>1, <2>3, <2>7, LenProperties
    <3> QED
      BY <2>3, <2>5, <3>2, <3>3 DEF OneRuntime
  <2> QED
    BY <2>6, <2>7
<1> QED
  BY <1>1, <1>2

LEMMA StartedRuntimes ==
  ASSUME TypeInv, NEW q \in Peer, NEW p \in Peer, OneRuntime(p), FarGood(p), Grows,
         StartKCP(q), UNCHANGED sent, q # p => kcpOnce'[p] = kcpOnce[p],
         q = p => ~kcpOnce[p] /\ kcpOnce'[p]
  PROVE  OneRuntime(p)' /\ FarGood(p)'
<1>0. /\ Len(runtimes'[q]) = Len(runtimes[q]) + 1
      /\ \A i \in 1 .. Len(runtimes[q]) : runtimes'[q][i] = runtimes[q][i]
      /\ runtimes'[q][Len(runtimes[q]) + 1] = NewRuntime
      /\ \A r \in Peer \ {q} : runtimes'[r] = runtimes[r]
      /\ Len(runtimes[q]) \in Nat /\ Other(p) \in Peer
  BY RuntimesGrow, ReadersOf, LenProperties DEF TypeInv, RuntimeInv
<1>1. NewRuntime.out = <<>> /\ NewRuntime.acked = {} /\ NewRuntime.nxt = 1
  BY DEF NewRuntime
<1>2. FarGood(p)'
  <2>1. ASSUME NEW r \in 1 .. Len(runtimes'[Other(p)])
        PROVE  \/ runtimes'[Other(p)][r].nxt = 1
               \/ /\ r \in 1 .. Len(runtimes[Other(p)])
                  /\ runtimes'[Other(p)][r].nxt = runtimes[Other(p)][r].nxt
    BY <1>0, <1>1
  <2> QED
    BY <2>1, FarSame
<1>3. CASE q # p
  BY <1>0, <1>2, <1>3, NearSame
<1>4. CASE q = p
  <2>1. runtimes[p] = <<>> /\ sent'[p] = 0
    BY <1>4 DEF OneRuntime
  <2>2. Len(runtimes'[p]) = 1 /\ runtimes'[p][1] = NewRuntime
    BY <1>0, <1>4, <2>1
  <2>3. KcpOk(handed'[Other(p)], 0, NewRuntime)
    BY <1>1 DEF KcpOk
  <2>4. runtimes'[p] # <<>>
    BY <2>2
  <2> QED
    BY <1>2, <1>4, <2>1, <2>2, <2>3, <2>4 DEF OneRuntime
<1> QED
  BY <1>3, <1>4

LEMMA NeverResetsStays ==
  ASSUME NEW p \in Peer, NeverResets(p), UNCHANGED localEpoch,
         NEW r \in Peer, NEW t \in Thread, OnlyMoves(r, t),
         r = p => /\ thread'[p][t].pc \notin {"cas", "clear", "start"}
                  /\ peerEpoch'[p] \in {None, localEpoch[Other(p)]},
         r # p => peerEpoch'[p] = peerEpoch[p]
  PROVE  NeverResets(p)'
<1>1. \A u \in Thread : r # p \/ u # t => thread'[p][u] = thread[p][u]
  BY DEF OnlyMoves
<1> QED
  BY <1>1 DEF NeverResets

OneWayParts(p) == NetGood(p) /\ HeldGood(p) /\ NeverResets(p) /\ OneRuntime(p) /\ FarGood(p)

(* A message gets the next number of the one runtime.                      *)
LEMMA SendOneWay ==
  ASSUME NEW p \in Peer, OneWay(p), NEW q \in Peer, Send(q)
  PROVE  OneWayParts(p)'
<1>0. /\ TypeInv /\ RuntimeInv /\ Grows /\ sent \in [Peer -> Nat] /\ Other(p) \in Peer
      /\ NetGood(p) /\ HeldGood(p) /\ NeverResets(p) /\ OneRuntime(p) /\ FarGood(p)
  BY ReadersOf DEF OneWay, ChangesInv, TypeInv, CountInv, Grows, Send, histVars
<1> DEFINE old == runtimes[q][kcp[q]]
           rt == [old EXCEPT !.out = Append(@, sent[q] + 1)]
<1>1. /\ kcp[q] # None /\ old.open /\ sent' = [sent EXCEPT ![q] = @ + 1]
      /\ runtimes' = [runtimes EXCEPT ![q][kcp[q]] = rt]
      /\ UNCHANGED <<localEpoch, peerEpoch, kcpOnce, kcp, thread, net, handed>>
  BY DEF Send, histVars
<1>2. kcp[q] \in 1 .. Len(runtimes[q]) /\ Len(runtimes[q]) \in Nat
  BY <1>0, <1>1, LenProperties DEF RuntimeInv, None
<1>3. old \in KcpRuntime /\ old.out \in Seq(Nat) /\ sent[q] + 1 \in Nat
  <2>1. runtimes[q] \in Seq(KcpRuntime)
    BY <1>0 DEF RuntimeInv
  <2>2. old \in KcpRuntime
    BY <1>2, <2>1, ElementOfSeq
  <2>3. old.out \in Seq(Nat)
    BY <2>2 DEF KcpRuntime
  <2>4. sent[q] + 1 \in Nat
    BY <1>0
  <2> QED
    BY <2>2, <2>3, <2>4
<1> HIDE DEF old
<1>4. /\ Append(old.out, sent[q] + 1) \in Seq(Nat)
      /\ Len(Append(old.out, sent[q] + 1)) = Len(old.out) + 1
      /\ \A i \in 1 .. Len(old.out) : Append(old.out, sent[q] + 1)[i] = old.out[i]
      /\ Append(old.out, sent[q] + 1)[Len(old.out) + 1] = sent[q] + 1
      /\ Len(old.out) \in Nat
  BY <1>3, AppendProperties, LenProperties
<1>5. /\ rt \in KcpRuntime /\ rt.out = Append(old.out, sent[q] + 1)
      /\ rt.open = old.open /\ rt.acked = old.acked /\ rt.nxt = old.nxt
  BY <1>3, <1>4 DEF KcpRuntime
<1>10. runtimes' = [runtimes EXCEPT ![q][kcp[q]] = rt]
  BY <1>1
<1> HIDE DEF rt
<1>6. /\ \A r \in Peer : Len(runtimes'[r]) = Len(runtimes[r])
      /\ \A r \in Peer : \A i \in 1 .. Len(runtimes[r]) :
           runtimes'[r][i] = IF r = q /\ i = kcp[q] THEN rt ELSE runtimes[r][i]
      /\ \A r \in Peer \ {q} : runtimes'[r] = runtimes[r]
  BY <1>0, <1>2, <1>5, <1>10, RuntimesBecome
<1>7. NetGood(p)' /\ HeldGood(p)' /\ NeverResets(p)'
  <2>1. NetGood(p)'
    BY <1>0, <1>1, NetGoodStays DEF TypeInv
  <2>2. HeldGood(p)'
    BY <1>0, <1>1, HeldSame
  <2>3. NeverResets(p)'
    BY <1>0, <1>1 DEF NeverResets
  <2> QED
    BY <2>1, <2>2, <2>3
<1>8. FarGood(p)'
  <2>1. ASSUME NEW r \in 1 .. Len(runtimes'[Other(p)])
        PROVE  /\ r \in 1 .. Len(runtimes[Other(p)])
               /\ runtimes'[Other(p)][r].nxt = runtimes[Other(p)][r].nxt
    <3>1. r \in 1 .. Len(runtimes[Other(p)])
      BY <1>0, <1>6
    <3>2. CASE Other(p) = q /\ r = kcp[q]
      <4>1. runtimes'[Other(p)][r] = rt /\ runtimes[Other(p)][r] = old
        BY <1>0, <1>6, <3>1, <3>2 DEF old
      <4> QED
        BY <1>5, <3>1, <4>1
    <3>3. CASE ~(Other(p) = q /\ r = kcp[q])
      BY <1>0, <1>6, <3>1, <3>3
    <3> QED
      BY <3>2, <3>3
  <2> QED
    BY <1>0, <2>1, FarSame
<1>9. OneRuntime(p)'
  <2>1. CASE q # p
    BY <1>0, <1>1, <1>6, <2>1, NearSame
  <2>2. CASE q = p
    <3>a. Len(runtimes[p]) <= 1
      BY <1>0 DEF OneRuntime
    <3>b. kcp[p] \in 1 .. Len(runtimes[p]) /\ Len(runtimes[p]) \in Nat
      BY <1>2, <2>2
    <3>0. kcp[p] = 1 /\ Len(runtimes[p]) = 1
      <4>1. \A k, n \in Nat : k \in 1 .. n /\ n <= 1 => k = 1 /\ n = 1
        OBVIOUS
      <4>2. kcp[p] \in Nat
        BY <3>b
      <4> QED
        BY <3>a, <3>b, <4>1, <4>2
    <3>1. kcp[p] = 1 /\ Len(runtimes[p]) = 1 /\ KcpOk(handed[Other(p)], sent[p], old)
      BY <1>0, <2>2, <3>0 DEF OneRuntime, old
    <3>2. sent'[p] = sent[p] + 1 /\ Len(old.out) = sent[p] /\ sent[p] \in Nat
      BY <1>0, <1>1, <2>2, <3>1 DEF KcpOk
    <3>3. \A i \in 1 .. Len(rt.out) : rt.out[i] = i
      <4> SUFFICES ASSUME NEW i \in 1 .. Len(old.out) + 1 PROVE rt.out[i] = i
        BY <1>4, <1>5
      <4>1. CASE i = Len(old.out) + 1
        BY <1>4, <1>5, <2>2, <3>2, <4>1
      <4>2. CASE i \in 1 .. Len(old.out)
        BY <1>4, <1>5, <3>1, <4>2 DEF KcpOk
      <4> QED
        BY <1>4, <4>1, <4>2
    <3>4. KcpOk(handed'[Other(p)], sent'[p], rt)
      BY <1>1, <1>4, <1>5, <3>1, <3>2, <3>3 DEF KcpOk
    <3>5. Len(runtimes'[p]) = 1 /\ runtimes'[p][1] = rt
      BY <1>6, <2>2, <3>1
    <3>6. runtimes[p] # <<>> /\ runtimes'[p] # <<>>
      BY <3>1, <3>5
    <3>7. kcpOnce'[p] = kcpOnce[p]
      BY <1>1
    <3> QED
      BY <1>0, <3>4, <3>5, <3>6, <3>7 DEF OneRuntime
  <2> QED
    BY <2>1, <2>2
<1> QED
  BY <1>7, <1>8, <1>9 DEF OneWayParts

(* What p writes is numbered by its messages, what its peer writes         *)
(* acknowledges what that runtime was handed.                              *)
LEMMA WriteOneWay ==
  ASSUME NEW p \in Peer, OneWay(p), NEW q \in Peer,
         WriteKeepalive(q) \/ \E r \in 1 .. Len(runtimes[q]) : Transmit(q, r)
  PROVE  OneWayParts(p)'
<1>0. /\ TypeInv /\ Other(p) \in Peer
      /\ NetGood(p) /\ HeldGood(p) /\ NeverResets(p) /\ OneRuntime(p) /\ FarGood(p)
  BY ReadersOf DEF OneWay, ChangesInv
<1>1. UNCHANGED <<procVars, boundVars, histVars>>
  BY DEF WriteKeepalive, Transmit
<1>2. Grows /\ UNCHANGED <<runtimes, kcpOnce, sent, localEpoch, peerEpoch, thread, handed>>
  BY <1>1 DEF Grows, procVars, boundVars, histVars
<1>3. \E f \in Frame : Good(handed', p, q, f) /\ net' = [net EXCEPT ![q] = Append(@, f)]
  <2>1. CASE WriteKeepalive(q)
    <3>1. /\ Keepalive(q) \in Frame /\ Keepalive(q).typ = "keepalive" /\ Keepalive(q).una = 1
      BY <1>0 DEF Keepalive, Nowhere, Frame, TypeInv, PeerInv, None
    <3>2. Told(Keepalive(q)) = {}
      BY <3>1 DEF Told
    <3> QED
      BY <2>1, <3>1, <3>2 DEF WriteKeepalive, Good
  <2>2. ASSUME NEW r \in 1 .. Len(runtimes[q]), Transmit(q, r)
        PROVE  \E f \in Frame : Good(handed', p, q, f) /\ net' = [net EXCEPT ![q] = Append(@, f)]
    <3>1. PICK sn \in (1 .. Len(runtimes[q][r].out)) \ runtimes[q][r].acked :
            net' = [net EXCEPT ![q] =
              Append(@, [typ |-> "seg", epoch |-> localEpoch[q], sn |-> sn,
                         msg |-> runtimes[q][r].out[sn], una |-> runtimes[q][r].nxt])]
      BY <2>2 DEF Transmit
    <3> DEFINE f == [typ |-> "seg", epoch |-> localEpoch[q], sn |-> sn,
                     msg |-> runtimes[q][r].out[sn], una |-> runtimes[q][r].nxt]
    <3>2. runtimes[q][r] \in KcpRuntime
      BY <1>0, ElementOfSeq DEF TypeInv, RuntimeInv
    <3>3. runtimes[q][r].out \in Seq(Nat) /\ runtimes[q][r].nxt \in Nat
      BY <3>2 DEF KcpRuntime
    <3>4. sn \in 1 .. Len(runtimes[q][r].out) /\ sn \in Nat
      BY <3>3, LenProperties
    <3>5. runtimes[q][r].out[sn] \in Nat
      BY <3>3, <3>4, ElementOfSeq
    <3>6. f \in Frame
      BY <1>0, <3>3, <3>4, <3>5 DEF Frame, TypeInv, PeerInv
    <3>7. Good(handed', p, q, f)
      <4>1. CASE q = p
        <5>1. runtimes[q][r].out[sn] = sn
          BY <1>0, <3>4, <4>1 DEF OneRuntime, KcpOk
        <5> QED
          BY <4>1, <5>1 DEF Good
      <4>2. CASE q # p
        <5>1. q = Other(p)
          BY <4>2 DEF Other, Peer
        <5>2. Told(f) \subseteq handed[q]
          BY <1>0, <5>1 DEF Told, FarGood
        <5> QED
          BY <1>2, <4>2, <5>2 DEF Good
      <4> QED
        BY <4>1, <4>2
    <3> HIDE DEF f
    <3> QED
      BY <3>1, <3>6, <3>7 DEF f
  <2> QED
    BY <2>1, <2>2
<1>4. NetGood(p)'
  <2>1. PICK f \in Frame : Good(handed', p, q, f) /\ net' = [net EXCEPT ![q] = Append(@, f)]
    BY <1>3
  <2>2. \A r \in Peer : net'[r] = IF r = q THEN Append(net[q], f) ELSE net[r]
    BY <1>0, <2>1 DEF TypeInv, NetInv
  <2> QED
    BY <1>0, <1>2, <2>1, <2>2, NetGoodStays DEF TypeInv
<1>5. HeldGood(p)' /\ OneRuntime(p)' /\ FarGood(p)'
  BY <1>0, <1>2, HeldSame, NearSame, FarSame
<1>6. NeverResets(p)'
  BY <1>0, <1>2 DEF NeverResets
<1> QED
  BY <1>4, <1>5, <1>6 DEF OneWayParts


(* Steps that leave the runtimes, the frames in flight and what was handed.*)
LEMMA RuntimesKept ==
  ASSUME NEW p \in Peer, OneWay(p), UNCHANGED <<kcpOnce, runtimes, sent, handed>>
  PROVE  Grows /\ OneRuntime(p)' /\ FarGood(p)' /\ (net' = net => NetGood(p)')
<1>0. NetInv /\ NetGood(p) /\ OneRuntime(p) /\ FarGood(p) /\ Other(p) \in Peer
  BY ReadersOf DEF OneWay, ChangesInv, TypeInv
<1>1. Grows
  BY DEF Grows
<1>2. net' = net => NetGood(p)'
  BY <1>0, <1>1, NetGoodStays
<1> QED
  BY <1>0, <1>1, <1>2, NearSame, FarSame

LEMMA HeldMoves ==
  ASSUME NEW p \in Peer, HeldGood(p), Grows, localEpoch' = localEpoch,
         NEW r \in Peer, NEW t \in Thread, OnlyMoves(r, t),
         thread'[r][t].frame = thread[r][t].frame,
         thread[r][t].frame.epoch # localEpoch[r]
  PROVE  HeldGood(p)'
<1>1. HeldOk(handed, p, r, thread[r][t]) /\ Other(r) \in Peer
  BY ReadersOf DEF HeldGood
<1>2. HeldOk(handed', p, r, thread'[r][t])
  BY <1>1, GoodGrows DEF HeldOk
<1> QED
  BY <1>2, HeldStays

(* A goroutine takes a frame of the other peer, which acknowledges what was*)
(* handed or is numbered as it should, or one of its own, which it drops.  *)
LEMMA TakeOneWay ==
  ASSUME NEW p \in Peer, OneWay(p), NEW q \in Peer, NEW t \in Thread,
         Take(q, t) \/ Echo(q, t)
  PROVE  OneWayParts(p)'
<1> DEFINE o == Other(q)
<1>0. /\ TypeInv /\ ThreadInv /\ NetInv /\ EpochInv /\ Calm(p) /\ o \in Peer
      /\ NetGood(p) /\ HeldGood(p) /\ NeverResets(p)
  BY ReadersOf DEF OneWay, ChangesInv, TypeInv
<1>1. /\ OnlyMoves(q, t)
      /\ UNCHANGED <<kcpOnce, runtimes, sent, handed, localEpoch, peerEpoch>>
  BY <1>0, StepMoves DEF Take, Echo, histVars, boundVars
<1>2. Grows /\ OneRuntime(p)' /\ FarGood(p)'
  BY <1>1, RuntimesKept
<1>3. NetGood(p)'
  <2>1. CASE Take(q, t)
    <3>1. net[o] # <<>> /\ net' = [net EXCEPT ![o] = Tail(@)]
      BY <2>1 DEF Take
    <3>2. \A r \in Peer : \/ net'[r] = net[r]
                          \/ net[r] # <<>> /\ net'[r] = Tail(net[r])
      BY <1>0, <3>1 DEF NetInv
    <3> HIDE DEF o
    <3> QED
      BY <1>0, <1>2, <3>2, NetGoodStays
  <2>2. CASE Echo(q, t)
    <3>1. net' = net
      BY <2>2 DEF Echo
    <3> QED
      BY <1>1, <3>1, RuntimesKept
  <2> QED
    BY <2>1, <2>2
<1>4. \E r \in Peer : /\ thread' = [thread EXCEPT ![q][t] =
                           [pc |-> "handle", frame |-> Head(net[r]), prev |-> None]]
                      /\ net[r] # <<>>
                      /\ r = q \/ r = o
                      /\ r = q => Head(net[r]).epoch = localEpoch[q]
  BY <1>0, ReadersOf DEF Take, Echo
<1>5. PICK r \in Peer : /\ thread' = [thread EXCEPT ![q][t] =
                             [pc |-> "handle", frame |-> Head(net[r]), prev |-> None]]
                        /\ net[r] # <<>>
                        /\ r = q \/ r = o
                        /\ r = q => Head(net[r]).epoch = localEpoch[q]
  BY <1>4
<1>6. thread'[q][t] = [pc |-> "handle", frame |-> Head(net[r]), prev |-> None]
  BY <1>0, <1>5 DEF ThreadInv
<1>7. 1 \in 1 .. Len(net[r]) /\ Head(net[r]) = net[r][1]
  BY <1>0, <1>5, HeadTailProperties, EmptySeq, LenProperties DEF NetInv
<1>8. Head(net[r]).epoch = localEpoch[r]
  <2>1. restarts[r] = 0 /\ localEpoch[r] = Epoch(r, restarts[r])
    BY <1>0 DEF Calm, EpochInv
  <2>2. PICK k \in 0 .. restarts[r] : net[r][1].epoch = Epoch(r, k)
    BY <1>0, <1>7 DEF EpochInv
  <2>3. k = 0
    BY <2>1
  <2> QED
    BY <1>7, <2>1, <2>2, <2>3
<1>9. HeldOk(handed', p, q, thread'[q][t])
  <2>1. Good(handed', p, r, Head(net[r]))
    BY <1>0, <1>2, <1>7, GoodGrows DEF NetGood
  <2>2. thread'[q][t].pc = "handle" /\ thread'[q][t].frame = Head(net[r])
    BY <1>6
  <2> QED
    BY <1>5, <1>8, <2>1, <2>2 DEF HeldOk
<1>10. HeldGood(p)'
  BY <1>0, <1>1, <1>2, <1>9, HeldStays
<1>11. NeverResets(p)'
  <2>1. thread'[q][t].pc = "handle" /\ peerEpoch' = peerEpoch
    BY <1>1, <1>6
  <2>2. peerEpoch[p] \in {None, localEpoch[Other(p)]}
    BY <1>0 DEF NeverResets
  <2> QED
    BY <1>0, <1>1, <2>1, <2>2, NeverResetsStays
<1> QED
  BY <1>2, <1>3, <1>10, <1>11 DEF OneWayParts


(* What a goroutine does with the epoch of a frame of the other peer: it   *)
(* goes on with the frame, or drops it.                                    *)
LEMMA EpochOneWay ==
  ASSUME NEW p \in Peer, Undisturbed(p), OneWay(p), NEW q \in Peer, NEW t \in Thread,
         \/ HandleEcho(q, t) \/ HandleFirst(q, t) \/ HandleKnown(q, t) \/ StorePeer(q, t)
         \/ Skip(q, t) \/ CompareAndSwap(q, t)
  PROVE  OneWayParts(p)'
<1>0. /\ ThreadInv /\ EpochInv /\ Other(p) \in Peer /\ ReaderOk(q)
      /\ PeerInv /\ HeldGood(p) /\ NeverResets(p)
  BY ReadersOf DEF OneWay, ChangesInv, TypeInv, PeerOk
<1>1. /\ OnlyMoves(q, t)
      /\ UNCHANGED <<kcpOnce, runtimes, net, sent, handed, localEpoch>>
  BY <1>0, StepMoves DEF FrameStep, HandleEcho, HandleFirst, HandleKnown, StorePeer, Skip,
     CompareAndSwap, histVars, boundVars
<1>2. Grows /\ OneRuntime(p)' /\ FarGood(p)' /\ NetGood(p)'
  BY <1>1, RuntimesKept
<1>3. ASSUME NEW at \in {"first", "deliver", "once", "cas"}, thread'[q][t].pc = at,
             thread'[q][t].frame = thread[q][t].frame,
             thread[q][t].frame.epoch # localEpoch[q],
             q = p => at # "cas",
             \/ peerEpoch' = peerEpoch
             \/ thread[q][t].frame.epoch # None
                /\ peerEpoch' = [peerEpoch EXCEPT ![q] = thread[q][t].frame.epoch]
      PROVE  HeldGood(p)' /\ NeverResets(p)'
  <2>1. HeldGood(p)'
    BY <1>0, <1>1, <1>2, <1>3, HeldMoves
  <2>2. HeldOk(handed, p, q, thread[q][t])
    BY <1>0 DEF HeldGood
  <2>3. q = p => peerEpoch'[p] \in {None, localEpoch[Other(p)]}
    BY <1>0, <1>3, <2>2 DEF HeldOk, NeverResets, PeerInv
  <2>4. q # p => peerEpoch'[p] = peerEpoch[p]
    BY <1>0, <1>3 DEF PeerInv
  <2> QED
    BY <1>0, <1>1, <1>3, <2>1, <2>3, <2>4, NeverResetsStays
<1>4. ASSUME Rest(q, t) \/ (q # p /\ Reset(q, t)), q = p => peerEpoch' = peerEpoch,
             q # p => peerEpoch'[p] = peerEpoch[p]
      PROVE  HeldGood(p)' /\ NeverResets(p)'
  <2>1. thread'[q][t] = AtRest \/ (q # p /\ thread'[q][t] = [AtRest EXCEPT !.pc = "clear"])
    BY <1>0, <1>4 DEF Rest, Reset, ThreadInv
  <2>2. HeldOk(handed', p, q, thread'[q][t])
    BY <2>1, RestIsGood
  <2>3. HeldGood(p)'
    BY <1>0, <1>1, <1>2, <2>2, HeldStays
  <2>4. q = p => thread'[p][t].pc = "read" /\ peerEpoch'[p] = peerEpoch[p]
    BY <1>4, <2>1 DEF AtRest
  <2>5. peerEpoch[p] \in {None, localEpoch[Other(p)]}
    BY <1>0 DEF NeverResets
  <2> QED
    BY <1>0, <1>1, <1>4, <2>3, <2>4, <2>5, NeverResetsStays
<1>5. ASSUME NEW at \in {"first", "deliver", "once", "cas"}, Goto(q, t, at)
      PROVE  thread'[q][t].pc = at /\ thread'[q][t].frame = thread[q][t].frame
  BY <1>0, <1>5 DEF Goto, ThreadInv, ThreadState
<1>6. CASE HandleEcho(q, t) \/ Skip(q, t)
  <2>1. Rest(q, t) /\ peerEpoch' = peerEpoch
    BY <1>6 DEF HandleEcho, Skip
  <2> QED
    BY <1>2, <1>4, <2>1 DEF OneWayParts
<1>7. CASE HandleFirst(q, t)
  <2>1. Goto(q, t, "first") /\ peerEpoch' = peerEpoch /\ thread[q][t].frame.epoch # localEpoch[q]
    BY <1>7 DEF HandleFirst, IsEcho
  <2> QED
    BY <1>2, <1>3, <1>5, <2>1 DEF OneWayParts
<1>8. CASE HandleKnown(q, t)
  <2>1. peerEpoch' = peerEpoch /\ thread[q][t].frame.epoch # localEpoch[q]
    BY <1>8 DEF HandleKnown, IsEcho
  <2>2. CASE Goto(q, t, "deliver")
    BY <1>2, <1>3, <1>5, <2>1, <2>2 DEF OneWayParts
  <2>3. CASE ~Goto(q, t, "deliver")
    <3>1. q # p
      BY <1>8, <2>3, OneWayCannot
    <3>2. thread' = [thread EXCEPT ![q][t] =
                       [thread[q][t] EXCEPT !.pc = "cas", !.prev = peerEpoch[q]]]
      BY <1>0, <1>8, <2>3 DEF HandleKnown, ThreadInv
    <3>3. thread'[q][t].pc = "cas" /\ thread'[q][t].frame = thread[q][t].frame
      BY <1>0, <3>2 DEF ThreadInv, ThreadState
    <3> QED
      BY <1>2, <1>3, <2>1, <3>1, <3>3 DEF OneWayParts
  <2> QED
    BY <2>2, <2>3
<1>9. CASE StorePeer(q, t)
  <2>1. /\ Goto(q, t, "once") /\ thread[q][t].pc = "first"
        /\ peerEpoch' = [peerEpoch EXCEPT ![q] = thread[q][t].frame.epoch]
    BY <1>9 DEF StorePeer, At
  <2>2. thread[q][t].frame.epoch # localEpoch[q] /\ thread[q][t].frame.epoch # None
    BY <1>0, <2>1 DEF ReaderOk
  <2> QED
    BY <1>2, <1>3, <1>5, <2>1, <2>2 DEF OneWayParts
<1>10. CASE CompareAndSwap(q, t)
  <2>1. q # p
    BY <1>10, OneWayCannot
  <2>2. Rest(q, t) \/ Reset(q, t)
    BY <1>10 DEF CompareAndSwap
  <2>3. peerEpoch'[p] = peerEpoch[p]
    BY <1>0, <1>10, <2>1 DEF CompareAndSwap, PeerInv
  <2> QED
    BY <1>2, <1>4, <2>1, <2>2, <2>3 DEF OneWayParts
<1> QED
  BY <1>6, <1>7, <1>8, <1>9, <1>10

(* The first runtime of a peer, and the resets of the other one.           *)
LEMMA ResetOneWay ==
  ASSUME NEW p \in Peer, Undisturbed(p), OneWay(p), NEW q \in Peer, NEW t \in Thread,
         StartOnce(q, t) \/ ResetStep(q, t)
  PROVE  OneWayParts(p)'
<1>0. /\ TypeInv /\ ThreadInv /\ NetInv /\ PeerInv /\ Other(p) \in Peer /\ NetGood(p)
      /\ HeldGood(p) /\ NeverResets(p) /\ OneRuntime(p) /\ FarGood(p)
  BY ReadersOf DEF OneWay, ChangesInv, TypeInv
<1>1. /\ OnlyMoves(q, t)
      /\ UNCHANGED <<net, sent, handed, localEpoch, peerEpoch>>
  BY <1>0, StepMoves DEF FrameStep, ResetStep, ResetClear, ResetStart, StartOnce, histVars,
     boundVars
<1>2. Grows /\ NetGood(p)'
  <2>1. Grows
    BY <1>1 DEF Grows
  <2> QED
    BY <1>0, <1>1, <2>1, NetGoodStays
<1>3. peerEpoch[p] \in {None, localEpoch[Other(p)]} /\ peerEpoch'[p] = peerEpoch[p]
  BY <1>0, <1>1 DEF NeverResets
<1>4. CASE StartOnce(q, t)
  <2>1. /\ thread[q][t].pc = "once" /\ Goto(q, t, "deliver")
        /\ kcpOnce' = [kcpOnce EXCEPT ![q] = TRUE]
        /\ IF kcpOnce[q] THEN runtimes' = runtimes ELSE StartKCP(q)
    BY <1>4 DEF StartOnce, At
  <2>2. thread'[q][t].pc = "deliver" /\ thread'[q][t].frame = thread[q][t].frame
    BY <1>0, <2>1 DEF Goto, ThreadInv, ThreadState
  <2>3. HeldGood(p)'
    <3>1. HeldOk(handed, p, q, thread[q][t])
      BY <1>0 DEF HeldGood
    <3>2. thread[q][t].frame.epoch # localEpoch[q]
      BY <2>1, <3>1 DEF HeldOk
    <3> QED
      BY <1>0, <1>1, <1>2, <2>2, <3>2, HeldMoves
  <2>4. NeverResets(p)'
    BY <1>0, <1>1, <1>3, <2>2, NeverResetsStays
  <2>5. OneRuntime(p)' /\ FarGood(p)'
    <3>1. CASE kcpOnce[q]
      <4>1. kcpOnce'[p] = kcpOnce[p] /\ runtimes' = runtimes
        BY <1>0, <2>1, <3>1 DEF PeerInv
      <4> QED
        BY <1>0, <1>1, <1>2, <4>1, NearSame, FarSame
    <3>2. CASE ~kcpOnce[q]
      <4>1. /\ StartKCP(q) /\ (q # p => kcpOnce'[p] = kcpOnce[p])
            /\ (q = p => ~kcpOnce[p] /\ kcpOnce'[p])
        BY <1>0, <2>1, <3>2 DEF PeerInv
      <4> QED
        BY <1>0, <1>1, <1>2, <4>1, StartedRuntimes
    <3> QED
      BY <3>1, <3>2
  <2> QED
    BY <1>2, <2>3, <2>4, <2>5 DEF OneWayParts
<1>5. CASE ResetClear(q, t)
  <2>0. q # p
    BY <1>5, OneWayCannot DEF ResetStep
  <2>1. /\ thread[q][t].pc = "clear" /\ Goto(q, t, "start") /\ kcpOnce' = kcpOnce
        /\ runtimes' = IF kcp[q] = None THEN runtimes
                       ELSE [runtimes EXCEPT ![q][kcp[q]] = ClosedRuntime]
    BY <1>5 DEF ResetClear, At
  <2>2. thread'[q][t] = [thread[q][t] EXCEPT !.pc = "start"]
    BY <1>0, <2>1 DEF Goto, ThreadInv
  <2>3. thread'[q][t].pc = "start" /\ thread'[q][t].frame = thread[q][t].frame
    BY <1>0, <2>2 DEF ThreadInv, ThreadState
  <2>4. HeldGood(p)'
    <3>1. HeldOk(handed, p, q, thread[q][t]) /\ Other(q) \in Peer
      BY <1>0, ReadersOf DEF HeldGood
    <3>2. HeldOk(handed', p, q, thread'[q][t])
      BY <1>2, <2>3, <3>1, GoodGrows DEF HeldOk
    <3> QED
      BY <1>0, <1>1, <1>2, <3>2, HeldStays
  <2>5. NeverResets(p)'
    BY <1>0, <1>1, <1>3, <2>0, NeverResetsStays
  <2>6. OneRuntime(p)' /\ FarGood(p)'
    BY <1>0, <1>1, <1>2, <2>1, ClosedRuntimes
  <2> QED
    BY <1>2, <2>4, <2>5, <2>6 DEF OneWayParts
<1>6. CASE ResetStart(q, t)
  <2>0. q # p
    BY <1>6, OneWayCannot DEF ResetStep
  <2>1. StartKCP(q) /\ Rest(q, t) /\ kcpOnce' = kcpOnce
    BY <1>6 DEF ResetStart
  <2>2. thread'[q][t] = AtRest
    BY <1>0, <2>1 DEF Rest, ThreadInv
  <2>3. HeldGood(p)'
    <3>1. HeldOk(handed', p, q, thread'[q][t])
      BY <2>2, RestIsGood
    <3> QED
      BY <1>0, <1>1, <1>2, <3>1, HeldStays
  <2>4. NeverResets(p)'
    BY <1>0, <1>1, <1>3, <2>0, NeverResetsStays
  <2>5. OneRuntime(p)' /\ FarGood(p)'
    BY <1>0, <1>1, <1>2, <2>0, <2>1, StartedRuntimes
  <2> QED
    BY <1>2, <2>3, <2>4, <2>5 DEF OneWayParts
<1> QED
  BY <1>4, <1>5, <1>6 DEF ResetStep

(* The provider of the other peer reconnects; a peer closes.               *)
LEMMA CloseOneWay ==
  ASSUME NEW p \in Peer, Undisturbed(p), OneWay(p), NEW q \in Peer, Reconnect(q) \/ Close(q)
  PROVE  OneWayParts(p)'
<1>0. /\ TypeInv /\ ThreadInv /\ NetInv /\ Other(p) \in Peer /\ NetGood(p)
      /\ HeldGood(p) /\ NeverResets(p) /\ OneRuntime(p) /\ FarGood(p)
  BY ReadersOf DEF OneWay, ChangesInv, TypeInv
<1>1. UNCHANGED <<kcpOnce, net, sent, handed, localEpoch, peerEpoch>>
  BY DEF Reconnect, Close, histVars, boundVars
<1>2. Grows /\ NetGood(p)'
  <2>1. Grows
    BY <1>1 DEF Grows
  <2> QED
    BY <1>0, <1>1, <2>1, NetGoodStays
<1>3. CASE Reconnect(q)
  <2>0. q # p
    BY <1>3, OneWayCannot
  <2>1. Reset(q, Provider) /\ runtimes' = runtimes
    BY <1>3 DEF Reconnect
  <2>2. Provider \in Thread /\ OnlyMoves(q, Provider)
    BY <1>0, <2>1, ProviderIsThread, RestMoves
  <2>3. thread'[q][Provider] = [AtRest EXCEPT !.pc = "clear"]
    BY <1>0, <2>1, <2>2 DEF Reset, ThreadInv
  <2>4. HeldGood(p)'
    <3>1. HeldOk(handed', p, q, thread'[q][Provider])
      BY <2>3, RestIsGood
    <3> QED
      BY <1>0, <1>1, <1>2, <2>2, <3>1, HeldStays
  <2>5. NeverResets(p)'
    BY <1>0, <1>1, <2>0, <2>2, NeverResetsStays
  <2>6. OneRuntime(p)' /\ FarGood(p)'
    BY <1>0, <1>1, <1>2, <2>1, NearSame, FarSame
  <2> QED
    BY <1>2, <2>4, <2>5, <2>6 DEF OneWayParts
<1>4. CASE Close(q)
  <2>1. /\ thread' = thread
        /\ runtimes' = IF kcp[q] = None THEN runtimes
                       ELSE [runtimes EXCEPT ![q][kcp[q]] = ClosedRuntime]
    BY <1>4 DEF Close
  <2>2. OneRuntime(p)' /\ FarGood(p)'
    BY <1>0, <1>1, <1>2, <2>1, ClosedRuntimes
  <2>3. HeldGood(p)'
    BY <1>0, <1>1, <1>2, <2>1, HeldSame
  <2>4. NeverResets(p)'
    BY <1>0, <1>1, <2>1 DEF NeverResets
  <2> QED
    BY <1>2, <2>2, <2>3, <2>4 DEF OneWayParts
<1> QED
  BY <1>3, <1>4


(* KCP processes a frame. Of p: what the frame acknowledges was handed. Of *)
(* the other peer: the segment it expects is the message it passes to      *)
(* OnData, and it acknowledges no other that it did not pass before.       *)
LEMMA DeliverOneWay ==
  ASSUME NEW p \in Peer, OneWay(p), NEW q \in Peer, NEW t \in Thread, Deliver(q, t)
  PROVE  OneWayParts(p)'
<1> DEFINE f == thread[q][t].frame
           rt == runtimes[q][kcp[q]]
           isNext == f.typ = "seg" /\ f.sn = rt.nxt
           nxt == IF isNext THEN rt.nxt + 1 ELSE rt.nxt
           acks == {i \in 1 .. Len(rt.out) : i < f.una \/ (f.typ = "ack" /\ i = f.sn)}
           ack == [typ |-> "ack", epoch |-> localEpoch[q], sn |-> f.sn, msg |-> 0,
                   una |-> nxt]
           new == [rt EXCEPT !.acked = @ \cup acks, !.nxt = nxt]
<1>0. /\ TypeInv /\ ThreadInv /\ NetInv /\ PeerInv /\ RuntimeInv /\ CountInv
      /\ Other(p) \in Peer /\ Other(p) # p /\ NetGood(p)
      /\ HeldGood(p) /\ NeverResets(p) /\ OneRuntime(p) /\ FarGood(p)
  BY ReadersOf DEF OneWay, ChangesInv, TypeInv
<1>1. /\ kcp[q] # None /\ thread[q][t].pc = "deliver" /\ Rest(q, t) /\ rt.open
      /\ UNCHANGED <<localEpoch, peerEpoch, kcpOnce, sent>>
  BY DEF Deliver, At, boundVars
<1>a. runtimes' = [runtimes EXCEPT ![q][kcp[q]] = new]
  BY DEF Deliver
<1>b. handed' = [handed EXCEPT ![q] = @ \cup (IF isNext THEN {f.msg} ELSE {})]
  BY Zenon DEF Deliver
<1>c. \E n \in IF f.typ = "seg" /\ f.sn < nxt /\ ~closed[q] THEN Written(q, ack)
            ELSE {net[q]} : net' = [net EXCEPT ![q] = n]
  BY Zenon DEF Deliver
<1>2. f \in Frame /\ f.sn \in Nat /\ f.msg \in Nat /\ f.una \in Nat
  BY <1>0 DEF ThreadInv, ThreadState, Frame
<1>3. kcp[q] \in 1 .. Len(runtimes[q]) /\ rt \in KcpRuntime
  BY <1>0, <1>1, ElementOfSeq, LenProperties DEF RuntimeInv, None
<1>4. rt.acked \subseteq 1 .. Len(rt.out) /\ rt.nxt \in Nat /\ nxt \in Nat
  <2>1. rt.acked \subseteq 1 .. Len(rt.out)
    BY <1>0, <1>3 DEF RuntimeInv
  <2>2. rt.nxt \in Nat
    BY <1>3 DEF KcpRuntime
  <2> HIDE DEF rt
  <2> QED
    BY <2>1, <2>2
<1>5. rt.acked \cup acks \in SUBSET Nat
  BY <1>4
<1>6. /\ new \in KcpRuntime /\ new.acked = rt.acked \cup acks /\ new.out = rt.out
      /\ new.nxt = nxt /\ new.open = rt.open
  BY <1>3, <1>4, <1>5 DEF KcpRuntime
<1>7. ack \in Frame /\ ack.typ = "ack" /\ ack.sn = f.sn /\ ack.una = nxt
  BY <1>0, <1>2, <1>4 DEF Frame, PeerInv
<1>8. nxt = rt.nxt \/ (isNext /\ nxt = rt.nxt + 1)
  OBVIOUS
<1>9. acks \subseteq Told(f)
  <2>1. \A i \in acks : i \in Nat \ {0} /\ (i < f.una \/ (f.typ = "ack" /\ i = f.sn))
    OBVIOUS
  <2> QED
    BY <2>1 DEF Told
<1> HIDE DEF nxt, acks, ack, new
<1>10. /\ \A r \in Peer : Len(runtimes'[r]) = Len(runtimes[r])
       /\ \A r \in Peer : \A i \in 1 .. Len(runtimes[r]) :
            runtimes'[r][i] = IF r = q /\ i = kcp[q] THEN new ELSE runtimes[r][i]
       /\ \A r \in Peer \ {q} : runtimes'[r] = runtimes[r]
  BY <1>0, <1>3, <1>6, <1>a, RuntimesBecome
<1>11. /\ handed'[q] = handed[q] \cup (IF isNext THEN {f.msg} ELSE {})
       /\ \A r \in Peer \ {q} : handed'[r] = handed[r]
  BY <1>0, <1>b DEF CountInv
<1>12. Grows
  BY <1>11 DEF Grows
<1>13. Good(handed, p, Other(q), f)
  <2>1. HeldOk(handed, p, q, thread[q][t])
    BY <1>0 DEF HeldGood
  <2>2. f.epoch # localEpoch[q]
    BY <1>1, <2>1 DEF HeldOk
  <2> QED
    BY <2>1, <2>2 DEF HeldOk
<1> HIDE DEF rt, f
<1>14. q # p => q = Other(p) /\ Other(q) = p
  BY DEF Other, Peer
<1>15. ASSUME q # p, NEW i \in Nat \ {0}, i < nxt PROVE i \in handed'[q]
  <2>1. i < rt.nxt => i \in handed[q]
    BY <1>0, <1>3, <1>14, <1>15 DEF FarGood, rt
  <2>2. CASE i < rt.nxt
    BY <1>11, <2>1, <2>2
  <2>3. CASE ~(i < rt.nxt)
    <3>1. isNext /\ i = rt.nxt
      BY <1>4, <1>8, <1>15, <2>3
    <3>2. f.msg = f.sn
      BY <1>13, <1>14, <1>15, <3>1 DEF Good
    <3> QED
      BY <1>11, <3>1, <3>2
  <2> QED
    BY <2>2, <2>3
<1>16. NetGood(p)'
  <2>1. CASE net' = [net EXCEPT ![q] = net[q]]
    <3>1. \A r \in Peer : net'[r] = net[r]
      BY <1>0, <2>1 DEF NetInv
    <3> QED
      BY <1>0, <1>12, <3>1, NetGoodStays
  <2>2. CASE /\ f.typ = "seg" /\ f.sn < nxt
             /\ net' = [net EXCEPT ![q] = Append(net[q], ack)]
    <3>1. Good(handed', p, q, ack)
      <4>1. CASE q = p
        BY <1>7, <4>1 DEF Good
      <4>2. CASE q # p
        <5>1. \A i \in Told(ack) : i \in Nat \ {0} /\ i < nxt
          BY <1>2, <1>4, <1>7, <2>2 DEF Told
        <5>2. Told(ack) \subseteq handed'[q]
          BY <1>15, <4>2, <5>1
        <5> QED
          BY <4>2, <5>2 DEF Good
      <4> QED
        BY <4>1, <4>2
    <3>2. \A r \in Peer : net'[r] = IF r = q THEN Append(net[q], ack) ELSE net[r]
      BY <1>0, <2>2 DEF NetInv
    <3> QED
      BY <1>0, <1>7, <1>12, <3>1, <3>2, NetGoodStays
  <2> QED
    BY <1>c, <2>1, <2>2 DEF Written
<1>17. thread'[q][t] = AtRest /\ OnlyMoves(q, t)
  BY <1>0, <1>1, RestMoves DEF Rest, ThreadInv
<1>18. HeldGood(p)'
  <2>1. HeldOk(handed', p, q, thread'[q][t])
    BY <1>17, RestIsGood
  <2> QED
    BY <1>0, <1>1, <1>12, <1>17, <2>1, HeldStays
<1>19. NeverResets(p)'
  <2>1. thread'[q][t].pc = "read"
    BY <1>17 DEF AtRest
  <2>2. peerEpoch[p] \in {None, localEpoch[Other(p)]} /\ peerEpoch' = peerEpoch
    BY <1>0, <1>1 DEF NeverResets
  <2> QED
    BY <1>0, <1>1, <1>17, <2>1, <2>2, NeverResetsStays
<1>20. FarGood(p)'
  <2>1. CASE q = p
    BY <1>0, <1>10, <1>12, <2>1, FarSame
  <2>2. CASE q # p
    <3>1. ASSUME NEW r \in 1 .. Len(runtimes'[Other(p)]), NEW i \in Nat \ {0},
                 i < runtimes'[Other(p)][r].nxt
          PROVE  i \in handed'[Other(p)]
      <4>1. r \in 1 .. Len(runtimes[q])
        BY <1>10, <1>14, <2>2
      <4>2. CASE r = kcp[q]
        BY <1>6, <1>10, <1>14, <1>15, <2>2, <3>1, <4>1, <4>2
      <4>3. CASE r # kcp[q]
        <5>1. runtimes'[q][r] = runtimes[q][r]
          BY <1>10, <4>1, <4>3
        <5>2. i \in handed[q]
          BY <1>0, <1>14, <2>2, <3>1, <4>1, <5>1 DEF FarGood
        <5> QED
          BY <1>11, <1>14, <2>2, <5>2
      <4> QED
        BY <4>2, <4>3
    <3> QED
      BY <3>1 DEF FarGood
  <2> QED
    BY <2>1, <2>2
<1>21. OneRuntime(p)'
  <2>1. CASE q # p
    BY <1>0, <1>1, <1>10, <1>12, <2>1, NearSame
  <2>2. CASE q = p
    <3>1. Told(f) \subseteq handed[Other(p)] /\ handed'[Other(p)] = handed[Other(p)]
      BY <1>0, <1>11, <1>13, <2>2 DEF Good
    <3>2. KcpOk(handed[Other(p)], sent[p], rt)
      BY <1>0, <1>3, <2>2 DEF OneRuntime, rt
    <3>3. KcpOk(handed'[Other(p)], sent'[p], new)
      BY <1>1, <1>6, <1>9, <3>1, <3>2 DEF KcpOk
    <3>4. ASSUME NEW r \in 1 .. Len(runtimes'[p])
          PROVE  KcpOk(handed'[Other(p)], sent'[p], runtimes'[p][r])
      <4>1. r \in 1 .. Len(runtimes[p])
        BY <1>10
      <4>2. CASE r = kcp[p]
        BY <1>10, <2>2, <3>3, <4>1, <4>2
      <4>3. CASE r # kcp[p]
        <5>1. runtimes'[p][r] = runtimes[p][r]
          BY <1>10, <2>2, <4>1, <4>3
        <5>2. KcpOk(handed[Other(p)], sent[p], runtimes[p][r])
          BY <1>0, <4>1 DEF OneRuntime
        <5> QED
          BY <1>1, <3>1, <5>1, <5>2
      <4> QED
        BY <4>2, <4>3
    <3>5. Len(runtimes[p]) # 0 /\ Len(runtimes'[p]) = Len(runtimes[p])
      BY <1>3, <1>10, <2>2
    <3>6. runtimes[p] # <<>> /\ runtimes'[p] # <<>>
      BY <3>5
    <3>7. kcpOnce'[p] = kcpOnce[p] /\ Len(runtimes[p]) <= 1
      BY <1>0, <1>1 DEF OneRuntime
    <3>8. kcpOnce[p]
      BY <1>0, <3>6 DEF OneRuntime
    <3> QED
      BY <3>4, <3>5, <3>6, <3>7, <3>8 DEF OneRuntime
  <2> QED
    BY <2>1, <2>2
<1> QED
  BY <1>16, <1>18, <1>19, <1>20, <1>21 DEF OneWayParts

LEMMA InitOneWay == ASSUME NEW p \in Peer, Init PROVE OneWay(p)
<1>0. Other(p) \in Peer
  BY ReadersOf
<1>1. ChangesInv
  BY InitChangesInv
<1>2. Calm(p) /\ NetGood(p) /\ NeverResets(p) /\ OneRuntime(p) /\ FarGood(p)
  BY <1>0 DEF Init, Calm, NetGood, NeverResets, OneRuntime, FarGood, AtRest
<1>3. HeldGood(p)
  <2> SUFFICES ASSUME NEW q \in Peer, NEW t \in Thread
               PROVE  HeldOk(handed, p, q, thread[q][t])
    BY DEF HeldGood
  <2>1. thread[q][t] = AtRest
    BY DEF Init
  <2> QED
    BY <2>1, RestIsGood
<1> QED
  BY <1>1, <1>2, <1>3 DEF OneWay

LEMMA NextOneWay ==
  ASSUME NEW p \in Peer, Undisturbed(p), OneWay(p), [Next]_vars PROVE OneWay(p)'
<1>1. ChangesInv'
  BY NextChangesInv DEF OneWay
<1>2. /\ (\A q \in Peer : ~Restart(q)) /\ ~Reconnect(p)
      /\ \A t \in Thread : ~CompareAndSwap(p, t) /\ ~ResetStep(p, t)
  BY OneWayCannot
<1>3. CASE UNCHANGED vars
  <2>1. /\ UNCHANGED <<localEpoch, peerEpoch, thread, reconnects, restarts, net>>
        /\ UNCHANGED <<kcpOnce, runtimes, sent, handed>>
    BY <1>3 DEF vars, procVars, boundVars, histVars
  <2>2. Grows /\ OneRuntime(p)' /\ FarGood(p)' /\ NetGood(p)'
    BY <2>1, RuntimesKept
  <2>3. HeldGood(p)'
    BY <2>1, <2>2, HeldSame DEF OneWay
  <2>4. NeverResets(p)' /\ Calm(p)'
    BY <2>1 DEF OneWay, NeverResets, Calm
  <2> QED
    BY <1>1, <2>2, <2>3, <2>4 DEF OneWay
<1>4. CASE Next
  <2>1. OneWayParts(p)'
    BY <1>2, <1>4, SendOneWay, WriteOneWay, TakeOneWay, EpochOneWay, ResetOneWay, CloseOneWay,
       DeliverOneWay
    DEF Next, FrameStep
  <2>2. Calm(p)'
    <3>1. \/ UNCHANGED <<restarts, reconnects>>
          \/ /\ restarts' = restarts
             /\ \E q \in Peer \ {p} : reconnects' = [reconnects EXCEPT ![q] = @ + 1]
      <4>1. ASSUME NEW q \in Peer,
                   \/ Send(q) \/ WriteKeepalive(q) \/ Close(q)
                   \/ \E r \in 1 .. Len(runtimes[q]) : Transmit(q, r)
                   \/ \E t \in Thread : Take(q, t) \/ Echo(q, t) \/ ResetStep(q, t)
            PROVE  UNCHANGED <<restarts, reconnects>>
        BY <4>1 DEF Send, WriteKeepalive, Close, Transmit, Take, Echo, ResetStep, ResetClear,
           ResetStart, boundVars
      <4>2. ASSUME NEW q \in Peer, NEW t \in Thread, FrameStep(q, t)
            PROVE  UNCHANGED <<restarts, reconnects>>
        BY <4>2 DEF FrameStep, HandleEcho, HandleFirst, HandleKnown, StorePeer, StartOnce, Skip,
           Deliver, CompareAndSwap, boundVars
      <4>3. ASSUME NEW q \in Peer, Reconnect(q)
            PROVE  /\ restarts' = restarts
                   /\ \E r \in Peer \ {p} : reconnects' = [reconnects EXCEPT ![r] = @ + 1]
        <5>1. q # p
          BY <1>2, <4>3
        <5> QED
          BY <4>3, <5>1 DEF Reconnect
      <4> QED
        BY <1>2, <1>4, <4>1, <4>2, <4>3 DEF Next
    <3> QED
      BY <3>1 DEF OneWay, Calm
  <2> QED
    BY <1>1, <2>1, <2>2 DEF OneWay, OneWayParts
<1> QED
  BY <1>3, <1>4

(* "KCP guarantees in-order delivery with retransmits" (Features): while no*)
(* process restarts, the provider of p does not reconnect and p has one    *)
(* reader, what the current KCP runtime of p was told is delivered was     *)
(* passed to OnData at the other peer, however often that peer closes,     *)
(* reconnects and resets, and whatever frames are lost, repeated or echoed.*)
THEOREM UndisturbedIsReliable ==
  ASSUME NEW p \in Peer, Undisturbed(p) PROVE Spec => []AckedOf(p)
<1>1. Init => OneWay(p)
  BY InitOneWay
<1>2. OneWay(p) /\ [Next]_vars => OneWay(p)'
  BY NextOneWay
<1>3. OneWay(p) => AckedOf(p)
  <2> SUFFICES ASSUME OneWay(p), kcp[p] # None, NEW sn \in runtimes[p][kcp[p]].acked
               PROVE  runtimes[p][kcp[p]].out[sn] \in handed[Other(p)]
    BY DEF AckedOf
  <2>1. RuntimeInv /\ OneRuntime(p)
    BY DEF OneWay, ChangesInv, TypeInv
  <2>2. kcp[p] \in 1 .. Len(runtimes[p])
    BY <2>1, LenProperties DEF RuntimeInv, None
  <2>3. sn \in 1 .. Len(runtimes[p][kcp[p]].out)
    BY <2>1, <2>2 DEF RuntimeInv
  <2> QED
    BY <2>1, <2>2, <2>3 DEF OneRuntime, KcpOk
<1> QED
  BY <1>1, <1>2, <1>3, PTL DEF Spec

=============================================================================
