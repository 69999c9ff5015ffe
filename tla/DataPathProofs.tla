--------------------------- MODULE DataPathProofs ----------------------------
(***************************************************************************)
(* Proofs about the layers the bytes go through, for every value of the    *)
(* constants: any number of messages, any capacity of the queue, any       *)
(* limit of the data channel, any frames, any scripts. They are about the  *)
(* specification of MCDataPath, whose behaviours run one layer each. Its   *)
(* parts: why a Write or a queue reports an error; the order of what is    *)
(* read; the frames of the video path; the tunnel and, last, the type      *)
(* invariant. What a theorem takes for granted of the constants is a       *)
(* definition of its own in front of it (OneWorkerOnly, JazzCarries,       *)
(* NumbersLast, ScriptsMean).                                              *)
(***************************************************************************)
EXTENDS MCDataPath, SequenceTheorems, WellFoundedInduction, TLAPS

USE DEF pathVars, muxVars, queueVars, peerVars, jazzVars, wbVars

LEMMA PathBounds ==
  /\ Count \in Nat /\ Capacity \in Nat /\ HighWater \in Nat
  /\ HighWater <= Capacity /\ HighWater >= 1
  /\ 1 \in Worker /\ Kinds \subseteq {"jazz", "wbstream", "telemost"}
  BY MuxAssumption, QueueAssumption, PathAssumption DEF Worker

(* The queue holds sealed messages, a worker that sends has one.           *)
QueueTypes ==
  /\ connect \in {"idle", "dial", "tracks", "wait", "ok", "failed"}
  /\ queue \in Seq(Sealed) /\ Len(queue) <= Capacity
  /\ worker \in [Worker -> [pc : {"none", "waiting", "sending", "gone"},
                            item : Sealed \cup {NoItem}]]
  /\ \A w \in Worker : worker[w].pc = "sending" <=> worker[w].item # NoItem
  /\ closer \in {"open", "waiting", "leaving", "left", "done"}
  /\ dropped \subseteq Sealed
PathTypes ==
  kind \in Kinds /\ MuxTypeOK /\ JazzTypeOK /\ WbTypeOK /\ TeleTypeOK /\ QueueTypes

(* A session runs over a link that is connected: its channel was opened.   *)
Started ==
  /\ writer.pc # "idle" \/ "near" \in connClosed => connect = "ok"
  /\ kind = "jazz" =>
       /\ worker[1].pc # "none" => dc \in {"open", "closed"}
       /\ connect = "ok" => worker[1].pc # "none"
       /\ connect \in {"wait", "ok"} => ws # "none"
       /\ connect = "idle" => dc = "none"
  /\ kind = "wbstream" =>
       /\ connect = "idle" => room = "none"
       /\ connect \in {"tracks", "ok"} => room # "none"
       /\ worker[1].pc # "none" => connect = "ok"
  /\ kind = "telemost" =>
       /\ connect = "idle" => tdc = "none"
       /\ connect = "wait" => tdc # "none"
       /\ connect = "ok" => tdc \in {"open", "stopped", "closed"}
       /\ \A w \in Worker : worker[w].pc # "none" => tdc \in {"open", "stopped", "closed"}

(* The owner closes its session before the link.                           *)
Closing ==
  /\ "near" \notin connClosed => closer = "open" /\ ~jClosed /\ ~wClosed
  /\ kind = "wbstream" /\ closer # "open" => wClosed

(* Only the writer fills the queue: what CanSend saw holds until it sends. *)
Margin == writer.pc \in {"send", "enqueue"} /\ kind # "wbstream" => Len(queue) < HighWater

Caused ==
  /\ failure # "timeout"
  /\ failure = "closed" => "near" \in connClosed
  /\ failure = "full" => kind = "wbstream"
  /\ failure = "down" => \/ "near" \in connClosed
                         \/ kind = "jazz" /\ dc = "closed"
                         \/ kind = "telemost" /\ tdc \in {"stopped", "closed"}
  /\ panicked => "near" \in connClosed

PathInv == PathTypes /\ Started /\ Closing /\ Margin /\ Caused

LEMMA SealedIsSomething == \A m \in Sealed : m # NoItem
  BY DEF Sealed, Seal, NoItem

(* What Take, Put, Drop and Goes leave of the types.                       *)
LEMMA TakeTypes ==
  ASSUME QueueTypes, NEW w \in Worker, Take(w)
  PROVE  /\ queue' \in Seq(Sealed) /\ Len(queue') < Len(queue)
         /\ worker' \in [Worker -> [pc : {"none", "waiting", "sending", "gone"},
                                    item : Sealed \cup {NoItem}]]
         /\ \A v \in Worker : worker'[v].pc = "sending" <=> worker'[v].item # NoItem
         /\ worker'[w].pc # "none"
         /\ \A v \in Worker : worker[v].pc # "none" => worker'[v].pc # "none"
  <1>1. Head(queue) \in Sealed /\ Tail(queue) \in Seq(Sealed) /\ Len(Tail(queue)) < Len(queue)
    BY DEF Take, QueueTypes
  <1>2. Head(queue) # NoItem
    BY <1>1, SealedIsSomething
  <1> QED BY <1>1, <1>2 DEF Take, QueueTypes

LEMMA GoesTypes ==
  ASSUME QueueTypes, NEW w \in Worker, NEW pc \in {"waiting", "gone"}, Goes(w, pc)
  PROVE  /\ worker' \in [Worker -> [pc : {"none", "waiting", "sending", "gone"},
                                    item : Sealed \cup {NoItem}]]
         /\ \A v \in Worker : worker'[v].pc = "sending" <=> worker'[v].item # NoItem
         /\ worker'[w].pc # "none"
         /\ \A v \in Worker : worker[v].pc # "none" => worker'[v].pc # "none"
  BY DEF Goes, QueueTypes

LEMMA DropTypes ==
  ASSUME QueueTypes, NEW w \in Worker, NEW pc \in {"waiting", "gone"}, Drop(w, pc),
         worker[w].pc = "sending"
  PROVE  dropped' \subseteq Sealed
  BY DEF Drop, QueueTypes

(* The peer of jazz: what connects it, what fails, its signalling, its     *)
(* worker, its Close.                                                      *)
LEMMA JazzKeeps ==
  ASSUME PathInv, kind = "jazz", UNCHANGED <<kind, muxVars, wbVars, tdc>>,
         \/ JazzConnects \/ JazzFails \/ JazzWorks
         \/ SendPublisherOffer \/ ReadFails \/ ReadOffer \/ ReadAnswer \/ JazzOpens \/ Watch
         \/ "near" \in connClosed /\ (JazzCloseBegins \/ JazzCloseEnds)
  PROVE  PathInv'
  <1> USE PathBounds DEF PathInv, PathTypes, MuxTypeOK, JazzTypeOK, WbTypeOK, TeleTypeOK,
                         QueueTypes, Started, Closing, Margin, Caused
  <1>1. ASSUME JazzCreate PROVE PathInv'
    BY <1>1 DEF JazzCreate
  <1>2. ASSUME JazzDial PROVE PathInv'
    BY <1>2 DEF JazzDial
  <1>3. ASSUME JazzConnectFails PROVE PathInv'
    BY <1>3 DEF JazzConnectFails
  <1>4. ASSUME JazzReady PROVE PathInv'
    BY <1>4 DEF JazzReady
  <1>5. ASSUME JazzSocketFails PROVE PathInv'
    BY <1>5 DEF JazzSocketFails
  <1>6. ASSUME JazzChannelFails PROVE PathInv'
    BY <1>6 DEF JazzChannelFails, QueueReconnect
  <1>7. ASSUME JazzConnectionDown PROVE PathInv'
    BY <1>7 DEF JazzConnectionDown, QueueReconnect
  <1>8. ASSUME ReadOffer PROVE PathInv'
    BY <1>8 DEF ReadOffer
  <1>9. ASSUME SendPublisherOffer PROVE PathInv'
    BY <1>9 DEF SendPublisherOffer
  <1>10. ASSUME ReadAnswer PROVE PathInv'
    BY <1>10 DEF ReadAnswer
  <1>11. ASSUME ReadFails PROVE PathInv'
    BY <1>11 DEF ReadFails, QueueReconnect
  <1>12. ASSUME JazzOpens PROVE PathInv'
    BY <1>12 DEF JazzOpens, Start
  <1>13. ASSUME Watch PROVE PathInv'
    <2>1. trigger' \in BOOLEAN /\ UNCHANGED <<queueVars, jClosed, ws, dc, pub, signaler>>
      BY <1>13 DEF Watch
    <2> QED BY <2>1
  <1>14. ASSUME JazzTake PROVE PathInv'
    <2>1. Take(1) /\ UNCHANGED <<connect, closer, dropped, jazzVars>>
      BY <1>14 DEF JazzTake
    <2>2. QueueTypes'
      BY <2>1, TakeTypes
    <2>3. Len(queue') < Len(queue) /\ Len(queue') \in Nat /\ worker'[1].pc # "none"
      BY <2>1, <2>2, TakeTypes
    <2>4. worker[1].pc # "none"
      BY <2>1 DEF Take
    <2>5. Margin'
      BY <2>1, <2>3
    <2>6. JazzTypeOK' /\ Started'
      BY <2>1, <2>3, <2>4
    <2> QED BY <2>1, <2>2, <2>5, <2>6
  <1>15. ASSUME JazzWorkerSends PROVE PathInv'
    <2>1. PICK pc \in {"waiting", "gone"} : Goes(1, pc)
      BY <1>15 DEF JazzWorkerSends, Put, Drop
    <2>2. dropped' \subseteq Sealed
      BY <1>15, DropTypes DEF JazzWorkerSends, Put
    <2>3. trigger' \in BOOLEAN
      BY <1>15 DEF JazzWorkerSends, QueueReconnect
    <2> QED BY <1>15, <2>1, <2>2, <2>3, GoesTypes DEF JazzWorkerSends
  <1>16. ASSUME JazzWorkerStops PROVE PathInv'
    BY <1>16, GoesTypes DEF JazzWorkerStops
  <1>17. ASSUME "near" \in connClosed, JazzCloseBegins PROVE PathInv'
    BY <1>17 DEF JazzCloseBegins
  <1>18. ASSUME "near" \in connClosed, JazzCloseEnds PROVE PathInv'
    BY <1>18 DEF JazzCloseEnds
  <1> QED
    BY <1>1, <1>2, <1>3, <1>4, <1>5, <1>6, <1>7, <1>8, <1>9, <1>10, <1>11, <1>12, <1>13,
       <1>14, <1>15, <1>16, <1>17, <1>18
    DEF JazzConnects, JazzFails, JazzWorks

(* The peer of WB Stream. A queue that its Close closes has a session that *)
(* was closed before.                                                      *)
LEMMA WbKeeps ==
  ASSUME PathInv, kind = "wbstream", UNCHANGED <<kind, muxVars, jazzVars, tdc>>,
         \/ WbConnects \/ RoomLost \/ WbWorks
         \/ "near" \in connClosed /\ WbCloses
  PROVE  PathInv'
  <1> USE PathBounds DEF PathInv, PathTypes, MuxTypeOK, JazzTypeOK, WbTypeOK, TeleTypeOK,
                         QueueTypes, Started, Closing, Margin, Caused
  <1>1. ASSUME WbJoins PROVE PathInv'
    BY <1>1 DEF WbJoins
  <1>2. ASSUME WbPublishes PROVE PathInv'
    BY <1>2 DEF WbPublishes, Start
  <1>3. ASSUME WbConnectFails PROVE PathInv'
    BY <1>3 DEF WbConnectFails
  <1>4. ASSUME RoomLost PROVE PathInv'
    BY <1>4 DEF RoomLost
  <1>5. ASSUME WbTake PROVE PathInv'
    <2>1. Take(1) /\ UNCHANGED <<connect, closer, dropped, wbVars>>
      BY <1>5 DEF WbTake
    <2>2. QueueTypes'
      BY <2>1, TakeTypes
    <2>3. worker[1].pc # "none" /\ worker'[1].pc # "none"
      BY <2>1, TakeTypes DEF Take
    <2>4. JazzTypeOK' /\ Started'
      BY <2>1, <2>3
    <2> QED BY <2>1, <2>2, <2>4
  <1>6. ASSUME WbWorkerPublishes PROVE PathInv'
    <2>1. Goes(1, "waiting")
      BY <1>6 DEF WbWorkerPublishes, Put, Drop
    <2>2. dropped' \subseteq Sealed
      BY <1>6, DropTypes DEF WbWorkerPublishes, Put
    <2> QED BY <1>6, <2>1, <2>2, GoesTypes DEF WbWorkerPublishes
  <1>7. ASSUME WbWorkerStops PROVE PathInv'
    BY <1>7, GoesTypes DEF WbWorkerStops
  <1>8. ASSUME "near" \in connClosed, WbCloseBegins PROVE PathInv'
    BY <1>8 DEF WbCloseBegins
  <1>9. ASSUME "near" \in connClosed, WbLeaves PROVE PathInv'
    BY <1>9 DEF WbLeaves
  <1>10. ASSUME "near" \in connClosed, WbClosesQueue PROVE PathInv'
    BY <1>10 DEF WbClosesQueue
  <1>11. ASSUME "near" \in connClosed, WbCloseReturns PROVE PathInv'
    BY <1>11 DEF WbCloseReturns
  <1> QED
    BY <1>1, <1>2, <1>3, <1>4, <1>5, <1>6, <1>7, <1>8, <1>9, <1>10, <1>11
    DEF WbConnects, WbWorks, WbCloses

(* The sending side of the peer of Telemost.                               *)
LEMMA TeleKeeps ==
  ASSUME PathInv, kind = "telemost", UNCHANGED <<kind, muxVars, jazzVars, wbVars>>,
         \/ TeleConnects \/ TeleOpens \/ TeleFails \/ TeleWorks
         \/ "near" \in connClosed /\ TeleCloses
  PROVE  PathInv'
  <1> USE PathBounds DEF PathInv, PathTypes, MuxTypeOK, JazzTypeOK, WbTypeOK, TeleTypeOK,
                         QueueTypes, Started, Closing, Margin, Caused
  <1>1. ASSUME TeleCreate PROVE PathInv'
    BY <1>1 DEF TeleCreate
  <1>2. ASSUME TeleConnectFails PROVE PathInv'
    BY <1>2 DEF TeleConnectFails
  <1>3. ASSUME TeleReady PROVE PathInv'
    BY <1>3 DEF TeleReady
  <1>4. ASSUME TeleOpens PROVE PathInv'
    BY <1>4 DEF TeleOpens, Start
  <1>5. ASSUME TeleStops PROVE PathInv'
    BY <1>5 DEF TeleStops
  <1>6. ASSUME TeleChannelFails PROVE PathInv'
    BY <1>6 DEF TeleChannelFails, IsOpen
  <1>7. ASSUME NEW w \in Worker, TeleTake(w) PROVE PathInv'
    <2>1. Take(w) /\ UNCHANGED <<connect, closer, dropped, tdc>>
      BY <1>7 DEF TeleTake
    <2>2. QueueTypes'
      BY <2>1, TakeTypes
    <2>3. Len(queue') < Len(queue) /\ Len(queue') \in Nat
      BY <2>1, <2>2, TakeTypes
    <2>4. Margin'
      BY <2>1, <2>3
    <2>5. \A v \in Worker : worker'[v].pc # "none" => tdc \in {"open", "stopped", "closed"}
      BY <2>1 DEF Take
    <2>6. Started'
      BY <2>1, <2>5
    <2>7. JazzTypeOK'
      BY <2>1, TakeTypes
    <2> QED BY <2>1, <2>2, <2>4, <2>6, <2>7
  <1>8. ASSUME NEW w \in Worker, TeleWorkerSends(w) PROVE PathInv'
    <2>1. PICK pc \in {"waiting", "gone"} : Goes(w, pc)
      BY <1>8 DEF TeleWorkerSends, Put, Drop
    <2>2. dropped' \subseteq Sealed
      BY <1>8, DropTypes DEF TeleWorkerSends, Put
    <2> QED BY <1>8, <2>1, <2>2, GoesTypes DEF TeleWorkerSends
  <1>9. ASSUME NEW w \in Worker, TeleWorkerStops(w) PROVE PathInv'
    BY <1>9, GoesTypes DEF TeleWorkerStops
  <1>10. ASSUME "near" \in connClosed, TeleCloseBegins PROVE PathInv'
    BY <1>10 DEF TeleCloseBegins
  <1>11. ASSUME "near" \in connClosed, TeleCloseStops PROVE PathInv'
    BY <1>11 DEF TeleCloseStops
  <1>12. ASSUME "near" \in connClosed, TeleCloseEnds PROVE PathInv'
    BY <1>12 DEF TeleCloseEnds
  <1> QED
    BY <1>1, <1>2, <1>3, <1>4, <1>5, <1>6, <1>7, <1>8, <1>9, <1>10, <1>11, <1>12
    DEF TeleConnects, TeleFails, TeleWorks, TeleCloses

(* The near session: what its writer asks of the link and what it gives it.*)
LEMMA WriterKeeps ==
  ASSUME PathInv, WriterRuns
  PROVE  PathInv'
  <1> USE PathBounds DEF PathInv, PathTypes, MuxTypeOK, JazzTypeOK, WbTypeOK, TeleTypeOK,
                         QueueTypes, Started, Closing, Margin, Caused
  <1>1. ASSUME WriterPolls, WriteBegins PROVE PathInv'
    BY <1>1 DEF WriterPolls, WriteBegins, Message
  <1>2. ASSUME WriterPolls, CheckClosed PROVE PathInv'
    BY <1>2 DEF WriterPolls, CheckClosed, WriteFails, WriteGoesOn
  <1>3. ASSUME WriterPolls, CheckCanSend(CanSend) PROVE PathInv'
    BY <1>3 DEF WriterPolls, CheckCanSend, WriteGoesOn, CanSend, JazzCanSend, TeleCanSend
  <1>4. ASSUME SendChecks PROVE PathInv'
    BY <1>4 DEF SendChecks, WriteFails, WriteGoesOn, MaySend, JazzMaySend, WbMaySend,
                TeleMaySend, IsOpen
  <1>5. ASSUME SendEnqueues PROVE PathInv'
    <2>1. Seal(writer.msg) \in Sealed
      BY <1>5 DEF SendEnqueues, Sealed
    <2>2. queue' \in Seq(Sealed) /\ Len(queue') = Len(queue) + 1 /\ Len(queue) < Capacity
      BY <1>5, <2>1 DEF SendEnqueues, Enqueue, Room
    <2>3. QueueTypes'
      BY <1>5, <2>2 DEF SendEnqueues, Enqueue
    <2>4. MuxTypeOK' /\ Margin'
      BY <1>5 DEF SendEnqueues, WriteGoesOn
    <2>5. JazzTypeOK' /\ WbTypeOK' /\ TeleTypeOK' /\ Started' /\ Closing' /\ Caused'
      BY <1>5 DEF SendEnqueues, Enqueue, WriteGoesOn
    <2> QED BY <1>5, <2>3, <2>4, <2>5 DEF SendEnqueues
  <1>6. ASSUME SendFindsNoRoom PROVE PathInv'
    BY <1>6 DEF SendFindsNoRoom, WriteFails, Room
  <1>7. ASSUME SendPanics PROVE PathInv'
    BY <1>7 DEF SendPanics
  <1> QED BY <1>1, <1>2, <1>3, <1>4, <1>5, <1>6, <1>7 DEF WriterRuns, WriterPolls

(* The far session, and the conns at both ends.                            *)
LEMMA EndsKeep ==
  ASSUME PathInv, Receive \/ ReaderReads \/ NearCloses \/ FarCloses
  PROVE  PathInv'
  <1> USE PathBounds DEF PathInv, PathTypes, MuxTypeOK, JazzTypeOK, WbTypeOK, TeleTypeOK,
                         QueueTypes, Started, Closing, Margin, Caused
  <1>1. ASSUME Receive PROVE PathInv'
    BY <1>1 DEF Receive, Push, Wake
  <1>2. ASSUME ReaderReads PROVE PathInv'
    BY <1>2 DEF ReaderReads, Read
  <1>3. ASSUME NearCloses PROVE PathInv'
    BY <1>3 DEF NearCloses, CloseConn, End
  <1>4. ASSUME FarCloses PROVE PathInv'
    BY <1>4 DEF FarCloses, CloseConn, Wake, End
  <1> QED BY <1>1, <1>2, <1>3, <1>4

LEMMA InitPath == PathInit => PathInv
  <1> SUFFICES ASSUME PathInit PROVE PathInv
    OBVIOUS
  <1> USE PathBounds DEF PathInit, MuxInit, QueueInit, JazzInit, WbInit, TeleInit
  <1>1. MuxTypeOK
    BY DEF MuxTypeOK
  <1>2. JazzTypeOK
    BY DEF JazzTypeOK
  <1>3. WbTypeOK /\ TeleTypeOK
    BY DEF WbTypeOK, TeleTypeOK
  <1>4. QueueTypes
    BY DEF QueueTypes
  <1>5. Started /\ Closing /\ Margin /\ Caused
    BY DEF Started, Closing, Margin, Caused
  <1> QED BY <1>1, <1>2, <1>3, <1>4, <1>5 DEF PathInv, PathTypes

LEMMA NextPath == PathInv /\ [PathNext]_pathVars => PathInv'
  <1> SUFFICES ASSUME PathInv, [PathNext]_pathVars PROVE PathInv'
    OBVIOUS
  <1>1. CASE Carrier \/ Negotiates \/ SignalerRuns \/ WorkerRuns \/ Closes
    BY <1>1, JazzKeeps, WbKeeps, TeleKeeps
    DEF Carrier, Negotiates, SignalerRuns, WorkerRuns, Closes
  <1>2. CASE WriterRuns
    BY <1>2, WriterKeeps
  <1>3. CASE Receive \/ ReaderReads \/ NearCloses \/ FarCloses
    BY <1>3, EndsKeep
  <1>4. CASE UNCHANGED pathVars
    BY <1>4 DEF PathInv, PathTypes, MuxTypeOK, JazzTypeOK, WbTypeOK, TeleTypeOK, QueueTypes,
                Started, Closing, Margin, Caused
  <1> QED BY <1>1, <1>2, <1>3, <1>4 DEF PathNext

LEMMA PathInvariant == Spec => []PathInv
  <1>1. Init => PathInv
    BY InitPath DEF Init
  <1>2. PathInv /\ [Next]_vars => PathInv'
    BY NextPath DEF Next, Path, Through, Assemble, vars
  <1> QED BY <1>1, <1>2, PTL DEF Spec

(* Every error of a Write has its cause: the peers of jazz and telemost    *)
(* never time out on the queue, because CanSend kept a margin; only WB     *)
(* Stream finds it full; and what panics is a Write that was under way     *)
(* when its session had been closed.                                       *)
THEOREM ErrorsCaused == Spec => []ErrorsAreCaused
  <1>1. PathInv => ErrorsAreCaused
    BY DEF PathInv, Caused, ErrorsAreCaused, CarrierUp
  <1> QED BY <1>1, PathInvariant, PTL

-----------------------------------------------------------------------------
(* FlattenSeq, which says what a session reads in terms of the messages    *)
(* sent to it: what it returns of an empty sequence, of one more element,  *)
(* of a concatenation. Each is by induction on a length, with LeastNumber. *)
(* Every set of numbers has a least one: the induction of the lemmas below.*)
LEMMA LeastNumber ==
  ASSUME NEW T \in SUBSET Nat, T # {}
  PROVE  \E m \in T : \A k \in T : m <= k
  <1> DEFINE R == OpToRel(<, Nat)
  <1>1. IsWellFoundedOn(R, Nat)
    BY NatLessThanWellFounded
  <1> HIDE DEF R
  <1>2. PICK m \in T : \A k \in T : ~(<<k, m>> \in R)
    BY <1>1, WFMin
  <1>3. \A k \in T : <<k, m>> \in R <=> k < m
    BY DEF R, OpToRel
  <1>4. \A k \in T : ~(k < m)
    BY <1>2, <1>3
  <1>5. \A k \in T : m <= k
    BY <1>4
  <1> QED BY <1>5

(* The function FlattenSeq is the last value of.                           *)
Flattens(s, n, g) == g = [i \in 1 .. n |-> IF i = 1 THEN s[i] ELSE g[i - 1] \o s[i]]

LEMMA FlattenExists ==
  ASSUME NEW S, NEW s \in Seq(Seq(S)), NEW n \in 1 .. Len(s)
  PROVE  \E g : Flattens(s, n, g)
  <1> DEFINE T == {k \in 1 .. n : ~ \E g : Flattens(s, k, g)}
  <1> SUFFICES ASSUME ~ \E g : Flattens(s, n, g) PROVE FALSE
    OBVIOUS
  <1>0. n \in T /\ T \in SUBSET Nat
    OBVIOUS
  <1>1. PICK k \in T : \A j \in T : k <= j
    BY <1>0, LeastNumber
  <1>2. k \in 1 .. n /\ ~ \E g : Flattens(s, k, g)
    OBVIOUS
  <1>3. CASE k = 1
    <2> DEFINE g == [i \in 1 .. 1 |-> s[1]]
    <2>1. Flattens(s, 1, g)
      BY DEF Flattens
    <2> QED BY <2>1, <1>2, <1>3
  <1>4. CASE k > 1
    <2>1. k - 1 \in 1 .. n /\ ~(k <= k - 1)
      BY <1>2, <1>4
    <2>2. PICK g : Flattens(s, k - 1, g)
      BY <2>1, <1>1
    <2> DEFINE h == [i \in 1 .. k |-> IF i = k THEN g[k - 1] \o s[k] ELSE g[i]]
    <2> HIDE DEF T
    <2>3. g = [i \in 1 .. k - 1 |-> IF i = 1 THEN s[i] ELSE g[i - 1] \o s[i]]
      BY <2>2 DEF Flattens
    <2>4. \A i \in 1 .. k : h[i] = IF i = 1 THEN s[i] ELSE h[i - 1] \o s[i]
      <3> TAKE i \in 1 .. k
      <3>1. CASE i = k
        <4>1. k - 1 \in 1 .. k /\ k - 1 # k /\ k \in 1 .. k /\ k # 1
          BY <1>2, <1>4
        <4>2. h[k] = g[k - 1] \o s[k] /\ h[k - 1] = g[k - 1]
          BY <4>1
        <4> QED BY <4>1, <4>2, <3>1
      <3>2. CASE i < k
        <4>1. i \in 1 .. k - 1 /\ i # k /\ i - 1 # k /\ (i # 1 => i - 1 \in 1 .. k)
          BY <3>2, <1>2
        <4>2. h[i] = g[i] /\ (i # 1 => h[i - 1] = g[i - 1])
          BY <4>1
        <4> QED BY <4>1, <4>2, <2>3
      <3> QED BY <3>1, <3>2, <1>2
    <2>5. Flattens(s, k, h)
      BY <2>4 DEF Flattens
    <2> QED BY <2>5, <1>2
  <1> QED BY <1>2, <1>3, <1>4

LEMMA FlattenIs ==
  ASSUME NEW S, NEW s \in Seq(Seq(S)), Len(s) # 0
  PROVE  \E g : Flattens(s, Len(s), g) /\ FlattenSeq(s) = g[Len(s)]
  <1> DEFINE g == CHOOSE g : Flattens(s, Len(s), g)
  <1>1. Flattens(s, Len(s), g)
    BY FlattenExists
  <1>2. FlattenSeq(s) = g[Len(s)]
    BY DEF FlattenSeq, Flattens
  <1> QED BY <1>1, <1>2

(* Sequences that agree so far flatten alike so far.                       *)
LEMMA FlattensAgree ==
  ASSUME NEW s, NEW t, NEW l \in Nat, NEW m \in Nat, NEW g, NEW h,
         Flattens(s, l, g), Flattens(t, m, h),
         NEW n \in 1 .. l, n <= m, \A i \in 1 .. n : s[i] = t[i]
  PROVE  g[n] = h[n]
  <1> SUFFICES ASSUME g[n] # h[n] PROVE FALSE
    OBVIOUS
  <1> DEFINE T == {k \in 1 .. n : g[k] # h[k]}
  <1>1. PICK k \in T : \A j \in T : k <= j
    <2>1. n \in T /\ T \in SUBSET Nat
      OBVIOUS
    <2> QED BY <2>1, LeastNumber
  <1>2. k \in 1 .. n /\ g[k] # h[k]
    OBVIOUS
  <1>3. /\ g[k] = IF k = 1 THEN s[k] ELSE g[k - 1] \o s[k]
        /\ h[k] = IF k = 1 THEN t[k] ELSE h[k - 1] \o t[k]
    <2>1. k \in 1 .. l /\ k \in 1 .. m
      BY <1>2
    <2>2. g = [i \in 1 .. l |-> IF i = 1 THEN s[i] ELSE g[i - 1] \o s[i]]
      BY DEF Flattens
    <2>3. h = [i \in 1 .. m |-> IF i = 1 THEN t[i] ELSE h[i - 1] \o t[i]]
      BY DEF Flattens
    <2> HIDE DEF T
    <2> QED BY <2>1, <2>2, <2>3, <1>2
  <1>4. k # 1
    BY <1>2, <1>3
  <1>5. k - 1 \in 1 .. n /\ ~(k <= k - 1)
    BY <1>2, <1>4
  <1>6. g[k - 1] = h[k - 1]
    BY <1>5, <1>1
  <1> QED BY <1>2, <1>3, <1>4, <1>6

LEMMA FlattenEmpty == FlattenSeq(<<>>) = <<>>
  BY DEF FlattenSeq

LEMMA FlattenAppend ==
  ASSUME NEW S, NEW s \in Seq(Seq(S)), NEW t \in Seq(S)
  PROVE  FlattenSeq(Append(s, t)) = FlattenSeq(s) \o t
  <1> DEFINE u == Append(s, t)
  <1>1. u \in Seq(Seq(S)) /\ Len(u) = Len(s) + 1 /\ u[Len(u)] = t
        /\ \A i \in 1 .. Len(s) : u[i] = s[i]
    OBVIOUS
  <1> HIDE DEF u
  <1>2. PICK h : Flattens(u, Len(u), h) /\ FlattenSeq(u) = h[Len(u)]
    BY <1>1, FlattenIs, SMTT(20)
  <1>3. h[Len(u)] = IF Len(u) = 1 THEN t ELSE h[Len(u) - 1] \o t
    <2>1. Len(u) \in 1 .. Len(u)
      BY <1>1
    <2> QED BY <2>1, <1>1, <1>2 DEF Flattens
  <1>4. CASE Len(s) = 0
    <2>1. s = <<>>
      BY <1>4
    <2> QED BY <1>1, <1>2, <1>3, <1>4, <2>1, FlattenEmpty DEF u
  <1>5. CASE Len(s) # 0
    <2>1. PICK g : Flattens(s, Len(s), g) /\ FlattenSeq(s) = g[Len(s)]
      BY <1>5, FlattenIs
    <2>2. Len(s) \in Nat /\ Len(u) \in Nat /\ Len(s) \in 1 .. Len(s) /\ Len(s) <= Len(u)
          /\ Len(u) - 1 = Len(s)
      BY <1>1, <1>5
    <2>3. \A i \in 1 .. Len(s) : s[i] = u[i]
      BY <1>1
    <2>4. g[Len(s)] = h[Len(s)]
      <3> DEFINE l == Len(s)
                 m == Len(u)
      <3>1. /\ l \in Nat /\ m \in Nat /\ l \in 1 .. l /\ l <= m
            /\ Flattens(s, l, g) /\ Flattens(u, m, h) /\ \A i \in 1 .. l : s[i] = u[i]
        BY <1>2, <2>1, <2>2, <2>3
      <3> HIDE DEF l, m
      <3>2. g[l] = h[l]
        BY <3>1, FlattensAgree
      <3> QED BY <3>2 DEF l
    <2> QED BY <1>2, <1>3, <1>5, <2>1, <2>2, <2>4 DEF u
  <1> QED BY <1>4, <1>5

LEMMA FlattenType ==
  ASSUME NEW S, NEW s \in Seq(Seq(S))
  PROVE  FlattenSeq(s) \in Seq(S)
  <1>1. CASE Len(s) = 0
    <2>1. s = <<>> /\ <<>> \in Seq(S)
      BY <1>1
    <2> QED BY <2>1, FlattenEmpty
  <1>2. CASE Len(s) # 0
    <2>1. PICK g : Flattens(s, Len(s), g) /\ FlattenSeq(s) = g[Len(s)]
      BY <1>2, FlattenIs
    <2> SUFFICES ASSUME g[Len(s)] \notin Seq(S) PROVE FALSE
      BY <2>1
    <2> DEFINE T == {k \in 1 .. Len(s) : g[k] \notin Seq(S)}
    <2>2. PICK k \in T : \A j \in T : k <= j
      <3>1. Len(s) \in T /\ T \in SUBSET Nat
        BY <1>2
      <3> QED BY <3>1, LeastNumber
    <2>3. k \in 1 .. Len(s) /\ g[k] \notin Seq(S) /\ s[k] \in Seq(S)
      OBVIOUS
    <2>4. g[k] = IF k = 1 THEN s[k] ELSE g[k - 1] \o s[k]
      BY <2>1, <2>3 DEF Flattens
    <2>5. k # 1
      BY <2>3, <2>4
    <2>6. k - 1 \in 1 .. Len(s) /\ ~(k <= k - 1)
      BY <2>3, <2>5
    <2>7. g[k - 1] \in Seq(S)
      BY <2>2, <2>6
    <2> QED BY <2>3, <2>4, <2>5, <2>7
  <1> QED BY <1>1, <1>2

LEMMA ConcatAssociates ==
  ASSUME NEW S, NEW a \in Seq(S), NEW b \in Seq(S), NEW c \in Seq(S)
  PROVE  (a \o b) \o c = a \o (b \o c)
  OBVIOUS

LEMMA ConcatAppends ==
  ASSUME NEW S, NEW a \in Seq(S), NEW b \in Seq(S), NEW x \in S
  PROVE  a \o Append(b, x) = Append(a \o b, x) /\ a \o b \in Seq(S)
  OBVIOUS

LEMMA ConcatLength ==
  ASSUME NEW S, NEW a \in Seq(S), NEW b \in Seq(S)
  PROVE  Len(a \o b) = Len(a) + Len(b)
  OBVIOUS

LEMMA FlattenStep ==
  ASSUME NEW S, NEW s \in Seq(Seq(S)), NEW p \in Seq(Seq(S)), NEW x \in Seq(S),
         FlattenSeq(s \o p) = FlattenSeq(s) \o FlattenSeq(p)
  PROVE  FlattenSeq(s \o Append(p, x)) = FlattenSeq(s) \o FlattenSeq(Append(p, x))
  <1>1. s \o Append(p, x) = Append(s \o p, x) /\ s \o p \in Seq(Seq(S))
    BY ConcatAppends
  <1>2. FlattenSeq(Append(s \o p, x)) = FlattenSeq(s \o p) \o x
    BY <1>1, FlattenAppend
  <1>3. FlattenSeq(Append(p, x)) = FlattenSeq(p) \o x
    BY FlattenAppend
  <1>4. FlattenSeq(s) \in Seq(S) /\ FlattenSeq(p) \in Seq(S)
    BY FlattenType
  <1>5. (FlattenSeq(s) \o FlattenSeq(p)) \o x = FlattenSeq(s) \o (FlattenSeq(p) \o x)
    BY <1>4, ConcatAssociates
  <1> QED BY <1>1, <1>2, <1>3, <1>5

LEMMA FlattenConcat ==
  ASSUME NEW S, NEW s \in Seq(Seq(S)), NEW t \in Seq(Seq(S))
  PROVE  FlattenSeq(s \o t) = FlattenSeq(s) \o FlattenSeq(t)
  <1> DEFINE Part(k) == SubSeq(t, 1, k)
             Holds(k) == FlattenSeq(s \o Part(k)) = FlattenSeq(s) \o FlattenSeq(Part(k))
             T == {k \in 0 .. Len(t) : ~Holds(k)}
  <1>1. Part(Len(t)) = t
    OBVIOUS
  <1> SUFFICES ASSUME ~Holds(Len(t)) PROVE FALSE
    BY <1>1
  <1>2. PICK k \in T : \A j \in T : k <= j
    <2>1. Len(t) \in T /\ T \in SUBSET Nat
      OBVIOUS
    <2> HIDE DEF T
    <2> QED BY <2>1, LeastNumber
  <1>3. k \in 0 .. Len(t) /\ ~Holds(k)
    OBVIOUS
  <1>4. CASE k = 0
    <2>1. Part(0) = <<>> /\ s \o <<>> = s /\ FlattenSeq(s) \in Seq(S)
      BY FlattenType
    <2>2. FlattenSeq(s) \o <<>> = FlattenSeq(s)
      BY <2>1
    <2> QED BY <2>1, <2>2, <1>3, <1>4, FlattenEmpty
  <1>5. CASE k # 0
    <2>1. k - 1 \in 0 .. Len(t) /\ ~(k <= k - 1)
      BY <1>3, <1>5
    <2>2. Holds(k - 1)
      BY <2>1, <1>2
    <2> HIDE DEF T
    <2>3. Part(k - 1) \in Seq(Seq(S)) /\ t[k] \in Seq(S) /\ Part(k) = Append(Part(k - 1), t[k])
      <3>1. k \in 1 .. Len(t)
        BY <1>3, <1>5
      <3>2. t[k] \in Seq(S)
        BY <3>1, ElementOfSeq
      <3>3. Part(k - 1) \in Seq(Seq(S))
        BY <3>1
      <3>4. Part(k) = Append(Part(k - 1), t[k])
        BY <3>1
      <3> QED BY <3>2, <3>3, <3>4
    <2>4. FlattenSeq(s \o Part(k - 1)) = FlattenSeq(s) \o FlattenSeq(Part(k - 1))
      BY <2>2
    <2> HIDE DEF Part
    <2>5. FlattenSeq(s \o Append(Part(k - 1), t[k]))
            = FlattenSeq(s) \o FlattenSeq(Append(Part(k - 1), t[k]))
      BY <2>3, <2>4, FlattenStep
    <2> QED BY <1>3, <2>3, <2>5
  <1> QED BY <1>4, <1>5

-----------------------------------------------------------------------------
(* ReadInOrder. With one worker the messages Send took are, in order, those*)
(* that are done with, the one the worker holds, and those in the queue. Of*)
(* those done with, what was not dropped is, in order, what the far session*)
(* was given and what is on the wire, up to what a lost carrier took along.*)
Octets == [msg : Message, byte : {1, 2}]
Piece(d, i) == IF Seal(i) \in d THEN <<>> ELSE Text(i)
Sent(d, n) == FlattenSeq([i \in 1 .. n |-> Piece(d, i)])

(* What the far side makes of a packet, and of those on the wire.          *)
Opened(k, packet) == IF k = "jazz" THEN Incoming(packet) ELSE packet
Carried(k) ==
  {p \in Sealed \cup {EncodeDataPacket(m) : m \in Sealed} : Opened(k, p) \in Sealed}
OnWire(k, w) == FlattenSeq([i \in 1 .. Len(w) |-> Text(Head(Opened(k, w[i])))])

Starts(a, b) == \E rest \in Seq(Octets) : b = a \o rest

Held == IF worker[1].pc = "sending" THEN 1 ELSE 0
Done == Len(taken) - Len(queue) - Held
Lost ==
  \/ kind = "jazz" /\ dc = "closed"
  \/ kind = "wbstream" /\ room \in {"down", "left"}
  \/ kind = "telemost" /\ tdc = "closed"

TakenInOrder ==
  /\ taken \in Seq(Sealed) /\ Len(taken) <= Count
  /\ Len(taken) = writer.msg - (IF writer.pc = "idle" THEN 0 ELSE 1)
  /\ \A i \in 1 .. Len(taken) : taken[i] = Seal(i)
QueuedInOrder ==
  /\ Done >= 0
  /\ \A i \in 1 .. Len(queue) : queue[i] = Seal(Done + Held + i)
  /\ worker[1].pc = "sending" => worker[1].item = Seal(Done + 1)
  /\ \A w \in Worker \ {1} : worker[w].pc = "none"
  /\ dropped \subseteq {Seal(i) : i \in 1 .. Done}
DroppedForSize ==
  \/ kind = "wbstream" \/ \A m \in dropped : Head(m) \in Large
  \/ kind = "jazz" /\ dc = "closed"
  \/ kind = "telemost" /\ tdc \in {"stopped", "closed"}
Flow ==
  /\ wire \in Seq(Carried(kind)) /\ buf \in Seq(Octets) /\ received \in Seq(Octets)
  /\ Starts(received \o buf, Sent(dropped, Done))
  /\ "far" \notin connClosed =>
       /\ Starts((received \o buf) \o OnWire(kind, wire), Sent(dropped, Done))
       /\ Lost \/ (received \o buf) \o OnWire(kind, wire) = Sent(dropped, Done)

OrderInv == TakenInOrder /\ QueuedInOrder /\ DroppedForSize /\ Flow

LEMMA Seals ==
  /\ \A i \in Message : Seal(i) \in Sealed /\ Head(Seal(i)) = i
  /\ \A m \in Sealed : Head(m) \in Message /\ m = Seal(Head(m))
  /\ \A i, j \in Message : Seal(i) = Seal(j) => i = j
  BY DEF Sealed, Seal

LEMMA TextType == \A i \in Message : Text(i) \in Seq(Octets)
  <1> TAKE i \in Message
  <1>1. [msg |-> i, byte |-> 1] \in Octets /\ [msg |-> i, byte |-> 2] \in Octets
    BY DEF Octets
  <1> QED BY <1>1 DEF Text

LEMMA SentType ==
  ASSUME NEW d, NEW n \in 0 .. Count
  PROVE  /\ [i \in 1 .. n |-> Piece(d, i)] \in Seq(Seq(Octets))
         /\ Sent(d, n) \in Seq(Octets)
  <1>1. \A i \in 1 .. n : Piece(d, i) \in Seq(Octets)
    BY PathBounds, TextType DEF Piece, Message
  <1>2. [i \in 1 .. n |-> Piece(d, i)] \in Seq(Seq(Octets))
    BY <1>1
  <1> QED BY <1>2, FlattenType DEF Sent

LEMMA SentNext ==
  ASSUME NEW d, NEW n \in Nat, n < Count
  PROVE  Sent(d, n + 1) = Sent(d, n) \o Piece(d, n + 1)
  <1> DEFINE s == [i \in 1 .. n |-> Piece(d, i)]
  <1>1. s \in Seq(Seq(Octets)) /\ Piece(d, n + 1) \in Seq(Octets)
    BY PathBounds, SentType, TextType DEF Piece, Message
  <1>2. [i \in 1 .. n + 1 |-> Piece(d, i)] = Append(s, Piece(d, n + 1))
    OBVIOUS
  <1> QED BY <1>1, <1>2, FlattenAppend DEF Sent

LEMMA SentSame ==
  ASSUME NEW d, NEW e, NEW n \in Nat, \A i \in 1 .. n : Seal(i) \in d <=> Seal(i) \in e
  PROVE  Sent(d, n) = Sent(e, n)
  <1>1. \A i \in 1 .. n : Piece(d, i) = Piece(e, i)
    BY DEF Piece
  <1>2. [i \in 1 .. n |-> Piece(d, i)] = [i \in 1 .. n |-> Piece(e, i)]
    BY <1>1
  <1> QED BY <1>2 DEF Sent

LEMMA Splits ==
  ASSUME NEW S, NEW s \in Seq(S), NEW k \in 0 .. Len(s)
  PROVE  /\ SubSeq(s, 1, k) \in Seq(S) /\ SubSeq(s, k + 1, Len(s)) \in Seq(S)
         /\ s = SubSeq(s, 1, k) \o SubSeq(s, k + 1, Len(s))
  <1>1. SubSeq(s, 1, k) \in Seq(S)
    BY SubSeqProperties
  <1>2. SubSeq(s, k + 1, Len(s)) \in Seq(S)
    BY SubSeqProperties
  <1>3. 1 \in 1 .. Len(s) + 1 /\ k \in 1 - 1 .. Len(s) /\ Len(s) \in k .. Len(s)
    OBVIOUS
  <1>4. SubSeq(s, 1, k) \o SubSeq(s, k + 1, Len(s)) = SubSeq(s, 1, Len(s))
    BY <1>3, ConcatAdjacentSubSeq
  <1> QED BY <1>1, <1>2, <1>4, SubSeqFull

LEMMA SentStarts ==
  ASSUME NEW d, NEW n \in 0 .. Count, NEW k \in 0 .. n
  PROVE  Starts(Sent(d, k), Sent(d, n))
  <1> DEFINE s == [i \in 1 .. n |-> Piece(d, i)]
             a == SubSeq(s, 1, k)
             b == SubSeq(s, k + 1, n)
  <1>1. s \in Seq(Seq(Octets)) /\ Len(s) = n
    <2>1. n \in Nat
      BY PathBounds
    <2>2. s \in Seq(Seq(Octets))
      BY SentType
    <2>3. Len(s) = n
      BY <2>1
    <2> QED BY <2>2, <2>3
  <1>2. a \in Seq(Seq(Octets)) /\ b \in Seq(Seq(Octets)) /\ s = a \o b
    <2> HIDE DEF s
    <2> QED BY <1>1, Splits
  <1>3. a = [i \in 1 .. k |-> Piece(d, i)]
    BY <1>1
  <1> HIDE DEF a, b
  <1>4. FlattenSeq(s) = FlattenSeq(a) \o FlattenSeq(b)
    BY <1>2, FlattenConcat
  <1>5. FlattenSeq(b) \in Seq(Octets)
    BY <1>2, FlattenType
  <1> QED BY <1>3, <1>4, <1>5 DEF Starts, Sent

LEMMA StartsTrans ==
  ASSUME NEW a \in Seq(Octets), NEW b \in Seq(Octets), NEW c \in Seq(Octets),
         Starts(a, b), Starts(b, c)
  PROVE  Starts(a, c)
  <1>1. PICK r \in Seq(Octets) : b = a \o r
    BY DEF Starts
  <1>2. PICK q \in Seq(Octets) : c = b \o q
    BY DEF Starts
  <1>3. c = a \o (r \o q) /\ r \o q \in Seq(Octets)
    BY <1>1, <1>2, ConcatAssociates
  <1> QED BY <1>3 DEF Starts

LEMMA StartsConcat ==
  ASSUME NEW a \in Seq(Octets), NEW b \in Seq(Octets)
  PROVE  Starts(a, a \o b)
  BY DEF Starts

LEMMA StartsPrefix ==
  ASSUME NEW a \in Seq(Octets), NEW b \in Seq(Octets), Starts(a, b)
  PROVE  IsPrefix(a, b)
  <1>1. PICK r \in Seq(Octets) : b = a \o r
    BY DEF Starts
  <1>2. Len(a) <= Len(a \o r) /\ SubSeq(a, 1, Len(a)) = SubSeq(a \o r, 1, Len(a))
    OBVIOUS
  <1> QED BY <1>1, <1>2 DEF IsPrefix

(* Packets on the wire.                                                    *)
LEMMA OpenedType ==
  ASSUME NEW k, NEW w \in Seq(Carried(k))
  PROVE  /\ \A i \in 1 .. Len(w) : Text(Head(Opened(k, w[i]))) \in Seq(Octets)
         /\ [i \in 1 .. Len(w) |-> Text(Head(Opened(k, w[i])))] \in Seq(Seq(Octets))
         /\ OnWire(k, w) \in Seq(Octets)
  <1>1. \A p \in Carried(k) : Opened(k, p) \in Sealed
    BY DEF Carried
  <1>2. \A i \in 1 .. Len(w) : w[i] \in Carried(k)
    OBVIOUS
  <1>3. \A i \in 1 .. Len(w) : Text(Head(Opened(k, w[i]))) \in Seq(Octets)
    BY <1>1, <1>2, Seals, TextType
  <1>4. [i \in 1 .. Len(w) |-> Text(Head(Opened(k, w[i])))] \in Seq(Seq(Octets))
    BY <1>3
  <1> QED BY <1>3, <1>4, FlattenType DEF OnWire

LEMMA WirePut ==
  ASSUME NEW k, NEW w \in Seq(Carried(k)), NEW p \in Carried(k)
  PROVE  OnWire(k, Append(w, p)) = OnWire(k, w) \o Text(Head(Opened(k, p)))
  <1> DEFINE f(v) == [i \in 1 .. Len(v) |-> Text(Head(Opened(k, v[i])))]
             t == Text(Head(Opened(k, p)))
  <1>1. f(w) \in Seq(Seq(Octets))
    BY OpenedType
  <1>2. t \in Seq(Octets)
    BY Seals, TextType DEF Carried
  <1>3. f(Append(w, p)) = Append(f(w), t)
    OBVIOUS
  <1> HIDE DEF f
  <1>4. FlattenSeq(f(Append(w, p))) = FlattenSeq(f(w)) \o t
    BY <1>1, <1>2, <1>3, FlattenAppend
  <1> QED BY <1>4 DEF OnWire, f

LEMMA WireSplit ==
  ASSUME NEW k, NEW v \in Seq(Carried(k)), NEW w \in Seq(Carried(k))
  PROVE  OnWire(k, v \o w) = OnWire(k, v) \o OnWire(k, w)
  <1> DEFINE f(u) == [i \in 1 .. Len(u) |-> Text(Head(Opened(k, u[i])))]
  <1>1. f(v) \in Seq(Seq(Octets)) /\ f(w) \in Seq(Seq(Octets))
    BY OpenedType
  <1>2. f(v \o w) = f(v) \o f(w)
    OBVIOUS
  <1> HIDE DEF f
  <1>3. FlattenSeq(f(v \o w)) = FlattenSeq(f(v)) \o FlattenSeq(f(w))
    BY <1>1, <1>2, FlattenConcat
  <1> QED BY <1>3 DEF OnWire, f

LEMMA WireHead ==
  ASSUME NEW k, NEW w \in Seq(Carried(k)), w # <<>>
  PROVE  /\ Tail(w) \in Seq(Carried(k)) /\ Opened(k, Head(w)) \in Sealed
         /\ OnWire(k, w) = Text(Head(Opened(k, Head(w)))) \o OnWire(k, Tail(w))
  <1>1. Head(w) \in Carried(k) /\ Tail(w) \in Seq(Carried(k)) /\ w = <<Head(w)>> \o Tail(w)
    OBVIOUS
  <1>2. Opened(k, Head(w)) \in Sealed
    BY <1>1 DEF Carried
  <1> DEFINE t == Text(Head(Opened(k, Head(w))))
  <1>3. t \in Seq(Octets)
    BY <1>2, Seals, TextType
  <1>4. OnWire(k, <<Head(w)>>) = t
    <2>1. OnWire(k, <<>>) = <<>>
      BY FlattenEmpty DEF OnWire
    <2>2. <<>> \in Seq(Carried(k)) /\ Append(<<>>, Head(w)) = <<Head(w)>>
      OBVIOUS
    <2>3. OnWire(k, <<Head(w)>>) = <<>> \o t
      BY <1>1, <2>1, <2>2, WirePut
    <2> QED BY <1>3, <2>3
  <1>5. <<Head(w)>> \in Seq(Carried(k))
    BY <1>1
  <1>6. OnWire(k, <<Head(w)>> \o Tail(w)) = OnWire(k, <<Head(w)>>) \o OnWire(k, Tail(w))
    BY <1>1, <1>5, WireSplit
  <1> QED BY <1>1, <1>2, <1>4, <1>6

LEMMA WireCut ==
  ASSUME NEW k, NEW w \in Seq(Carried(k)), NEW n \in 0 .. Len(w)
  PROVE  /\ SubSeq(w, 1, n) \in Seq(Carried(k))
         /\ Starts(OnWire(k, SubSeq(w, 1, n)), OnWire(k, w))
  <1> DEFINE a == SubSeq(w, 1, n)
             b == SubSeq(w, n + 1, Len(w))
  <1>1. a \in Seq(Carried(k)) /\ b \in Seq(Carried(k)) /\ w = a \o b
    BY Splits
  <1> HIDE DEF a, b
  <1>2. OnWire(k, w) = OnWire(k, a) \o OnWire(k, b)
    BY <1>1, WireSplit
  <1>3. OnWire(k, a) \in Seq(Octets) /\ OnWire(k, b) \in Seq(Octets)
    BY <1>1, OpenedType
  <1>4. Starts(OnWire(k, a), OnWire(k, w))
    BY <1>2, <1>3, StartsConcat
  <1> QED BY <1>1, <1>4 DEF a

LEMMA StartsExtend ==
  ASSUME NEW a \in Seq(Octets), NEW b \in Seq(Octets), NEW c \in Seq(Octets), Starts(b, c)
  PROVE  Starts(a \o b, a \o c)
  <1>1. PICK r \in Seq(Octets) : c = b \o r
    BY DEF Starts
  <1>2. a \o c = (a \o b) \o r
    BY <1>1, ConcatAssociates
  <1> QED BY <1>1, <1>2 DEF Starts

LEMMA StartsSelf ==
  ASSUME NEW a \in Seq(Octets)
  PROVE  Starts(a, a)
  <1>1. a = a \o <<>> /\ <<>> \in Seq(Octets)
    OBVIOUS
  <1> QED BY <1>1 DEF Starts

LEMMA Counts ==
  ASSUME QueueTypes, TakenInOrder, QueuedInOrder
  PROVE  /\ Len(taken) \in 0 .. Count /\ Len(queue) \in Nat /\ Held \in {0, 1}
         /\ Done \in 0 .. Len(taken) /\ Done \in 0 .. Count
         /\ Len(taken) = Done + Held + Len(queue)
         /\ worker[1].pc = "sending" => Held = 1 /\ Done + 1 \in Message
         /\ worker[1].pc # "sending" => Held = 0
  BY PathBounds DEF QueueTypes, TakenInOrder, QueuedInOrder, Done, Held, Message

(* The carrier lives on, or takes with it the end of what is on the wire.  *)
LEMMA FlowStays ==
  ASSUME QueueTypes, TakenInOrder, QueuedInOrder, Flow,
         UNCHANGED <<kind, connClosed, buf, received, dropped>>, Done' = Done,
         UNCHANGED wire \/ (LoseWire /\ Lost'), Lost => Lost'
  PROVE  Flow'
  <1> DEFINE r == received \o buf
             s == Sent(dropped, Done)
  <1>1. r \in Seq(Octets) /\ s \in Seq(Octets) /\ OnWire(kind, wire) \in Seq(Octets)
    BY Counts, SentType, OpenedType DEF Flow
  <1>2. PICK n \in 0 .. Len(wire) : wire' = SubSeq(wire, 1, n) \/ wire' = wire
    BY DEF LoseWire, Flow
  <1>3. /\ wire' \in Seq(Carried(kind))
        /\ Starts(OnWire(kind, wire'), OnWire(kind, wire))
    BY <1>1, <1>2, WireCut, StartsSelf DEF Flow
  <1>4. OnWire(kind, wire') \in Seq(Octets)
    BY <1>3, OpenedType
  <1>5. /\ r \o OnWire(kind, wire') \in Seq(Octets) /\ r \o OnWire(kind, wire) \in Seq(Octets)
        /\ Starts(r \o OnWire(kind, wire'), r \o OnWire(kind, wire))
    <2> HIDE DEF r
    <2>1. Starts(r \o OnWire(kind, wire'), r \o OnWire(kind, wire))
      BY <1>1, <1>3, <1>4, StartsExtend
    <2>2. r \o OnWire(kind, wire') \in Seq(Octets)
      BY <1>1, <1>4
    <2> QED BY <1>1, <2>1, <2>2
  <1>6. Sent(dropped, Done)' = s /\ (received \o buf)' = r
    OBVIOUS
  <1> HIDE DEF r, s
  <1>7. "far" \notin connClosed => Starts(r \o OnWire(kind, wire'), s)
    BY <1>1, <1>5, StartsTrans DEF Flow, r, s
  <1>8. "far" \notin connClosed => Lost' \/ r \o OnWire(kind, wire') = s
    BY DEF Flow, r, s
  <1>9. Starts(r, s) /\ OnWire(kind, wire)' = OnWire(kind, wire')
    BY DEF Flow, r, s
  <1> QED BY <1>3, <1>6, <1>7, <1>8, <1>9 DEF Flow

(* What connects a carrier, what fails, and its Close.                     *)
LEMMA CarrierStep ==
  ASSUME PathInv, OrderInv, UNCHANGED <<kind, muxVars, queue, taken, dropped>>,
         UNCHANGED wire \/ (LoseWire /\ Lost'), Lost => Lost', DroppedForSize',
         worker'[1].pc = "sending" <=> worker[1].pc = "sending",
         worker'[1].pc = "sending" => worker'[1].item = worker[1].item,
         \A w \in Worker \ {1} : worker'[w].pc = "none"
  PROVE  OrderInv'
  <1>1. Done' = Done /\ Held' = Held
    BY DEF Done, Held
  <1>2. TakenInOrder'
    BY DEF OrderInv, TakenInOrder
  <1>3. QueuedInOrder'
    BY <1>1 DEF OrderInv, QueuedInOrder
  <1>4. Flow'
    BY <1>1, FlowStays DEF OrderInv, PathInv, PathTypes
  <1> QED BY <1>2, <1>3, <1>4 DEF OrderInv

LEMMA TakeOrder ==
  ASSUME PathInv, OrderInv, Take(1), UNCHANGED <<kind, muxVars, wire, taken, dropped, dc, room, tdc>>
  PROVE  OrderInv'
  <1> USE PathBounds
  <1>0. QueueTypes /\ TakenInOrder /\ QueuedInOrder
    BY DEF PathInv, PathTypes, OrderInv
  <1>1. /\ worker'[1].pc = "sending" /\ worker'[1].item = queue[1] /\ worker[1].pc = "waiting"
        /\ queue' = Tail(queue) /\ queue # <<>>
        /\ \A w \in Worker \ {1} : worker'[w].pc = "none"
    BY <1>0 DEF Take, QueueTypes, QueuedInOrder
  <1>2. /\ Len(queue') = Len(queue) - 1 /\ Len(queue) \in Nat /\ Len(queue) >= 1
        /\ \A i \in 1 .. Len(queue') : queue'[i] = queue[i + 1]
    BY <1>0, <1>1 DEF QueueTypes
  <1>3. Held' = 1 /\ Held = 0
    BY <1>1 DEF Held
  <1>4. Done' = Done
    BY <1>0, <1>2, <1>3, Counts DEF Done
  <1>5. Done \in Nat /\ \A i \in 1 .. Len(queue) : queue[i] = Seal(Done + i)
    BY <1>0, <1>3, Counts DEF QueuedInOrder
  <1>6. \A i \in 1 .. Len(queue') : queue'[i] = Seal(Done' + Held' + i)
    <2> TAKE i \in 1 .. Len(queue')
    <2>1. i + 1 \in 1 .. Len(queue) /\ Done + 1 + i = Done + (i + 1)
      BY <1>2, <1>5
    <2>2. queue'[i] = Seal(Done + (i + 1))
      BY <1>2, <1>5, <2>1
    <2> QED BY <1>3, <1>4, <2>1, <2>2
  <1>7. worker'[1].item = Seal(Done' + 1)
    BY <1>1, <1>2, <1>4, <1>5
  <1>8. QueuedInOrder'
    BY <1>0, <1>1, <1>4, <1>6, <1>7 DEF QueuedInOrder
  <1>9. TakenInOrder'
    BY <1>0 DEF TakenInOrder
  <1>10. Flow'
    BY <1>0, <1>4, FlowStays DEF OrderInv, Lost
  <1>11. DroppedForSize'
    BY DEF OrderInv, DroppedForSize
  <1> QED BY <1>8, <1>9, <1>10, <1>11 DEF OrderInv

(* The worker is done with its message.                                    *)
LEMMA WorkerDone ==
  ASSUME QueueTypes, TakenInOrder, QueuedInOrder, worker[1].pc = "sending",
         NEW pc \in {"waiting", "gone"}, Goes(1, pc), UNCHANGED <<queue, taken, writer>>,
         dropped' \subseteq dropped \cup {worker[1].item}
  PROVE  TakenInOrder' /\ QueuedInOrder' /\ Done' = Done + 1
  <1> USE PathBounds
  <1>1. /\ worker'[1].pc # "sending" /\ \A w \in Worker \ {1} : worker'[w].pc = "none"
    BY DEF Goes, QueueTypes, QueuedInOrder
  <1>2. Held = 1 /\ Held' = 0 /\ Done \in Nat
    BY <1>1, Counts DEF Held
  <1>3. Done' = Done + 1
    BY <1>2, Counts DEF Done
  <1>4. \A i \in 1 .. Len(queue) : queue[i] = Seal(Done + 1 + i)
    BY <1>2 DEF QueuedInOrder
  <1>5. \A i \in 1 .. Len(queue') : queue'[i] = Seal(Done' + Held' + i)
    BY <1>2, <1>3, <1>4
  <1>6. dropped' \subseteq {Seal(i) : i \in 1 .. Done'}
    BY <1>2, <1>3 DEF QueuedInOrder
  <1>7. QueuedInOrder'
    BY <1>1, <1>2, <1>3, <1>5, <1>6 DEF QueuedInOrder
  <1>8. TakenInOrder'
    BY DEF TakenInOrder
  <1> QED BY <1>3, <1>7, <1>8

LEMMA NotYetDropped ==
  ASSUME QueueTypes, TakenInOrder, QueuedInOrder, worker[1].pc = "sending"
  PROVE  Done \in Nat /\ Done + 1 \in Message /\ Done < Count /\ Seal(Done + 1) \notin dropped
  <1>1. Done \in Nat /\ Done + 1 \in Message /\ Done < Count
    BY PathBounds, Counts DEF Message
  <1>2. \A i \in 1 .. Done : i \in Message /\ i # Done + 1
    BY <1>1, PathBounds DEF Message
  <1> QED BY <1>1, <1>2, Seals DEF QueuedInOrder

LEMMA PutOrder ==
  ASSUME PathInv, OrderInv, worker[1].pc = "sending", ~Lost,
         NEW packet \in Carried(kind), Opened(kind, packet) = worker[1].item, Put(1, packet),
         UNCHANGED <<kind, muxVars, queue, taken, dc, room, tdc>>
  PROVE  OrderInv'
  <1> DEFINE r == received \o buf
             s == Sent(dropped, Done)
             t == Text(Done + 1)
  <1>0. QueueTypes /\ TakenInOrder /\ QueuedInOrder /\ Flow /\ DroppedForSize
    BY DEF PathInv, PathTypes, OrderInv
  <1>1. Goes(1, "waiting") /\ wire' = Append(wire, packet) /\ dropped' = dropped
    BY DEF Put
  <1>2. TakenInOrder' /\ QueuedInOrder' /\ Done' = Done + 1
    BY <1>0, <1>1, WorkerDone
  <1>3. Done \in Nat /\ Done + 1 \in Message /\ Done < Count /\ Seal(Done + 1) \notin dropped
    BY <1>0, NotYetDropped
  <1>4. worker[1].item = Seal(Done + 1)
    BY <1>0 DEF QueuedInOrder
  <1>5. t \in Seq(Octets) /\ Text(Head(Opened(kind, packet))) = t
    BY <1>3, <1>4, TextType, Seals
  <1>6. r \in Seq(Octets) /\ s \in Seq(Octets) /\ OnWire(kind, wire) \in Seq(Octets)
    BY <1>0, Counts, SentType, OpenedType DEF Flow
  <1>7. Sent(dropped', Done') = s \o t
    BY <1>1, <1>2, <1>3, SentNext DEF Piece
  <1>8. wire' \in Seq(Carried(kind)) /\ OnWire(kind, wire') = OnWire(kind, wire) \o t
    <2>1. wire \in Seq(Carried(kind))
      BY <1>0 DEF Flow
    <2>2. OnWire(kind, Append(wire, packet))
            = OnWire(kind, wire) \o Text(Head(Opened(kind, packet)))
      BY <2>1, WirePut
    <2>3. Append(wire, packet) \in Seq(Carried(kind))
      BY <2>1
    <2> QED BY <1>1, <1>5, <2>2, <2>3
  <1> HIDE DEF r, s, t
  <1>9. "far" \notin connClosed => r \o OnWire(kind, wire) = s
    BY <1>0 DEF Flow, r, s
  <1>a. r \in Seq(Octets) /\ s \in Seq(Octets) /\ t \in Seq(Octets)
    BY <1>5, <1>6
  <1>10. "far" \notin connClosed => r \o OnWire(kind, wire') = s \o t
    <2>1. r \o (OnWire(kind, wire) \o t) = (r \o OnWire(kind, wire)) \o t
      BY <1>a, <1>6, ConcatAssociates, SMTT(60)
    <2> QED BY <1>8, <1>9, <2>1
  <1>11. s \o t \in Seq(Octets) /\ Starts(s \o t, s \o t)
    <2>1. s \o t \in Seq(Octets)
      BY <1>a
    <2> QED BY <2>1, StartsSelf
  <1>12. Starts(r, s \o t)
    <2>1. Starts(r, s) /\ Starts(s, s \o t)
      BY <1>0, <1>5, <1>6, StartsConcat DEF Flow, r, s
    <2> QED BY <1>6, <1>11, <2>1, StartsTrans
  <1>13. (received \o buf)' = r /\ buf' \in Seq(Octets) /\ received' \in Seq(Octets)
    BY <1>0 DEF Flow, r
  <1>14. Flow'
    BY <1>7, <1>8, <1>10, <1>11, <1>12, <1>13 DEF Flow
  <1>15. DroppedForSize'
    BY <1>0, <1>1 DEF DroppedForSize
  <1> QED BY <1>2, <1>14, <1>15 DEF OrderInv

LEMMA DropOrder ==
  ASSUME PathInv, OrderInv, worker[1].pc = "sending",
         NEW pc \in {"waiting", "gone"}, Drop(1, pc),
         UNCHANGED <<kind, muxVars, queue, taken, dc, room, tdc>>, DroppedForSize'
  PROVE  OrderInv'
  <1> DEFINE r == received \o buf
             s == Sent(dropped, Done)
  <1>0. QueueTypes /\ TakenInOrder /\ QueuedInOrder /\ Flow
    BY DEF PathInv, PathTypes, OrderInv
  <1>1. Goes(1, pc) /\ wire' = wire /\ dropped' = dropped \cup {worker[1].item}
    BY DEF Drop
  <1>2. TakenInOrder' /\ QueuedInOrder' /\ Done' = Done + 1
    BY <1>0, <1>1, WorkerDone
  <1>3. Done \in Nat /\ Done + 1 \in Message /\ Done < Count
    BY <1>0, NotYetDropped
  <1>4. worker[1].item = Seal(Done + 1)
    BY <1>0 DEF QueuedInOrder
  <1>5. Sent(dropped', Done) = s
    <2>1. \A i \in 1 .. Done : Seal(i) # Seal(Done + 1)
      BY <1>3, Seals, PathBounds DEF Message
    <2>2. \A i \in 1 .. Done : Seal(i) \in dropped' <=> Seal(i) \in dropped
      BY <1>1, <1>4, <2>1
    <2> QED BY <1>3, <2>2, SentSame
  <1>6. s \in Seq(Octets)
    BY <1>0, Counts, SentType
  <1>7. Sent(dropped', Done') = s
    <2>1. Sent(dropped', Done + 1) = Sent(dropped', Done) \o Piece(dropped', Done + 1)
      BY <1>3, SentNext
    <2>2. Piece(dropped', Done + 1) = <<>>
      BY <1>1, <1>4 DEF Piece
    <2> HIDE DEF s
    <2>3. s \o <<>> = s
      BY <1>6
    <2> QED BY <1>2, <1>5, <2>1, <2>2, <2>3
  <1>8. Flow'
    BY <1>0, <1>1, <1>7 DEF Flow, Lost
  <1> QED BY <1>2, <1>8 DEF OrderInv

LEMMA EnqueueOrder ==
  ASSUME PathInv, OrderInv, SendEnqueues
  PROVE  OrderInv'
  <1> USE PathBounds
  <1>0. QueueTypes /\ TakenInOrder /\ QueuedInOrder /\ Flow /\ DroppedForSize /\ MuxTypeOK
    BY DEF PathInv, PathTypes, OrderInv
  <1> DEFINE m == Seal(writer.msg)
  <1>1. /\ writer.pc = "enqueue" /\ writer' = [writer EXCEPT !.pc = "idle"]
        /\ queue' = Append(queue, m) /\ taken' = Append(taken, m)
        /\ UNCHANGED <<kind, connClosed, buf, received, worker, wire, dropped, peerVars>>
    BY DEF SendEnqueues, Enqueue, WriteGoesOn
  <1>2. writer'.pc = "idle" /\ writer'.msg = writer.msg /\ writer.msg \in Message
        /\ writer.msg = Len(taken) + 1 /\ m \in Sealed
    BY <1>0, <1>1, Counts, Seals DEF MuxTypeOK, TakenInOrder, Message
  <1> HIDE DEF m
  <1>3. /\ Len(taken') = Len(taken) + 1 /\ taken' \in Seq(Sealed)
        /\ \A i \in 1 .. Len(taken) : taken'[i] = taken[i]
        /\ taken'[Len(taken) + 1] = m
    <2>1. taken \in Seq(Sealed)
      BY <1>0 DEF TakenInOrder
    <2> QED BY <1>1, <1>2, <2>1
  <1>4. /\ Len(queue') = Len(queue) + 1 /\ Len(queue) \in Nat
        /\ \A i \in 1 .. Len(queue) : queue'[i] = queue[i]
        /\ queue'[Len(queue) + 1] = m
    BY <1>0, <1>1, <1>2 DEF QueueTypes
  <1>5. Held' = Held /\ Done' = Done
    BY <1>0, <1>1, <1>3, <1>4, Counts DEF Held, Done
  <1>6. \A i \in 1 .. Len(taken') : taken'[i] = Seal(i)
    <2> TAKE i \in 1 .. Len(taken')
    <2>1. CASE i \in 1 .. Len(taken)
      BY <1>0, <1>3, <2>1 DEF TakenInOrder
    <2>2. CASE i = Len(taken) + 1
      BY <1>2, <1>3, <2>2 DEF m
    <2> QED BY <1>0, <1>3, <2>1, <2>2, Counts
  <1>7. \A i \in 1 .. Len(queue') : queue'[i] = Seal(Done' + Held' + i)
    <2> TAKE i \in 1 .. Len(queue')
    <2>1. CASE i \in 1 .. Len(queue)
      BY <1>0, <1>4, <1>5, <2>1 DEF QueuedInOrder
    <2>2. CASE i = Len(queue) + 1
      <3>1. Done + Held + i = writer.msg
        BY <1>0, <1>2, <2>2, Counts
      <3> QED BY <1>4, <1>5, <2>2, <3>1 DEF m
    <2> QED BY <1>4, <2>1, <2>2
  <1>8. TakenInOrder'
    BY <1>0, <1>2, <1>3, <1>6, Counts DEF TakenInOrder, Message
  <1>9. QueuedInOrder'
    BY <1>0, <1>1, <1>5, <1>7 DEF QueuedInOrder
  <1>10. Flow'
    BY <1>0, <1>1, <1>5, FlowStays DEF Lost
  <1>11. DroppedForSize'
    BY <1>0, <1>1 DEF DroppedForSize
  <1> QED BY <1>8, <1>9, <1>10, <1>11 DEF OrderInv

(* The other steps of the writer only move it.                             *)
LEMMA WriterOrder ==
  ASSUME PathInv, OrderInv, WriterRuns
  PROVE  OrderInv'
  <1>0. QueueTypes /\ TakenInOrder /\ QueuedInOrder /\ Flow /\ DroppedForSize /\ MuxTypeOK
    BY DEF PathInv, PathTypes, OrderInv
  <1>1. CASE SendEnqueues
    BY <1>1, EnqueueOrder
  <1>2. CASE WriterPolls \/ SendChecks \/ SendFindsNoRoom \/ SendPanics
    <2>1. UNCHANGED <<kind, connClosed, buf, received, queueVars, dc, room, tdc>>
      BY <1>2 DEF WriterPolls, WriteBegins, CheckClosed, CheckCanSend, WriteFails, WriteGoesOn,
                  SendChecks, SendFindsNoRoom, SendPanics
    <2>2. \/ writer'.pc # "idle" /\ writer.pc # "idle" /\ writer'.msg = writer.msg
          \/ writer.pc = "idle" /\ writer'.pc # "idle" /\ writer'.msg = writer.msg + 1
          \/ writer' = writer
      BY <1>0, <1>2
      DEF WriterPolls, WriteBegins, CheckClosed, CheckCanSend, WriteFails, WriteGoesOn,
          SendChecks, SendFindsNoRoom, SendPanics, MuxTypeOK
    <2>3. TakenInOrder'
      BY <1>0, <2>1, <2>2 DEF TakenInOrder, MuxTypeOK
    <2>4. Done' = Done /\ Held' = Held
      BY <2>1 DEF Done, Held
    <2>5. QueuedInOrder'
      BY <1>0, <2>1, <2>4 DEF QueuedInOrder
    <2>6. Flow'
      BY <1>0, <2>1, <2>4, FlowStays DEF Lost
    <2>7. DroppedForSize'
      BY <1>0, <2>1 DEF DroppedForSize
    <2> QED BY <2>3, <2>5, <2>6, <2>7 DEF OrderInv
  <1> QED BY <1>1, <1>2 DEF WriterRuns

(* The far session.                                                        *)
LEMMA ReceiveOrder ==
  ASSUME PathInv, OrderInv, Receive
  PROVE  OrderInv'
  <1> DEFINE r == received \o buf
             s == Sent(dropped, Done)
             t == Text(Head(Opened(kind, Head(wire))))
             w == OnWire(kind, Tail(wire))
  <1>0. QueueTypes /\ TakenInOrder /\ QueuedInOrder /\ Flow /\ DroppedForSize
    BY DEF PathInv, PathTypes, OrderInv
  <1>1. /\ wire # <<>> /\ wire' = Tail(wire) /\ Push(Opened(kind, Head(wire)))
        /\ UNCHANGED <<kind, connClosed, writer, received, queue, worker, taken, dropped, dc,
                       room, tdc>>
    BY DEF Receive, Push, Opened
  <1>2. /\ Tail(wire) \in Seq(Carried(kind)) /\ Opened(kind, Head(wire)) \in Sealed
        /\ OnWire(kind, wire) = t \o w
    BY <1>0, <1>1, WireHead DEF Flow
  <1>3. t \in Seq(Octets) /\ w \in Seq(Octets)
    BY <1>2, Seals, TextType, OpenedType
  <1>4. r \in Seq(Octets) /\ s \in Seq(Octets)
    <2>1. r \in Seq(Octets)
      BY <1>0 DEF Flow
    <2>2. s \in Seq(Octets)
      BY <1>0, Counts, SentType
    <2> QED BY <2>1, <2>2
  <1>5. TakenInOrder' /\ DroppedForSize' /\ Done' = Done /\ Held' = Held
    BY <1>0, <1>1 DEF TakenInOrder, DroppedForSize, Done, Held
  <1>6. QueuedInOrder'
    BY <1>0, <1>1, <1>5 DEF QueuedInOrder
  <1>7. CASE "far" \in connClosed
    <2>1. buf' = buf
      BY <1>1, <1>7 DEF Push
    <2> QED BY <1>0, <1>1, <1>2, <1>5, <1>6, <1>7, <2>1 DEF OrderInv, Flow
  <1>8. CASE "far" \notin connClosed
    <2>1. buf' = buf \o t
      BY <1>1, <1>2, <1>8 DEF Push
    <2> HIDE DEF t, w
    <2>2. buf' \in Seq(Octets) /\ (received \o buf)' = r \o t
      <3>1. received \in Seq(Octets) /\ buf \in Seq(Octets) /\ received' = received
        BY <1>0, <1>1 DEF Flow
      <3>2. received \o (buf \o t) = (received \o buf) \o t
        <4>1. (received \o buf) \o t = received \o (buf \o t)
          BY <1>3, <3>1, ConcatAssociates, SMTT(60)
        <4> QED BY <4>1, Zenon
      <3>3. buf \o t \in Seq(Octets)
        BY <1>3, <3>1
      <3> QED BY <2>1, <3>1, <3>2, <3>3
    <2> HIDE DEF r, s
    <2>3. (r \o t) \o w = r \o (t \o w) /\ r \o t \in Seq(Octets)
      BY <1>3, <1>4, ConcatAssociates
    <2>4. Starts((r \o t) \o w, s) /\ (Lost \/ (r \o t) \o w = s)
      BY <1>0, <1>2, <1>8, <2>3 DEF Flow, r, s
    <2>5. Starts(r \o t, s)
      <3>1. (r \o t) \o w \in Seq(Octets) /\ Starts(r \o t, (r \o t) \o w)
        <4>1. (r \o t) \o w \in Seq(Octets)
          BY <1>3, <2>3
        <4>2. Starts(r \o t, (r \o t) \o w)
          BY <1>3, <2>3, StartsConcat
        <4> QED BY <4>1, <4>2
      <3> QED BY <1>4, <2>3, <2>4, <3>1, StartsTrans
    <2>6. Sent(dropped, Done)' = s /\ OnWire(kind, wire)' = w /\ Lost' = Lost
      BY <1>1, <1>5 DEF s, w, Lost
    <2>7. wire' \in Seq(Carried(kind'))
      BY <1>1, <1>2
    <2>8. Flow'
      BY <1>0, <1>1, <2>2, <2>4, <2>5, <2>6, <2>7 DEF Flow
    <2> QED BY <1>5, <1>6, <2>8 DEF OrderInv
  <1> QED BY <1>7, <1>8

LEMMA ReaderOrder ==
  ASSUME PathInv, OrderInv, ReaderReads \/ NearCloses \/ FarCloses
  PROVE  OrderInv'
  <1>0. QueueTypes /\ TakenInOrder /\ QueuedInOrder /\ Flow /\ DroppedForSize
    BY DEF PathInv, PathTypes, OrderInv
  <1>1. UNCHANGED <<kind, writer, queueVars, dc, room, tdc>> /\ connClosed \subseteq connClosed'
    BY DEF ReaderReads, Read, NearCloses, FarCloses, CloseConn
  <1>2. buf' \in Seq(Octets) /\ received' \in Seq(Octets) /\ received' \o buf' = received \o buf
    <2>1. CASE ReaderReads
      <3>1. CASE UNCHANGED <<buf, received>>
        BY <1>0, <3>1 DEF Flow
      <3>2. CASE \E n \in 1 .. Len(buf) : /\ received' = received \o SubSeq(buf, 1, n)
                                          /\ buf' = SubSeq(buf, n + 1, Len(buf))
        <4>1. PICK n \in 1 .. Len(buf) : /\ received' = received \o SubSeq(buf, 1, n)
                                         /\ buf' = SubSeq(buf, n + 1, Len(buf))
          BY <3>2
        <4> DEFINE a == SubSeq(buf, 1, n)
                   b == SubSeq(buf, n + 1, Len(buf))
        <4>2. buf \in Seq(Octets) /\ received \in Seq(Octets) /\ n \in 0 .. Len(buf)
          BY <1>0 DEF Flow
        <4>3. a \in Seq(Octets) /\ b \in Seq(Octets) /\ buf = a \o b
          BY <4>2, Splits
        <4>4. received' = received \o a /\ buf' = b
          BY <4>1
        <4> HIDE DEF a, b
        <4>5. (received \o a) \o b = received \o (a \o b) /\ received \o a \in Seq(Octets)
          BY <4>2, <4>3, ConcatAssociates
        <4> QED BY <4>3, <4>4, <4>5
      <3> QED BY <2>1, <3>1, <3>2 DEF ReaderReads, Read
    <2>2. CASE NearCloses \/ FarCloses
      BY <1>0, <2>2 DEF NearCloses, FarCloses, CloseConn, Flow
    <2> QED BY <2>1, <2>2
  <1>3. Done' = Done /\ Held' = Held /\ Lost' = Lost
    BY <1>1 DEF Done, Held, Lost
  <1>4. TakenInOrder' /\ DroppedForSize'
    BY <1>0, <1>1 DEF TakenInOrder, DroppedForSize
  <1>5. QueuedInOrder'
    BY <1>0, <1>1, <1>3 DEF QueuedInOrder
  <1>6. Flow'
    BY <1>0, <1>1, <1>2, <1>3 DEF Flow
  <1> QED BY <1>4, <1>5, <1>6 DEF OrderInv

(* The hypotheses of the order: telemost has one worker (with more, the run*)
(* telemost_order finds messages out of order), and the codec of jazz      *)
(* returns what it was given, which TLC evaluates for the run's messages.  *)
OneWorkerOnly == "telemost" \in Kinds => Workers = 1
JazzCarries == "jazz" \in Kinds => \A m \in Sealed : Incoming(EncodeDataPacket(m)) = m

(* A worker's Put or Drop, and its end, change nothing else of the order.  *)
LEMMA StopOrder ==
  ASSUME PathInv, OrderInv, worker[1].pc = "waiting", Goes(1, "gone"),
         UNCHANGED <<kind, muxVars, queue, wire, taken, dropped, dc, room, tdc>>
  PROVE  OrderInv'
  <1>1. /\ worker'[1].pc = "gone" /\ \A w \in Worker \ {1} : worker'[w].pc = "none"
    BY PathBounds DEF Goes, OrderInv, QueuedInOrder, PathInv, PathTypes, QueueTypes
  <1>2. Lost' = Lost /\ DroppedForSize'
    BY DEF Lost, DroppedForSize, OrderInv
  <1> QED BY <1>1, <1>2, CarrierStep

LEMMA JazzOrder ==
  ASSUME JazzCarries, PathInv, OrderInv, kind = "jazz", UNCHANGED <<kind, muxVars, wbVars, tdc>>,
         \/ JazzConnects \/ JazzFails \/ JazzWorks
         \/ SendPublisherOffer \/ ReadFails \/ ReadOffer \/ ReadAnswer \/ JazzOpens \/ Watch
         \/ "near" \in connClosed /\ (JazzCloseBegins \/ JazzCloseEnds)
  PROVE  OrderInv'
  <1>0. /\ QueueTypes /\ TakenInOrder /\ QueuedInOrder /\ DroppedForSize
        /\ Lost <=> dc = "closed"
    BY DEF PathInv, PathTypes, OrderInv, Lost
  <1>1. CASE \/ JazzDial \/ JazzConnectFails \/ JazzReady \/ JazzSocketFails \/ JazzConnectionDown
             \/ ReadOffer \/ SendPublisherOffer \/ ReadAnswer \/ ReadFails \/ Watch
             \/ JazzCloseBegins
    <2>1. UNCHANGED <<kind, muxVars, queue, worker, wire, taken, dropped, dc>>
      BY <1>1 DEF JazzDial, JazzConnectFails, JazzReady, JazzSocketFails, JazzConnectionDown,
                  ReadOffer, SendPublisherOffer, ReadAnswer, ReadFails, Watch, JazzCloseBegins
    <2>2. Lost' = Lost /\ DroppedForSize'
      BY <1>0, <2>1 DEF Lost, DroppedForSize
    <2> QED BY <1>0, <2>1, <2>2, CarrierStep DEF QueuedInOrder
  <1>2. CASE JazzCreate
    <2>1. UNCHANGED <<kind, muxVars, queue, worker, wire, taken, dropped>> /\ dc = "none"
          /\ dc' = "connecting"
      BY <1>2 DEF JazzCreate, PathInv, Started
    <2>2. ~Lost /\ DroppedForSize'
      BY <1>0, <2>1 DEF DroppedForSize
    <2> QED BY <1>0, <2>1, <2>2, CarrierStep DEF QueuedInOrder
  <1>3. CASE JazzOpens
    <2>1. /\ UNCHANGED <<kind, muxVars, queue, wire, taken, dropped>> /\ dc = "connecting"
          /\ dc' = "open" /\ worker[1].pc = "none" /\ worker'[1].pc = "waiting"
          /\ \A w \in Worker \ {1} : worker'[w] = worker[w]
      BY <1>0, <1>3, PathBounds DEF JazzOpens, Start, PathInv, Started, QueueTypes
    <2>2. ~Lost /\ DroppedForSize'
      BY <1>0, <2>1 DEF DroppedForSize
    <2> QED BY <1>0, <2>1, <2>2, CarrierStep DEF QueuedInOrder
  <1>4. CASE JazzChannelFails \/ JazzCloseEnds
    <2>1. /\ UNCHANGED <<kind, muxVars, queue, worker, taken, dropped>> /\ LoseWire
          /\ dc' = "closed"
      BY <1>4 DEF JazzChannelFails, JazzCloseEnds
    <2>2. Lost' /\ DroppedForSize'
      BY <2>1 DEF Lost, DroppedForSize
    <2> QED BY <1>0, <2>1, <2>2, CarrierStep DEF QueuedInOrder
  <1>5. CASE JazzTake
    BY <1>5, TakeOrder DEF JazzTake
  <1>6. CASE JazzWorkerStops
    BY <1>6, StopOrder DEF JazzWorkerStops
  <1>7. CASE JazzWorkerSends
    <2> DEFINE packet == EncodeDataPacket(worker[1].item)
    <2>1. /\ worker[1].pc = "sending" /\ worker[1].item \in Sealed /\ dc \in {"open", "closed"}
          /\ UNCHANGED <<kind, muxVars, queue, taken, dc, room, tdc>>
      BY <1>0, <1>7, PathBounds
      DEF JazzWorkerSends, QueueTypes, PathInv, Started
    <2>2. \/ /\ Drop(1, "waiting") /\ Head(worker[1].item) \in Large
          \/ /\ dc = "open" /\ Put(1, packet)
          \/ /\ dc = "closed" /\ Drop(1, "gone")
      BY <1>7, <2>1 DEF JazzWorkerSends
    <2>3. CASE dc = "open" /\ Put(1, packet)
      <3>1. Opened(kind, packet) = worker[1].item /\ packet \in Carried(kind)
        BY <2>1, JazzCarries DEF JazzCarries, Opened, Carried, PathInv, PathTypes
      <3> QED BY <1>0, <2>1, <2>3, <3>1, PutOrder
    <2>4. CASE Drop(1, "waiting") /\ Head(worker[1].item) \in Large
      <3>1. DroppedForSize'
        BY <1>0, <2>1, <2>4 DEF Drop, DroppedForSize
      <3> QED BY <2>1, <2>4, <3>1, DropOrder
    <2>5. CASE dc = "closed" /\ Drop(1, "gone")
      <3>1. DroppedForSize'
        BY <2>1, <2>5 DEF DroppedForSize
      <3> QED BY <2>1, <2>5, <3>1, DropOrder
    <2> QED BY <2>2, <2>3, <2>4, <2>5
  <1> QED BY <1>1, <1>2, <1>3, <1>4, <1>5, <1>6, <1>7 DEF JazzConnects, JazzFails, JazzWorks

LEMMA WbOrder ==
  ASSUME PathInv, OrderInv, kind = "wbstream", UNCHANGED <<kind, muxVars, jazzVars, tdc>>,
         \/ WbConnects \/ RoomLost \/ WbWorks
         \/ "near" \in connClosed /\ WbCloses
  PROVE  OrderInv'
  <1>0. /\ QueueTypes /\ TakenInOrder /\ QueuedInOrder /\ DroppedForSize /\ DroppedForSize'
        /\ Lost <=> room \in {"down", "left"}
    BY DEF PathInv, PathTypes, OrderInv, Lost, DroppedForSize
  <1>1. CASE WbConnectFails \/ WbCloseBegins \/ WbClosesQueue \/ WbCloseReturns
    <2>1. UNCHANGED <<kind, muxVars, queue, worker, wire, taken, dropped, room>>
      BY <1>1 DEF WbConnectFails, WbCloseBegins, WbClosesQueue, WbCloseReturns
    <2>2. Lost' = Lost
      BY <1>0, <2>1 DEF Lost
    <2> QED BY <1>0, <2>1, <2>2, CarrierStep DEF QueuedInOrder
  <1>2. CASE WbJoins
    <2>1. UNCHANGED <<kind, muxVars, queue, worker, wire, taken, dropped>> /\ room = "none"
      BY <1>2 DEF WbJoins, PathInv, Started
    <2> QED BY <1>0, <2>1, CarrierStep DEF QueuedInOrder
  <1>3. CASE WbPublishes
    <2>1. UNCHANGED <<kind, muxVars, queue, wire, taken, dropped, room, writer>>
      BY <1>3 DEF WbPublishes
    <2>2. /\ worker[1].pc # "sending" /\ worker'[1].pc = "waiting"
          /\ \A w \in Worker \ {1} : worker'[w] = worker[w]
      <3>1. worker[1].pc = "none"
        BY <1>3 DEF WbPublishes, PathInv, Started
      <3> QED BY <1>0, <1>3, <3>1, PathBounds DEF WbPublishes, Start
    <2>3. Lost' = Lost
      BY <1>0, <2>1 DEF Lost
    <2> QED BY <1>0, <2>1, <2>2, <2>3, CarrierStep DEF QueuedInOrder
  <1>4. CASE RoomLost \/ (WbLeaves /\ "near" \in connClosed)
    <2>1. UNCHANGED <<kind, muxVars, queue, worker, taken, dropped>> /\ LoseWire
      BY <1>4 DEF RoomLost, WbLeaves
    <2>2. room' \in {"down", "left"}
      BY <1>4 DEF RoomLost, WbLeaves, PathInv, PathTypes, WbTypeOK, Started
    <2>3. Lost'
      BY <2>2 DEF Lost
    <2> QED BY <1>0, <2>1, <2>3, CarrierStep DEF QueuedInOrder
  <1>5. CASE WbTake
    BY <1>5, TakeOrder DEF WbTake
  <1>6. CASE WbWorkerStops
    BY <1>6, StopOrder DEF WbWorkerStops
  <1>7. CASE WbWorkerPublishes
    <2>1. /\ worker[1].pc = "sending" /\ worker[1].item \in Sealed
          /\ UNCHANGED <<kind, muxVars, queue, taken, dc, room, tdc>>
      BY <1>0, <1>7, PathBounds DEF WbWorkerPublishes, QueueTypes
    <2>2. CASE room = "up" /\ Put(1, worker[1].item)
      <3>1. Opened(kind, worker[1].item) = worker[1].item /\ worker[1].item \in Carried(kind)
        BY <2>1 DEF Opened, Carried
      <3> QED BY <1>0, <2>1, <2>2, <3>1, PutOrder
    <2>3. CASE Drop(1, "waiting")
      BY <1>0, <2>1, <2>3, DropOrder
    <2> QED BY <1>7, <2>2, <2>3 DEF WbWorkerPublishes
  <1> QED BY <1>1, <1>2, <1>3, <1>4, <1>5, <1>6, <1>7 DEF WbConnects, WbWorks, WbCloses

LEMMA TeleOrder ==
  ASSUME OneWorkerOnly, PathInv, OrderInv, kind = "telemost",
         UNCHANGED <<kind, muxVars, jazzVars, wbVars>>,
         \/ TeleConnects \/ TeleOpens \/ TeleFails \/ TeleWorks
         \/ "near" \in connClosed /\ TeleCloses
  PROVE  OrderInv'
  <1>0. /\ QueueTypes /\ TakenInOrder /\ QueuedInOrder /\ DroppedForSize
        /\ Lost <=> tdc = "closed"
    BY DEF PathInv, PathTypes, OrderInv, Lost
  <1>a. Worker = {1}
    BY DEF OneWorkerOnly, PathInv, PathTypes, Worker
  <1>1. CASE TeleConnectFails \/ TeleReady \/ TeleCloseBegins
    <2>1. UNCHANGED <<kind, muxVars, queue, worker, wire, taken, dropped, tdc>>
      BY <1>1 DEF TeleConnectFails, TeleReady, TeleCloseBegins
    <2>2. Lost' = Lost /\ DroppedForSize'
      BY <1>0, <2>1 DEF Lost, DroppedForSize
    <2> QED BY <1>0, <2>1, <2>2, CarrierStep DEF QueuedInOrder
  <1>2. CASE TeleCreate
    <2>1. UNCHANGED <<kind, muxVars, queue, worker, wire, taken, dropped>> /\ tdc = "none"
          /\ tdc' = "connecting"
      BY <1>2 DEF TeleCreate, PathInv, Started
    <2>2. ~Lost /\ DroppedForSize'
      BY <1>0, <2>1 DEF DroppedForSize
    <2> QED BY <1>0, <2>1, <2>2, CarrierStep DEF QueuedInOrder
  <1>3. CASE TeleOpens
    <2>1. /\ UNCHANGED <<kind, muxVars, queue, wire, taken, dropped>> /\ tdc = "connecting"
          /\ tdc' = "open" /\ worker[1].pc = "none" /\ worker'[1].pc = "waiting"
      BY <1>0, <1>3, <1>a DEF TeleOpens, Start, PathInv, Started
    <2>2. ~Lost /\ DroppedForSize'
      BY <1>0, <2>1 DEF DroppedForSize
    <2> QED BY <1>0, <1>a, <2>1, <2>2, CarrierStep
  <1>4. CASE TeleStops \/ TeleCloseStops
    <2>1. /\ UNCHANGED <<kind, muxVars, queue, worker, wire, taken, dropped>>
          /\ tdc' = IF tdc = "open" THEN "stopped" ELSE tdc
      BY <1>4 DEF TeleStops, TeleCloseStops
    <2>2. Lost' <=> Lost
      BY <2>1 DEF Lost
    <2>3. DroppedForSize'
      BY <1>0, <2>1 DEF DroppedForSize
    <2> QED BY <1>0, <2>1, <2>2, <2>3, CarrierStep DEF QueuedInOrder
  <1>5. CASE TeleChannelFails \/ TeleCloseEnds
    <2>1. UNCHANGED <<kind, muxVars, queue, worker, taken, dropped>> /\ LoseWire
          /\ tdc' = "closed"
      BY <1>5 DEF TeleChannelFails, TeleCloseEnds
    <2>2. Lost' /\ DroppedForSize'
      BY <2>1 DEF Lost, DroppedForSize
    <2> QED BY <1>0, <2>1, <2>2, CarrierStep DEF QueuedInOrder
  <1>6. CASE TeleWorks
    <2>1. CASE TeleTake(1)
      BY <2>1, TakeOrder DEF TeleTake
    <2>2. CASE TeleWorkerStops(1)
      BY <2>2, StopOrder DEF TeleWorkerStops
    <2>3. CASE TeleWorkerSends(1)
      <3>1. /\ worker[1].pc = "sending" /\ worker[1].item \in Sealed
            /\ tdc \in {"open", "stopped", "closed"}
            /\ UNCHANGED <<kind, muxVars, queue, taken, dc, room, tdc>>
        BY <1>0, <1>a, <2>3 DEF TeleWorkerSends, QueueTypes, PathInv, Started
      <3>2. CASE IsOpen /\ Put(1, worker[1].item)
        <4>1. Opened(kind, worker[1].item) = worker[1].item /\ worker[1].item \in Carried(kind)
          BY <3>1 DEF Opened, Carried
        <4> QED BY <1>0, <3>1, <3>2, <4>1, PutOrder DEF IsOpen
      <3>3. CASE Head(worker[1].item) \in Large /\ Drop(1, "waiting")
        <4>1. DroppedForSize'
          BY <1>0, <3>1, <3>3 DEF Drop, DroppedForSize
        <4> QED BY <3>1, <3>3, <4>1, DropOrder
      <3>4. CASE tdc # "open" /\ Drop(1, "gone")
        <4>1. DroppedForSize'
          BY <3>1, <3>4 DEF DroppedForSize
        <4> QED BY <3>1, <3>4, <4>1, DropOrder
      <3> QED BY <2>3, <3>2, <3>3, <3>4 DEF TeleWorkerSends
    <2> QED BY <1>6, <1>a, <2>1, <2>2, <2>3 DEF TeleWorks
  <1> QED BY <1>1, <1>2, <1>3, <1>4, <1>5, <1>6 DEF TeleConnects, TeleFails, TeleCloses

LEMMA InitOrder == PathInit => OrderInv
  <1> SUFFICES ASSUME PathInit PROVE OrderInv
    OBVIOUS
  <1> USE PathBounds DEF PathInit, MuxInit, QueueInit, JazzInit, WbInit, TeleInit
  <1>1. Held = 0 /\ Done = 0
    <2>1. worker[1].pc = "none" /\ Len(taken) = 0 /\ Len(queue) = 0
      OBVIOUS
    <2>2. Held = 0
      BY <2>1 DEF Held
    <2>3. Done = 0 - 0 - 0
      BY <2>1, <2>2 DEF Done
    <2> QED BY <2>2, <2>3
  <1>2. TakenInOrder /\ DroppedForSize
    BY DEF TakenInOrder, DroppedForSize
  <1>3. QueuedInOrder
    BY <1>1 DEF QueuedInOrder
  <1>4. Sent(dropped, Done) = <<>> /\ OnWire(kind, wire) = <<>>
    BY <1>1, FlattenEmpty DEF Sent, OnWire
  <1>5. Flow
    <2>1. received \o buf = <<>> /\ (received \o buf) \o <<>> = <<>> /\ <<>> \in Seq(Octets)
      OBVIOUS
    <2>2. Starts(<<>>, <<>>)
      BY <2>1, StartsSelf
    <2> QED BY <1>4, <2>1, <2>2 DEF Flow
  <1> QED BY <1>2, <1>3, <1>5 DEF OrderInv

LEMMA NextOrder ==
  ASSUME OneWorkerOnly, JazzCarries
  PROVE  PathInv /\ OrderInv /\ [PathNext]_pathVars => OrderInv'
  <1> SUFFICES ASSUME PathInv, OrderInv, [PathNext]_pathVars PROVE OrderInv'
    OBVIOUS
  <1>1. CASE Carrier \/ Negotiates \/ SignalerRuns \/ WorkerRuns \/ Closes
    BY <1>1, JazzOrder, WbOrder, TeleOrder
    DEF Carrier, Negotiates, SignalerRuns, WorkerRuns, Closes
  <1>2. CASE WriterRuns
    BY <1>2, WriterOrder
  <1>3. CASE Receive
    BY <1>3, ReceiveOrder
  <1>4. CASE ReaderReads \/ NearCloses \/ FarCloses
    BY <1>4, ReaderOrder
  <1>5. CASE UNCHANGED pathVars
    <2>1. Lost' = Lost /\ DroppedForSize'
      BY <1>5 DEF Lost, DroppedForSize, OrderInv
    <2> QED BY <1>5, <2>1, CarrierStep DEF OrderInv, QueuedInOrder
  <1> QED BY <1>1, <1>2, <1>3, <1>4, <1>5 DEF PathNext

LEMMA OrderIsKept ==
  ASSUME PathInv, OrderInv
  PROVE  ReadInOrder
  <1> DEFINE s == Sent(dropped, Done)
             r == received \o buf
  <1>0. QueueTypes /\ TakenInOrder /\ QueuedInOrder /\ Flow /\ DroppedForSize
    BY DEF PathInv, PathTypes, OrderInv
  <1>1. Len(taken) \in 0 .. Count /\ Done \in 0 .. Len(taken)
    BY <1>0, Counts
  <1>2. Kept = Sent(dropped, Len(taken))
    <2>1. DOMAIN taken = 1 .. Len(taken)
      BY <1>0 DEF TakenInOrder
    <2>2. \A i \in 1 .. Len(taken) : taken[i] = Seal(i) /\ Head(taken[i]) = i
      BY <1>0, <1>1, Seals, PathBounds DEF TakenInOrder, Message
    <2>3. \A i \in 1 .. Len(taken) :
            (IF taken[i] \in dropped THEN <<>> ELSE Text(Head(taken[i]))) = Piece(dropped, i)
      BY <2>2 DEF Piece
    <2>4. [i \in DOMAIN taken |-> IF taken[i] \in dropped THEN <<>> ELSE Text(Head(taken[i]))]
            = [i \in 1 .. Len(taken) |-> Piece(dropped, i)]
      BY <2>1, <2>3
    <2> QED BY <2>4 DEF Kept, Sent
  <1>3. /\ s \in Seq(Octets) /\ Kept \in Seq(Octets) /\ r \in Seq(Octets)
        /\ received \in Seq(Octets) /\ buf \in Seq(Octets)
    <2>1. s \in Seq(Octets) /\ Kept \in Seq(Octets)
      BY <1>0, <1>1, <1>2, Counts, SentType
    <2> QED BY <1>0, <2>1 DEF Flow
  <1>4. Starts(s, Kept)
    BY <1>1, <1>2, SentStarts
  <1>5. IsPrefix(received, Kept)
    <2>1. Starts(received, r) /\ Starts(r, s)
      BY <1>0, <1>3, StartsConcat DEF Flow
    <2>2. Starts(received, s)
      BY <1>3, <2>1, StartsTrans
    <2>3. Starts(received, Kept)
      BY <1>3, <1>4, <2>2, StartsTrans
    <2> QED BY <1>3, <2>3, StartsPrefix
  <1>6. ASSUME CarrierUp, "far" \notin connClosed, ~UnderWay PROVE r = Kept
    <2>1. queue = <<>> /\ wire = <<>> /\ worker[1].pc # "sending"
      BY <1>6, PathBounds DEF UnderWay
    <2>2. Done = Len(taken)
      BY <1>0, <2>1, Counts DEF Done
    <2>3. ~Lost
      BY <1>6 DEF CarrierUp, Lost
    <2>4. r \o OnWire(kind, wire) = s
      BY <1>0, <1>6, <2>3 DEF Flow
    <2>5. OnWire(kind, wire) = <<>>
      BY <2>1, FlattenEmpty DEF OnWire
    <2> HIDE DEF r, s
    <2>6. r \o <<>> = r
      BY <1>3
    <2> QED BY <1>2, <2>2, <2>4, <2>5, <2>6 DEF s
  <1>7. kind # "wbstream" /\ CarrierUp => \A m \in dropped : Head(m) \in Large
    BY <1>0 DEF DroppedForSize, CarrierUp
  <1> QED BY <1>5, <1>6, <1>7 DEF ReadInOrder

(* What the far session reads is what Send took, whole, once and in order, *)
(* whatever slices Read returns and whatever fails, but for the messages   *)
(* the worker drops for their size: for any number of messages, any        *)
(* capacity of the queue and any limit of the data channel.                *)
THEOREM ReadsInOrder ==
  ASSUME OneWorkerOnly, JazzCarries
  PROVE  Spec => []ReadInOrder
  <1>1. Init => PathInv /\ OrderInv
    BY InitPath, InitOrder DEF Init
  <1>2. PathInv /\ OrderInv /\ [Next]_vars => (PathInv /\ OrderInv)'
    BY NextPath, NextOrder DEF Next, Path, Through, Assemble, vars
  <1>3. PathInv /\ OrderInv => ReadInOrder
    BY OrderIsKept
  <1> QED BY <1>1, <1>2, <1>3, PTL DEF Spec

-----------------------------------------------------------------------------
(* FramesAreWhole. As long as the packets of a session have numbers of     *)
(* their own, a packet that continues the last one is the next of its      *)
(* frame: what is assembled are the first packets of one frame.            *)
NumbersLast == Before(Len(Frames) + 1) <= 65536

Number(f, i) == Before(f) + i - 1
Part(f, k) == [i \in 1 .. k |-> <<f, i>>]

LEMMA FrameBounds ==
  /\ Len(Frames) \in Nat /\ DOMAIN Frames = 1 .. Len(Frames)
  /\ \A f \in 1 .. Len(Frames) : Frames[f] \in Nat /\ Frames[f] >= 1
  /\ FirstSeq \in Nat /\ FirstSeq < 65536
  <1>1. Frames \in Seq(Nat \ {0})
    BY FramesAssumption
  <1>2. Len(Frames) \in Nat /\ DOMAIN Frames = 1 .. Len(Frames)
    BY <1>1, LenProperties
  <1>3. ASSUME NEW f \in 1 .. Len(Frames) PROVE Frames[f] \in Nat \ {0}
    BY <1>1, ElementOfSeq
  <1>4. FirstSeq \in Nat /\ FirstSeq < 65536
    BY FramesAssumption
  <1> QED BY <1>2, <1>3, <1>4

LEMMA BeforeType ==
  ASSUME NEW f \in 1 .. Len(Frames) + 1
  PROVE  /\ [g \in 1 .. f - 1 |-> Whole(g)] \in Seq(Seq(Nat \X Nat))
         /\ Before(f) \in Nat
  <1>1. \A g \in 1 .. f - 1 : Whole(g) \in Seq(Nat \X Nat)
    <2> TAKE g \in 1 .. f - 1
    <2>1. g \in 1 .. Len(Frames) /\ Frames[g] \in Nat
      BY FrameBounds
    <2>2. \A i \in 1 .. Frames[g] : <<g, i>> \in Nat \X Nat
      BY <2>1
    <2> QED BY <2>1, <2>2 DEF Whole
  <1>2. f - 1 \in Nat
    BY FrameBounds
  <1>3. [g \in 1 .. f - 1 |-> Whole(g)] \in Seq(Seq(Nat \X Nat))
    BY <1>1, <1>2
  <1>4. FlattenSeq([g \in 1 .. f - 1 |-> Whole(g)]) \in Seq(Nat \X Nat)
    BY <1>3, FlattenType
  <1> QED BY <1>3, <1>4 DEF Before

(* The packets before frame f are those before frame g and some more.      *)
LEMMA BeforeGrows ==
  ASSUME NEW f \in 1 .. Len(Frames), NEW g \in f + 1 .. Len(Frames) + 1
  PROVE  Before(f) + Frames[f] <= Before(g)
  <1> DEFINE s(n) == [h \in 1 .. n - 1 |-> Whole(h)]
             rest == SubSeq(s(g), f + 1, g - 1)
  <1>0. f \in 1 .. Len(Frames) + 1 /\ g \in 1 .. Len(Frames) + 1 /\ f + 1 \in 1 .. Len(Frames) + 1
    BY FrameBounds
  <1>1. s(f) \in Seq(Seq(Nat \X Nat)) /\ s(g) \in Seq(Seq(Nat \X Nat))
        /\ s(f + 1) \in Seq(Seq(Nat \X Nat))
    BY <1>0, BeforeType
  <1>2. Whole(f) \in Seq(Nat \X Nat) /\ Len(Whole(f)) = Frames[f]
    <2>1. f \in Nat /\ Frames[f] \in Nat
      BY FrameBounds
    <2>2. \A i \in 1 .. Frames[f] : <<f, i>> \in Nat \X Nat
      BY <2>1
    <2> QED BY <2>1, <2>2 DEF Whole
  <1>3. s(f + 1) = Append(s(f), Whole(f))
    BY <1>0
  <1>4. f \in 0 .. Len(s(g)) /\ Len(s(g)) = g - 1
    BY <1>0, FrameBounds
  <1>5. SubSeq(s(g), 1, f) = s(f + 1)
    BY <1>0, <1>4
  <1>6. s(g) = s(f + 1) \o rest /\ rest \in Seq(Seq(Nat \X Nat))
    <2> HIDE DEF s
    <2>1. s(g) = SubSeq(s(g), 1, f) \o SubSeq(s(g), f + 1, Len(s(g)))
      BY <1>1, <1>4, Splits
    <2>2. SubSeq(s(g), f + 1, Len(s(g))) \in Seq(Seq(Nat \X Nat))
      BY <1>1, <1>4, Splits
    <2> QED BY <1>4, <1>5, <2>1, <2>2
  <1> HIDE DEF s, rest
  <1>7. FlattenSeq(s(g)) = FlattenSeq(s(f + 1)) \o FlattenSeq(rest)
    BY <1>1, <1>6, FlattenConcat
  <1>8. FlattenSeq(s(f + 1)) = FlattenSeq(s(f)) \o Whole(f)
    BY <1>1, <1>2, <1>3, FlattenAppend
  <1>9. /\ FlattenSeq(s(f)) \in Seq(Nat \X Nat) /\ FlattenSeq(rest) \in Seq(Nat \X Nat)
        /\ FlattenSeq(s(f + 1)) \in Seq(Nat \X Nat)
    BY <1>1, <1>6, FlattenType
  <1>10. /\ Len(FlattenSeq(s(g))) = Len(FlattenSeq(s(f + 1))) + Len(FlattenSeq(rest))
         /\ Len(FlattenSeq(s(f + 1))) = Len(FlattenSeq(s(f))) + Len(Whole(f))
         /\ Len(FlattenSeq(rest)) \in Nat /\ Len(FlattenSeq(s(f))) \in Nat
    <2>1. Len(FlattenSeq(s(f + 1)) \o FlattenSeq(rest))
            = Len(FlattenSeq(s(f + 1))) + Len(FlattenSeq(rest))
      BY <1>9
    <2>2. Len(FlattenSeq(s(f)) \o Whole(f)) = Len(FlattenSeq(s(f))) + Len(Whole(f))
      BY <1>2, <1>9, ConcatLength
    <2>3. Len(FlattenSeq(rest)) \in Nat /\ Len(FlattenSeq(s(f))) \in Nat
      BY <1>9
    <2> QED BY <1>7, <1>8, <2>1, <2>2, <2>3
  <1>11. Before(f) = Len(FlattenSeq(s(f))) /\ Before(g) = Len(FlattenSeq(s(g)))
    BY DEF Before, s
  <1> QED BY <1>2, <1>10, <1>11, FrameBounds

LEMMA NumberType ==
  ASSUME NumbersLast, NEW f \in 1 .. Len(Frames), NEW i \in 1 .. Frames[f]
  PROVE  Number(f, i) \in Nat /\ Number(f, i) < 65536
  <1> DEFINE n == Len(Frames) + 1
  <1>0. f \in 1 .. n /\ n \in 1 .. n /\ n \in f + 1 .. n
    BY FrameBounds
  <1>1. Before(f) \in Nat /\ Before(n) \in Nat
    BY <1>0, BeforeType
  <1>2. Before(f) + Frames[f] <= Before(n)
    BY <1>0, BeforeGrows
  <1> QED BY <1>1, <1>2, FrameBounds DEF NumbersLast, Number

LEMMA NumbersDiffer ==
  ASSUME NEW f \in 1 .. Len(Frames), NEW i \in 1 .. Frames[f],
         NEW g \in 1 .. Len(Frames), NEW j \in 1 .. Frames[g], Number(f, i) = Number(g, j)
  PROVE  f = g /\ i = j
  <1>1. Before(f) \in Nat /\ Before(g) \in Nat
    BY FrameBounds, BeforeType
  <1>2. f < g => Before(f) + Frames[f] <= Before(g)
    BY FrameBounds, BeforeGrows
  <1>3. g < f => Before(g) + Frames[g] <= Before(f)
    BY FrameBounds, BeforeGrows
  <1>4. f = g
    BY <1>1, <1>2, <1>3, FrameBounds DEF Number
  <1> QED BY <1>1, <1>4, FrameBounds DEF Number

(* Numbers on the wire are modulo 2^16.                                    *)
LEMMA ModuloNext ==
  ASSUME NEW a \in Nat, NEW first \in Nat, a + 1 < 65536, first < 65536
  PROVE  (((first + (a + 1)) % 65536) + 65535) % 65536 = (first + a) % 65536
  OBVIOUS

LEMMA ModuloDiffers ==
  ASSUME NEW a \in Nat, NEW b \in Nat, NEW first \in Nat, a < 65536, b < 65536, first < 65536,
         (first + a) % 65536 = (first + b) % 65536
  PROVE  a = b
  OBVIOUS

LEMMA SeqIs ==
  ASSUME NEW f \in 1 .. Len(Frames), NEW i \in 1 .. Frames[f]
  PROVE  PacketSeq(f, i) = (FirstSeq + Number(f, i)) % 65536
  <1>1. Before(f) \in Nat /\ FirstSeq \in Nat /\ i \in Nat
    BY FrameBounds, BeforeType
  <1>2. FirstSeq + Before(f) + i - 1 = FirstSeq + (Before(f) + i - 1)
    BY <1>1
  <1> QED BY <1>2 DEF PacketSeq, Number

(* The number of a packet tells it from all others, and the next one has   *)
(* the next number.                                                        *)
LEMMA SeqContinues ==
  ASSUME NumbersLast,
         NEW f \in 1 .. Len(Frames), NEW i \in 1 .. Frames[f], i # 1,
         NEW g \in 1 .. Len(Frames), NEW j \in 1 .. Frames[g]
  PROVE  PacketSeq(g, j) = (PacketSeq(f, i) + 65535) % 65536 <=> f = g /\ j = i - 1
  <1>1. i - 1 \in 1 .. Frames[f] /\ Number(f, i) = Number(f, i - 1) + 1
    <2>1. Frames[f] \in Nat /\ Before(f) \in Nat
      BY FrameBounds, BeforeType
    <2> QED BY <2>1 DEF Number
  <1> DEFINE a == Number(f, i - 1)
             b == Number(g, j)
  <1>2. /\ a \in Nat /\ a + 1 \in Nat /\ b \in Nat /\ FirstSeq \in Nat
        /\ a < 65536 /\ a + 1 < 65536 /\ b < 65536 /\ FirstSeq < 65536
    BY <1>1, NumberType, FrameBounds
  <1>3. /\ PacketSeq(f, i) = (FirstSeq + (a + 1)) % 65536
        /\ PacketSeq(g, j) = (FirstSeq + b) % 65536
    BY <1>1, SeqIs
  <1>4. a = b <=> f = g /\ j = i - 1
    BY <1>1, NumbersDiffer
  <1> HIDE DEF a, b
  <1>5. (PacketSeq(f, i) + 65535) % 65536 = (FirstSeq + a) % 65536
    BY <1>2, <1>3, ModuloNext
  <1>6. (FirstSeq + a) % 65536 = (FirstSeq + b) % 65536 <=> a = b
    BY <1>2, ModuloDiffers
  <1> QED BY <1>3, <1>4, <1>5, <1>6

(* The packets of a frame.                                                 *)
LEMMA PacketsAre ==
  ASSUME NEW f \in 1 .. Len(Frames)
  PROVE  Len(Packets(f)) = Frames[f] /\ \A i \in 1 .. Frames[f] : Packets(f)[i] = Packet(f, i)
  <1>1. Frames[f] \in Nat
    BY FrameBounds
  <1> QED BY <1>1 DEF Packets

LEMMA AllPacketsAre ==
  ASSUME NEW packet \in AllPackets
  PROVE  \E f \in 1 .. Len(Frames) : \E i \in 1 .. Frames[f] : packet = Packet(f, i)
  <1>1. PICK f \in 1 .. Len(Frames) : packet \in Range(Packets(f))
    BY FrameBounds DEF AllPackets
  <1>2. PICK i \in DOMAIN Packets(f) : packet = Packets(f)[i]
    BY <1>1 DEF Range
  <1>3. i \in 1 .. Frames[f] /\ packet = Packet(f, i)
    BY <1>2 DEF Packets
  <1> QED BY <1>3

LEMMA PacketFields ==
  ASSUME NEW f, NEW i, NEW ok \in BOOLEAN
  PROVE  LET p == [Packet(f, i) EXCEPT !.intact = ok]
         IN  /\ p.seq = PacketSeq(f, i) /\ p.data = <<f, i>> /\ p.intact = ok
             /\ p.start <=> i = 1
             /\ p.marker <=> i = Frames[f]
  <1> DEFINE p == [Packet(f, i) EXCEPT !.intact = ok]
  <1>1. p.seq = PacketSeq(f, i) /\ p.data = <<f, i>> /\ p.intact = ok
    BY DEF Packet
  <1>2. p.start <=> i = 1
    BY DEF Packet
  <1>3. p.marker <=> i = Frames[f]
    BY DEF Packet
  <1> QED BY <1>1, <1>2, <1>3

(* What is under way, and what arrived last.                               *)
UnderWayFrame(f, k) ==
  /\ assembly.valid /\ assembly.buf = Part(f, k)
  /\ assembly.lastSeq = PacketSeq(f, k)
EndsWith(f, k) ==
  /\ k <= Len(lately)
  /\ \A i \in 1 .. k : lately[Len(lately) - k + i] = Packet(f, i)

FramesInv ==
  /\ assembly.valid => \E f \in 1 .. Len(Frames) : \E k \in 1 .. Frames[f] - 1 : UnderWayFrame(f, k)
  /\ lately \in Seq({[p EXCEPT !.intact = ok] : p \in AllPackets, ok \in BOOLEAN})
  /\ \A frame \in assembled : \E f \in 1 .. Len(Frames) : frame = Whole(f)
  /\ \A f \in 1 .. Len(Frames) : \A k \in 1 .. Frames[f] :
       EndsWith(f, k) => /\ k < Frames[f] => UnderWayFrame(f, k)
                         /\ k = Frames[f] /\ f \notin Short => Whole(f) \in assembled

LEMMA SeqIsNumber ==
  ASSUME NEW f \in 1 .. Len(Frames), NEW i \in 1 .. Frames[f]
  PROVE  PacketSeq(f, i) # NoSeq
  <1>1. FirstSeq + Before(f) + i - 1 \in Nat
    <2>1. f \in 1 .. Len(Frames) + 1 /\ i \in Nat /\ i >= 1 /\ FirstSeq \in Nat
      BY FrameBounds
    <2>2. Before(f) \in Nat
      BY <2>1, BeforeType
    <2> QED BY <2>1, <2>2
  <1>2. \A n \in Nat : n % 65536 >= 0
    OBVIOUS
  <1> QED BY <1>1, <1>2 DEF PacketSeq, NoSeq

LEMMA PartGrows ==
  ASSUME NEW f, NEW i \in Nat, i >= 1
  PROVE  Part(f, i) = Part(f, i - 1) \o <<<<f, i>>>> /\ Part(f, 1) = <<>> \o <<<<f, 1>>>>
  <1>1. Part(f, i) = Part(f, i - 1) \o <<<<f, i>>>>
    BY DEF Part
  <1>2. Part(f, 1) = <<>> \o <<<<f, 1>>>>
    BY DEF Part
  <1> QED BY <1>1, <1>2

(* What ProcessRTPPacket makes of a packet: valid, and the buffer with it. *)
Valid(p) == p.intact /\ (p.start \/ (assembly.valid /\ Continues(p)))
Buffer(p) == (IF p.start THEN <<>> ELSE assembly.buf) \o <<p.data>>

LEMMA ProcessIs ==
  ASSUME NEW p, ProcessRTPPacket(p)
  PROVE  /\ assembly'.lastSeq = p.seq
         /\ assembly'.valid <=> Valid(p) /\ ~p.marker
         /\ assembly'.valid => assembly'.buf = Buffer(p)
         /\ assembled' = IF Valid(p) /\ p.marker /\ Head(Buffer(p))[1] \notin Short
                         THEN assembled \cup {Buffer(p)} ELSE assembled
         /\ lately' = LET all == Append(lately, p)
                      IN  SubSeq(all, IF Len(all) > Longest THEN 2 ELSE 1, Len(all))
  BY DEF ProcessRTPPacket, Valid, Buffer

(* The buffer of a valid packet holds its frame up to it.                  *)
LEMMA BufferIs ==
  ASSUME NumbersLast, FramesInv, NEW f \in 1 .. Len(Frames), NEW i \in 1 .. Frames[f],
         NEW p, p.seq = PacketSeq(f, i), p.data = <<f, i>>, p.start <=> i = 1, Valid(p)
  PROVE  Buffer(p) = Part(f, i)
  <1>0. i \in Nat /\ i >= 1
    BY FrameBounds
  <1>1. CASE i = 1
    BY <1>0, <1>1, PartGrows DEF Buffer
  <1>2. CASE i # 1
    <2>1. assembly.valid /\ assembly.lastSeq \in {NoSeq, (PacketSeq(f, i) + 65535) % 65536}
      BY <1>2 DEF Valid, Continues
    <2>a. PICK g \in 1 .. Len(Frames) : \E k \in 1 .. Frames[g] - 1 : UnderWayFrame(g, k)
      BY <2>1 DEF FramesInv
    <2>2. PICK k \in 1 .. Frames[g] - 1 : UnderWayFrame(g, k)
      BY <2>a
    <2>3. k \in 1 .. Frames[g]
      BY FrameBounds
    <2>4. assembly.lastSeq = PacketSeq(g, k) /\ assembly.lastSeq # NoSeq
      BY <2>2, <2>3, SeqIsNumber DEF UnderWayFrame
    <2>5. g = f /\ k = i - 1
      BY <1>2, <2>1, <2>3, <2>4, SeqContinues
    <2>6. assembly.buf = Part(f, i - 1)
      BY <2>2, <2>5 DEF UnderWayFrame
    <2> QED BY <1>0, <1>2, <2>6, PartGrows DEF Buffer
  <1> QED BY <1>1, <1>2

(* If the last packets were those of a frame so far, so they were before.  *)
LEMMA EndsBefore ==
  ASSUME NEW S, lately \in Seq(S), NEW p \in S, NEW f, NEW k \in Nat, k >= 1, ProcessRTPPacket(p),
         EndsWith(f, k)'
  PROVE  p = Packet(f, k) /\ EndsWith(f, k - 1)
  <1> DEFINE all == Append(lately, p)
             n == Len(lately)
             d == IF Len(all) > Longest THEN 1 ELSE 0
  <1>1. lately' = SubSeq(all, d + 1, Len(all))
    BY ProcessIs
  <1>2. /\ n \in Nat /\ Len(all) = n + 1 /\ all \in Seq(S) /\ d \in {0, 1} /\ d <= n
        /\ all[n + 1] = p /\ \A i \in 1 .. n : all[i] = lately[i]
    BY DEF Longest
  <1> HIDE DEF all, d
  <1>3. /\ Len(lately') = n + 1 - d
        /\ \A i \in 1 .. n + 1 - d : lately'[i] = all[d + i]
    BY <1>1, <1>2
  <1>4. k <= n + 1 - d /\ \A i \in 1 .. k : lately'[n + 1 - d - k + i] = Packet(f, i)
    <2>1. k <= Len(lately')
      BY DEF EndsWith
    <2>2. \A i \in 1 .. k : lately'[Len(lately') - k + i] = Packet(f, i)
      BY DEF EndsWith
    <2>3. Len(lately') - k = n + 1 - d - k
      BY <1>2, <1>3
    <2> QED BY <1>3, <2>1, <2>2, <2>3
  <1>5. \A i \in 1 .. k : all[n + 1 - k + i] = Packet(f, i)
    <2> TAKE i \in 1 .. k
    <2>1. n + 1 - d - k + i \in 1 .. n + 1 - d /\ d + (n + 1 - d - k + i) = n + 1 - k + i
      BY <1>2, <1>4
    <2> QED BY <1>3, <1>4, <2>1
  <1>6. p = Packet(f, k)
    <2>1. k \in 1 .. k /\ n + 1 - k + k = n + 1
      BY <1>2
    <2> QED BY <1>2, <1>5, <2>1
  <1>7. \A i \in 1 .. k - 1 : lately[n - (k - 1) + i] = Packet(f, i)
    <2> TAKE i \in 1 .. k - 1
    <2>1. i \in 1 .. k /\ n + 1 - k + i = n - (k - 1) + i /\ n - (k - 1) + i \in 1 .. n
      BY <1>2, <1>4
    <2> QED BY <1>2, <1>5, <2>1
  <1>8. k - 1 <= n
    BY <1>2, <1>4
  <1> QED BY <1>6, <1>7, <1>8 DEF EndsWith

LEMMA InitFrames == FramesInit => FramesInv
  <1> SUFFICES ASSUME FramesInit PROVE FramesInv
    OBVIOUS
  <1>1. ~assembly.valid /\ lately = <<>> /\ assembled = {}
    BY DEF FramesInit
  <1>2. \A f \in 1 .. Len(Frames) : \A k \in 1 .. Frames[f] : ~EndsWith(f, k)
    BY <1>1, FrameBounds DEF EndsWith
  <1> QED BY <1>1, <1>2 DEF FramesInv

(* A frame is handed on with the packet that ends it.                      *)
LEMMA HandsOn ==
  ASSUME NEW f \in 1 .. Len(Frames)
  PROVE  Part(f, Frames[f]) = Whole(f) /\ Head(Part(f, Frames[f]))[1] = f
  <1>1. Frames[f] \in Nat /\ Frames[f] >= 1
    BY FrameBounds
  <1> QED BY <1>1 DEF Part, Whole

LEMMA NextFrames == NumbersLast /\ FramesInv /\ [FramesNext]_framesVars => FramesInv'
  <1> SUFFICES ASSUME NumbersLast, FramesInv, [FramesNext]_framesVars PROVE FramesInv'
    OBVIOUS
  <1>1. CASE UNCHANGED framesVars
    BY <1>1 DEF framesVars, FramesInv, UnderWayFrame, EndsWith
  <1>2. ASSUME FramesNext PROVE FramesInv'
    <2>1. PICK packet \in AllPackets :
            \E intact \in BOOLEAN : ProcessRTPPacket([packet EXCEPT !.intact = intact])
      BY <1>2 DEF FramesNext
    <2>2. PICK ok \in BOOLEAN : ProcessRTPPacket([packet EXCEPT !.intact = ok])
      BY <2>1
    <2>3. PICK f \in 1 .. Len(Frames) : \E i \in 1 .. Frames[f] : packet = Packet(f, i)
      BY AllPacketsAre
    <2>4. PICK i \in 1 .. Frames[f] : packet = Packet(f, i)
      BY <2>3
    <2> DEFINE p == [packet EXCEPT !.intact = ok]
               S == {[q EXCEPT !.intact = b] : q \in AllPackets, b \in BOOLEAN}
    <2>5. /\ p.seq = PacketSeq(f, i) /\ p.data = <<f, i>> /\ p.intact = ok
          /\ p.start <=> i = 1
          /\ p.marker <=> i = Frames[f]
      BY <2>4, PacketFields
    <2>6. p \in S /\ ProcessRTPPacket(p)
      BY <2>2
    <2>7. lately \in Seq(S)
      BY DEF FramesInv
    <2> HIDE DEF p, S
    <2>8. /\ assembly'.lastSeq = p.seq
          /\ assembly'.valid <=> Valid(p) /\ ~p.marker
          /\ assembly'.valid => assembly'.buf = Buffer(p)
          /\ assembled' = IF Valid(p) /\ p.marker /\ Head(Buffer(p))[1] \notin Short
                          THEN assembled \cup {Buffer(p)} ELSE assembled
      BY <2>6, ProcessIs
    <2>9. Valid(p) => Buffer(p) = Part(f, i)
      BY <2>5, BufferIs
    <2>10. Valid(p) /\ i # Frames[f] => UnderWayFrame(f, i)'
      BY <2>5, <2>8, <2>9 DEF UnderWayFrame
    <2>11. assembly'.valid =>
             \E g \in 1 .. Len(Frames) : \E k \in 1 .. Frames[g] - 1 : UnderWayFrame(g, k)'
      <3> SUFFICES ASSUME assembly'.valid
                   PROVE  \E g \in 1 .. Len(Frames) : \E k \in 1 .. Frames[g] - 1 :
                            UnderWayFrame(g, k)'
        OBVIOUS
      <3>1. Valid(p) /\ i # Frames[f]
        BY <2>5, <2>8
      <3>2. i \in 1 .. Frames[f] - 1
        BY <3>1, FrameBounds
      <3> QED BY <2>10, <3>1, <3>2
    <2>12. lately' \in Seq(S)
      <3> DEFINE all == Append(lately, p)
                 d == IF Len(all) > Longest THEN 2 ELSE 1
      <3>1. lately' = SubSeq(all, d, Len(all))
        BY <2>6, ProcessIs
      <3>2. all \in Seq(S) /\ d \in {1, 2}
        BY <2>6, <2>7
      <3> HIDE DEF all, d
      <3> QED BY <3>1, <3>2
    <2>13. Valid(p) /\ i = Frames[f] => Buffer(p) = Whole(f) /\ Head(Buffer(p))[1] = f
      BY <2>9, HandsOn
    <2>14. \A frame \in assembled' : \E g \in 1 .. Len(Frames) : frame = Whole(g)
      BY <2>5, <2>8, <2>13 DEF FramesInv
    <2>15. \A g \in 1 .. Len(Frames) : \A k \in 1 .. Frames[g] :
             EndsWith(g, k)' => /\ k < Frames[g] => UnderWayFrame(g, k)'
                                /\ k = Frames[g] /\ g \notin Short => Whole(g) \in assembled'
      <3> SUFFICES ASSUME NEW g \in 1 .. Len(Frames), NEW k \in 1 .. Frames[g], EndsWith(g, k)'
                   PROVE  /\ k < Frames[g] => UnderWayFrame(g, k)'
                          /\ k = Frames[g] /\ g \notin Short => Whole(g) \in assembled'
        OBVIOUS
      <3>1. k \in Nat /\ k >= 1
        BY FrameBounds
      <3>2. p = Packet(g, k) /\ EndsWith(g, k - 1)
        BY <2>6, <2>7, <3>1, EndsBefore
      <3>3. p.data = <<g, k>> /\ p.intact = TRUE
        BY <3>2 DEF Packet
      <3>4. g = f /\ k = i /\ ok
        BY <2>5, <3>3
      <3>5. i # 1 => assembly.valid /\ Continues(p)
        <4> SUFFICES ASSUME i # 1 PROVE assembly.valid /\ Continues(p)
          OBVIOUS
        <4>1. i - 1 \in 1 .. Frames[f] /\ i - 1 < Frames[f]
          BY FrameBounds
        <4>2. UnderWayFrame(f, i - 1)
          BY <3>2, <3>4, <4>1 DEF FramesInv
        <4>3. PacketSeq(f, i - 1) = (PacketSeq(f, i) + 65535) % 65536
          BY <4>1, SeqContinues
        <4> QED BY <2>5, <4>2, <4>3 DEF UnderWayFrame, Continues
      <3>6. Valid(p)
        BY <2>5, <3>4, <3>5 DEF Valid
      <3>7. k < Frames[g] => UnderWayFrame(g, k)'
        BY <2>10, <3>4, <3>6, FrameBounds
      <3>8. k = Frames[g] /\ g \notin Short => Whole(g) \in assembled'
        BY <2>5, <2>8, <2>13, <3>4, <3>6
      <3> QED BY <3>7, <3>8
    <2> QED BY <2>11, <2>12, <2>14, <2>15 DEF FramesInv, S
  <1> QED BY <1>1, <1>2

LEMMA FramesArrive == FramesInv => FramesAreWhole
  <1> SUFFICES ASSUME FramesInv PROVE FramesAreWhole
    OBVIOUS
  <1>1. \A frame \in assembled : \E f \in DOMAIN Frames : frame = Whole(f)
    BY FrameBounds DEF FramesInv
  <1>2. ASSUME NEW f \in DOMAIN Frames \ Short, IsSuffix(Packets(f), lately)
        PROVE  Whole(f) \in assembled
    <2> DEFINE n == Len(lately)
               k == Frames[f]
    <2>1. f \in 1 .. Len(Frames) /\ k \in Nat /\ k >= 1 /\ k \in 1 .. Frames[f]
      BY FrameBounds
    <2>2. n \in Nat
      BY DEF FramesInv
    <2>3. Len(Packets(f)) = k /\ \A i \in 1 .. k : Packets(f)[i] = Packet(f, i)
      BY <2>1, PacketsAre
    <2>4. /\ Len(Reverse(Packets(f))) = k /\ Len(Reverse(lately)) = n
          /\ \A i \in 1 .. k : Reverse(Packets(f))[i] = Packet(f, k - i + 1)
          /\ \A i \in 1 .. n : Reverse(lately)[i] = lately[n - i + 1]
      BY <2>1, <2>2, <2>3 DEF Reverse
    <2>5. k <= n /\ SubSeq(Reverse(Packets(f)), 1, k) = SubSeq(Reverse(lately), 1, k)
      <3> DEFINE r == Reverse(Packets(f))
                 q == Reverse(lately)
      <3>1. IsPrefix(r, q)
        BY <1>2 DEF IsSuffix
      <3>2. Len(r) <= Len(q) /\ SubSeq(r, 1, Len(r)) = SubSeq(q, 1, Len(r))
        BY <3>1, Zenon DEF IsPrefix
      <3> QED BY <2>4, <3>2
    <2>6. \A i \in 1 .. k : Reverse(Packets(f))[i] = Reverse(lately)[i]
      <3> TAKE i \in 1 .. k
      <3>1. SubSeq(Reverse(Packets(f)), 1, k)[i] = Reverse(Packets(f))[i]
        BY <2>1, <2>4
      <3>2. SubSeq(Reverse(lately), 1, k)[i] = Reverse(lately)[i]
        BY <2>1, <2>2, <2>4, <2>5
      <3> QED BY <2>5, <3>1, <3>2
    <2>7. \A i \in 1 .. k : lately[n - k + i] = Packet(f, i)
      <3> TAKE i \in 1 .. k
      <3>1. k - i + 1 \in 1 .. k /\ k - i + 1 \in 1 .. n
            /\ k - (k - i + 1) + 1 = i /\ n - (k - i + 1) + 1 = n - k + i
        <4>1. k \in Nat /\ n \in Nat /\ k <= n /\ i \in 1 .. k
          BY <2>1, <2>2, <2>5
        <4> HIDE DEF k, n
        <4> QED BY <4>1
      <3> QED BY <2>4, <2>6, <3>1
    <2>8. EndsWith(f, k)
      BY <2>5, <2>7 DEF EndsWith
    <2> QED BY <2>1, <2>8, <1>2 DEF FramesInv
  <1> QED BY <1>1, <1>2 DEF FramesAreWhole

(* What is handed on is one of the frames written, whole, and a frame whose*)
(* packets arrive one after the other is handed on (processRTPPacket), for *)
(* any frames and any first number, while the session's packets have       *)
(* numbers of their own.                                                   *)
THEOREM FramesWhole ==
  ASSUME NumbersLast
  PROVE  Spec => []FramesAreWhole
  <1>1. Init => FramesInv
    BY InitFrames DEF Init
  <1>2. FramesInv /\ [Next]_vars => FramesInv'
    BY NextFrames DEF Next, Path, Through, Assemble, vars
  <1> QED BY <1>1, <1>2, FramesArrive, PTL DEF Spec

-----------------------------------------------------------------------------
(* TypeOK and TunnelIsTransparent. What the parsers return of bytes.       *)
LEMMA HandshakeType ==
  ASSUME NEW bytes \in Seq(Nat), NEW user, NEW pass, Handshake(bytes, user, pass).status = "ok"
  PROVE  /\ Handshake(bytes, user, pass).pos \in Nat
         /\ Handshake(bytes, user, pass).pos >= 1
  <1>1. More.status # "ok" /\ Bad.status # "ok" /\ \A n : Ok(n).pos = n
    BY DEF More, Bad, Ok
  <1>2. Len(bytes) >= 2
    BY <1>1 DEF Handshake, Has
  <1>3. bytes[1] \in Nat /\ bytes[2] \in Nat
    BY <1>2
  <1>4. CASE user = <<>>
    BY <1>1, <1>3, <1>4 DEF Handshake
  <1>5. CASE user # <<>>
    <2> DEFINE pos == 3 + bytes[2]
               ulen == bytes[pos + 1]
               plen == bytes[pos + 2 + ulen]
    <2>1. Handshake(bytes, user, pass) = UserPassAuth(bytes, pos, user, pass)
      BY <1>1, <1>5 DEF Handshake
    <2>2. UserPassAuth(bytes, pos, user, pass).status = "ok"
      BY <2>1
    <2>3. Has(bytes, pos, 2) /\ Has(bytes, pos + 2, ulen + 1)
          /\ UserPassAuth(bytes, pos, user, pass) = Ok(pos + 3 + ulen + plen)
      BY <1>1, <2>2 DEF UserPassAuth
    <2>a. pos \in Nat /\ pos >= 1
      BY <1>3
    <2> HIDE DEF pos
    <2>b. Has(bytes, pos, 2) /\ Has(bytes, pos + 2, ulen + 1)
      BY <2>3
    <2>4. pos + 1 <= Len(bytes)
      BY <2>a, <2>b DEF Has
    <2>5. pos + 1 \in 1 .. Len(bytes)
      BY <2>a, <2>4
    <2>6. ulen \in Nat
      BY <2>5
    <2> HIDE DEF ulen
    <2>7. pos + 2 + ulen \in 1 .. Len(bytes)
      BY <2>a, <2>b, <2>6 DEF Has
    <2>8. plen \in Nat
      BY <2>7
    <2> HIDE DEF plen
    <2> QED BY <1>1, <2>1, <2>3, <2>a, <2>6, <2>8
  <1> QED BY <1>4, <1>5

LEMMA DecimalType ==
  ASSUME NEW n \in Nat
  PROVE  Decimal(n) \in Seq(Nat)
  <1> DEFINE digits == <<48 + n \div 100, 48 + ((n \div 10) % 10), 48 + (n % 10)>>
             d == IF n < 10 THEN 3 ELSE IF n < 100 THEN 2 ELSE 1
  <1>1. 48 + n \div 100 \in Nat /\ 48 + ((n \div 10) % 10) \in Nat /\ 48 + (n % 10) \in Nat
    OBVIOUS
  <1>2. digits \in Seq(Nat) /\ Len(digits) = 3
    BY <1>1
  <1>3. d \in {1, 2, 3}
    OBVIOUS
  <1> HIDE DEF digits, d
  <1>4. SubSeq(digits, d, 3) \in Seq(Nat)
    <2>1. \A i \in 1 .. 3 : digits[i] \in Nat
      BY <1>2, ElementOfSeq
    <2>2. d \in Int /\ \A i \in d .. 3 : i \in 1 .. 3
      BY <1>3
    <2> QED BY <2>1, <2>2, SubSeqProperties
  <1> QED BY <1>4 DEF Decimal, digits, d

LEMMA IPStringType ==
  ASSUME NEW ip \in Seq(Nat), Len(ip) = 4
  PROVE  IPString(ip) \in Seq(Nat)
  <1> DEFINE piece(i) == <<46>> \o Decimal(ip[i])
             pieces(n) == [i \in 1 .. n |-> piece(i)]
  <1>1. \A i \in 1 .. 4 : piece(i) \in Seq(Nat) /\ Len(piece(i)) >= 1
    <2> TAKE i \in 1 .. 4
    <2>1. ip[i] \in Nat
      BY ElementOfSeq
    <2>2. Decimal(ip[i]) \in Seq(Nat)
      BY <2>1, DecimalType
    <2> QED BY <2>2
  <1> HIDE DEF piece
  <1>2. pieces(3) \in Seq(Seq(Nat)) /\ piece(4) \in Seq(Nat) /\ Len(piece(4)) >= 1
    BY <1>1
  <1>3. pieces(4) = Append(pieces(3), piece(4))
    OBVIOUS
  <1> HIDE DEF pieces
  <1>4. FlattenSeq(pieces(4)) = FlattenSeq(pieces(3)) \o piece(4)
    BY <1>2, <1>3, FlattenAppend
  <1>5. FlattenSeq(pieces(3)) \in Seq(Nat)
    BY <1>2, FlattenType
  <1>6. FlattenSeq(pieces(4)) \in Seq(Nat) /\ FlattenSeq(pieces(4)) # <<>>
    <2> DEFINE s == FlattenSeq(pieces(3)) \o piece(4)
    <2>1. s \in Seq(Nat) /\ Len(s) = Len(FlattenSeq(pieces(3))) + Len(piece(4))
      BY <1>2, <1>5, ConcatProperties
    <2>2. Len(s) >= 1
      BY <1>2, <1>5, <2>1
    <2> HIDE DEF s
    <2>3. s # <<>>
      BY <2>2
    <2> QED BY <1>4, <2>1, <2>3 DEF s
  <1>7. IPString(ip) = Tail(FlattenSeq(pieces(4)))
    BY DEF IPString, pieces, piece
  <1> QED BY <1>6, <1>7, HeadTailProperties

LEMMA RequestType ==
  ASSUME NEW bytes \in Seq(Nat), NEW pos \in Nat, pos >= 1, Request(bytes, pos).status = "ok"
  PROVE  LET request == Request(bytes, pos)
         IN  /\ request.pos \in Nat /\ request.pos >= 1
             /\ request.addr \in Seq(Nat) /\ request.port \in Nat
  <1> DEFINE addrType == bytes[pos + 3]
             first == IF addrType = 1 THEN pos + 4 ELSE pos + 5
             n == IF addrType = 1 THEN 4 ELSE bytes[pos + 4]
             addr == Slice(bytes, first, n)
             result == [status |-> "ok", pos |-> first + n + 2,
                        addr |-> IF addrType = 1 THEN IPString(addr) ELSE addr,
                        port |-> 256 * bytes[first + n] + bytes[first + n + 1]]
  <1>1. More.status # "ok" /\ Bad.status # "ok"
    BY DEF More, Bad
  <1>2. /\ Has(bytes, pos, 4) /\ Has(bytes, pos, first - pos) /\ Has(bytes, first, n + 2)
        /\ Request(bytes, pos) = result
    BY <1>1 DEF Request
  <1>3. first \in Nat /\ first >= pos + 4 /\ (addrType # 1 => first = pos + 5)
    OBVIOUS
  <1>4. n \in Nat
    <2>1. CASE addrType = 1
      BY <2>1
    <2>2. CASE addrType # 1
      <3>1. pos + 4 \in 1 .. Len(bytes)
        BY <1>2, <1>3, <2>2 DEF Has
      <3> QED BY <3>1, <2>2
    <2> QED BY <2>1, <2>2
  <1>5. addrType = 1 => n = 4
    OBVIOUS
  <1> HIDE DEF first, n, addrType
  <1>6. first + n + 1 <= Len(bytes) /\ first + n - 1 <= Len(bytes) /\ first >= 1
    BY <1>2, <1>3, <1>4 DEF Has
  <1>7. addr \in Seq(Nat) /\ Len(addr) = n
    BY <1>3, <1>4, <1>6 DEF Slice
  <1>8. bytes[first + n] \in Nat /\ bytes[first + n + 1] \in Nat
    BY <1>3, <1>4, <1>6
  <1> HIDE DEF addr
  <1>9. (IF addrType = 1 THEN IPString(addr) ELSE addr) \in Seq(Nat)
    BY <1>5, <1>7, IPStringType
  <1>10. first + n + 2 \in Nat /\ first + n + 2 >= 1
         /\ 256 * bytes[first + n] + bytes[first + n + 1] \in Nat
    BY <1>3, <1>4, <1>8
  <1> QED BY <1>2, <1>9, <1>10

LEMMA ThroughJsonType ==
  ASSUME NEW addr \in Seq(Nat)
  PROVE  ThroughJson(addr) \in Seq(Nat)
  <1> DEFINE s == [i \in DOMAIN addr |-> IF addr[i] < 128 THEN <<addr[i]>> ELSE <<239, 191, 189>>]
  <1>1. \A i \in DOMAIN addr : s[i] \in Seq(Nat)
    OBVIOUS
  <1>2. s \in Seq(Seq(Nat))
    <2>1. DOMAIN s = 1 .. Len(addr) /\ Len(addr) \in Nat
      OBVIOUS
    <2>2. s = [i \in 1 .. Len(addr) |-> s[i]]
      OBVIOUS
    <2> HIDE DEF s
    <2>3. [i \in 1 .. Len(addr) |-> s[i]] \in [1 .. Len(addr) -> Seq(Nat)]
      BY <1>1, <2>1
    <2>4. s \in [1 .. Len(addr) -> Seq(Nat)]
      BY <2>2, <2>3
    <2> QED BY <2>1, <2>4, SeqDef
  <1> HIDE DEF s
  <1>3. FlattenSeq(s) \in Seq(Nat)
    BY <1>2, FlattenType
  <1> QED BY <1>3 DEF ThroughJson, s

(* The proxy is asked for what the server was, the address cut to 255.     *)
Cut(addr) == IF Len(addr) > 255 THEN SubSeq(addr, 1, 255) ELSE addr

LEMMA ProxyIsAsked ==
  ASSUME NEW addr \in Seq(Nat), NEW port \in Nat
  PROVE  LET request == Request(ProxyRequest(addr, port), 1)
         IN  request.addr = Cut(addr) /\ request.port = port
  <1> DEFINE cut == Cut(addr)
             n == Len(cut)
             bytes == <<5, 1, 0, 3, n>> \o cut \o <<port \div 256, port % 256>>
  <1>1. cut \in Seq(Nat)
    <2>1. CASE Len(addr) > 255
      <3>1. \A i \in 1 .. 255 : i \in 1 .. Len(addr)
        BY <2>1
      <3>2. \A i \in 1 .. 255 : addr[i] \in Nat
        BY <3>1, ElementOfSeq
      <3>3. SubSeq(addr, 1, 255) \in Seq(Nat)
        BY <3>2, SubSeqProperties
      <3> QED BY <2>1, <3>3 DEF Cut
    <2>2. CASE ~(Len(addr) > 255)
      BY <2>2 DEF Cut
    <2> QED BY <2>1, <2>2
  <1> HIDE DEF cut
  <1>2. n \in Nat /\ port \div 256 \in Nat /\ port % 256 \in Nat
        /\ 256 * (port \div 256) + (port % 256) = port
    <2>1. n \in Nat
      BY <1>1
    <2>2. port \div 256 \in Nat /\ port % 256 \in Nat
          /\ 256 * (port \div 256) + (port % 256) = port
      OBVIOUS
    <2> QED BY <2>1, <2>2
  <1>3. ProxyRequest(addr, port) = bytes
    BY DEF ProxyRequest, Cut, cut
  <1>4. <<5, 1, 0, 3, n>> \o cut \in Seq(Nat) /\ Len(<<5, 1, 0, 3, n>> \o cut) = 5 + n
    BY <1>1, <1>2
  <1>5. /\ Len(bytes) = 7 + n /\ bytes \in Seq(Nat)
        /\ bytes[2] = 1 /\ bytes[4] = 3 /\ bytes[5] = n
        /\ bytes[6 + n] = port \div 256 /\ bytes[7 + n] = port % 256
        /\ \A i \in 1 .. n : bytes[5 + i] = cut[i]
    <2> DEFINE head == <<5, 1, 0, 3, n>>
               hi == port \div 256
               lo == port % 256
    <2>1. head \in Seq(Nat) /\ Len(head) = 5 /\ head[2] = 1 /\ head[4] = 3 /\ head[5] = n
      BY <1>2
    <2>2. hi \in Nat /\ lo \in Nat /\ n \in Nat
      BY <1>2
    <2> HIDE DEF head, hi, lo
    <2>3. /\ head \o cut \in Seq(Nat) /\ Len(head \o cut) = 5 + n
          /\ \A i \in 1 .. 5 : (head \o cut)[i] = head[i]
          /\ \A i \in 1 .. n : (head \o cut)[5 + i] = cut[i]
      <3>1. /\ head \o cut \in Seq(Nat) /\ Len(head \o cut) = Len(head) + Len(cut)
            /\ \A i \in 1 .. Len(head) + Len(cut) :
                 (head \o cut)[i] = IF i <= Len(head) THEN head[i] ELSE cut[i - Len(head)]
        BY <1>1, <2>1, ConcatProperties
      <3>2. Len(head) = 5 /\ Len(cut) = n
        BY <2>1
      <3> HIDE DEF n
      <3>3. \A i \in 1 .. 5 : i \in 1 .. 5 + n /\ i <= 5
        BY <2>2
      <3>4. \A i \in 1 .. n : 5 + i \in 1 .. 5 + n /\ ~(5 + i <= 5) /\ 5 + i - 5 = i
        BY <2>2
      <3>5. head \o cut \in Seq(Nat) /\ Len(head \o cut) = 5 + n
        BY <3>1, <3>2
      <3>6. \A i \in 1 .. 5 : (head \o cut)[i] = head[i]
        BY <3>1, <3>2, <3>3
      <3>7. \A i \in 1 .. n : (head \o cut)[5 + i] = cut[i]
        BY <3>1, <3>2, <3>4
      <3> QED BY <3>5, <3>6, <3>7
    <2> DEFINE front == head \o cut
    <2> HIDE DEF front
    <2>4. /\ front \in Seq(Nat) /\ Len(front) = 5 + n
          /\ \A i \in 1 .. 5 : front[i] = head[i]
          /\ \A i \in 1 .. n : front[5 + i] = cut[i]
      BY <2>3 DEF front
    <2> HIDE DEF n
    <2>5. /\ front \o <<hi, lo>> \in Seq(Nat) /\ Len(front \o <<hi, lo>>) = 7 + n
          /\ \A i \in 1 .. 5 + n : (front \o <<hi, lo>>)[i] = front[i]
          /\ (front \o <<hi, lo>>)[6 + n] = hi /\ (front \o <<hi, lo>>)[7 + n] = lo
      BY <2>2, <2>4
    <2>6. bytes = front \o <<hi, lo>>
      BY DEF front, head, hi, lo
    <2> HIDE DEF bytes
    <2>7. /\ Len(bytes) = 7 + n /\ bytes \in Seq(Nat)
          /\ bytes[6 + n] = hi /\ bytes[7 + n] = lo
      BY <2>5, <2>6
    <2>8. \A i \in 1 .. 5 + n : bytes[i] = front[i]
      BY <2>5, <2>6
    <2>9. bytes[2] = 1 /\ bytes[4] = 3 /\ bytes[5] = n
      BY <2>1, <2>2, <2>4, <2>8
    <2>10. ASSUME NEW i \in 1 .. n PROVE bytes[5 + i] = cut[i]
      <3>1. 5 + i \in 1 .. 5 + n
        BY <2>2
      <3> QED BY <2>4, <2>8, <3>1
    <2> QED BY <2>7, <2>9, <2>10 DEF hi, lo
  <1> HIDE DEF n
  <1>6. Slice(bytes, 6, n) = cut
    <2> HIDE DEF bytes
    <2>1. Slice(bytes, 6, n) = SubSeq(bytes, 6, 6 + n - 1)
      BY DEF Slice
    <2>2. /\ SubSeq(bytes, 6, 6 + n - 1) \in Seq(Nat)
          /\ Len(SubSeq(bytes, 6, 6 + n - 1)) = n
          /\ \A i \in 1 .. n : SubSeq(bytes, 6, 6 + n - 1)[i] = bytes[5 + i]
      <3>1. 6 \in Int /\ 6 + n - 1 \in Int /\ 6 <= 6 + n
            /\ \A i \in 6 .. 6 + n - 1 : i \in 1 .. Len(bytes)
        BY <1>2, <1>5
      <3>2. \A i \in 6 .. 6 + n - 1 : bytes[i] \in Nat
        BY <1>5, <3>1, ElementOfSeq
      <3>3. /\ SubSeq(bytes, 6, 6 + n - 1) \in Seq(Nat)
            /\ Len(SubSeq(bytes, 6, 6 + n - 1)) =
                 IF 6 <= 6 + n - 1 THEN (6 + n - 1) - 6 + 1 ELSE 0
            /\ \A i \in 1 .. (6 + n - 1) - 6 + 1 :
                 SubSeq(bytes, 6, 6 + n - 1)[i] = bytes[6 + i - 1]
        BY <3>1, <3>2, SubSeqProperties
      <3>4. (6 + n - 1) - 6 + 1 = n /\ \A i \in 1 .. n : 6 + i - 1 = 5 + i
        BY <1>2
      <3> QED BY <1>2, <3>3, <3>4
    <2>3. Len(cut) = n
      BY DEF n
    <2>4. /\ Slice(bytes, 6, n) \in Seq(Nat) /\ Len(Slice(bytes, 6, n)) = Len(cut)
          /\ \A i \in 1 .. Len(cut) : Slice(bytes, 6, n)[i] = cut[i]
      <3>1. ASSUME NEW i \in 1 .. n PROVE Slice(bytes, 6, n)[i] = cut[i]
        BY <1>5, <2>1, <2>2
      <3> QED BY <2>1, <2>2, <2>3, <3>1
    <2> QED BY <1>1, <2>4, SeqEqual
  <1> HIDE DEF bytes
  <1>7. /\ Has(bytes, 1, 4) /\ Has(bytes, 1, 5) /\ Has(bytes, 6, n + 2)
        /\ 1 + 1 = 2 /\ 1 + 3 = 4 /\ 1 + 4 = 5 /\ 1 + 5 = 6 /\ 6 - 1 = 5
        /\ 6 + n + 1 = 7 + n
    BY <1>2, <1>5 DEF Has
  <1>8. Request(bytes, 1) = [status |-> "ok", pos |-> 6 + n + 2, addr |-> Slice(bytes, 6, n),
                             port |-> 256 * bytes[6 + n] + bytes[7 + n]]
    <2>1. /\ bytes[1 + 1] = 1 /\ bytes[1 + 3] = 3 /\ bytes[1 + 4] = n
      BY <1>5, <1>7
    <2> DEFINE addrType == bytes[1 + 3]
               first == IF addrType = 1 THEN 1 + 4 ELSE 1 + 5
               m == IF addrType = 1 THEN 4 ELSE bytes[1 + 4]
    <2>2. addrType = 3 /\ first = 6 /\ m = n
      BY <2>1
    <2>3. Request(bytes, 1) =
            IF ~Has(bytes, 1, 4) THEN More
            ELSE IF bytes[1 + 1] # 1 \/ addrType \notin {1, 3} THEN Bad
            ELSE IF ~Has(bytes, 1, first - 1) THEN More
            ELSE IF ~Has(bytes, first, m + 2) THEN More
            ELSE [status |-> "ok", pos |-> first + m + 2,
                  addr |-> IF addrType = 1 THEN IPString(Slice(bytes, first, m))
                           ELSE Slice(bytes, first, m),
                  port |-> 256 * bytes[first + m] + bytes[first + m + 1]]
      BY DEF Request
    <2> HIDE DEF addrType, first, m
    <2> QED BY <1>7, <2>1, <2>2, <2>3
  <1>9. 256 * bytes[6 + n] + bytes[7 + n] = port /\ 6 + n + 2 = 8 + n
    BY <1>2, <1>5
  <1>10. Len(bytes) = 7 + n
    BY <1>5
  <1> HIDE DEF n
  <1> QED BY <1>3, <1>6, <1>8, <1>9, <1>10 DEF cut

(* What is asked for at the end of the tunnel, and who asks.               *)
Parsed == Asked.status = "ok"
Place ==
  LET addr == ThroughJson(Asked.addr)
  IN  [addr |-> IF script.viaProxy THEN Cut(addr) ELSE addr, port |-> Asked.port]
Reached == Parsed /\ script.sameId /\ dialled = Place

(* What the target may answer: what is left of the proxy's reply is first. *)
Answers == [i \in 1 .. Answer |-> i]
Fulls == {left \o Answers : left \in IF script.viaProxy THEN {<<>>, <<Junk>>} ELSE {<<>>}}

TunnelFrame == {"req", "ack", "data"} \X Nat
Duct == [frames : Seq(TunnelFrame), fin : BOOLEAN]

TunnelTypes ==
  /\ script \in Scripts /\ app \in {"open", "finished", "gone"}
  /\ client \in [pc : ClientPc, copy : CopyPc, sent : Nat]
  /\ server \in [pc : ServerPc, copy : CopyPc]
  /\ stream \in [Side -> {"none", "open", "closed"}]
  /\ dead \subseteq Side
  /\ up \in Duct /\ down \in Duct /\ header \in Seq(TunnelFrame)
  /\ target \in [state : {"none", "open", "closed"}, sends : Seq(Nat)]
  /\ replies \in {<<>>, <<"success">>, <<"unreachable">>}
  /\ toTarget \in Seq(Nat) /\ toApp \in Seq(Nat)

(* How far the two handlers are: the client's replies only when the server *)
(* acknowledged, and the server acknowledges what it reached.              *)
Early == {"handshake", "session", "open", "request", "ack"}
Unserved == {"none", "read", "dial", "proxy", "ack"}
Progress ==
  /\ client.pc \in {"handshake", "session", "open"} <=> client.pc # "done" /\ stream["near"] = "none"
  /\ stream["near"] # "none" \/ client.pc \notin {"handshake", "done"} => Parsed
  /\ client.pc \in {"handshake", "session", "open", "request"} =>
       up.frames = <<>> /\ header = <<>>
  /\ client.pc \in Early \cup {"reply"} =>
       client.copy = "none" /\ client.sent = 0 /\ replies = <<>> /\ toApp = <<>>
  /\ client.pc \in {"pipe", "write"} \/ client.sent > 0 \/ toApp # <<>> => replies = <<"success">>
  /\ server.pc # "none" => stream["near"] # "none"
  /\ server.pc \in {"none", "read"} => Len(header) < 2
  /\ server.pc \in {"dial", "proxy", "ack", "pipe", "write"} => header = Json /\ script.sameId
  /\ server.pc = "proxy" => script.viaProxy
  /\ server.pc \in Unserved =>
       /\ client.pc \notin {"reply", "pipe", "write"} /\ replies # <<"success">>
       /\ down.frames = <<>> /\ toTarget = <<>> /\ toApp = <<>>
  /\ server.pc \in {"ack", "pipe", "write"} \/ down.frames # <<>> => Reached
  /\ client.pc \in {"reply", "pipe", "write"} \/ replies = <<"success">> => Reached

(* The two directions: what is read next is the next of what is written.   *)
UpTaken == IF server.pc \in {"none", "read"} THEN Len(header) ELSE 2 + Len(toTarget)
UpNth(i) == IF i <= 2 THEN Json[i] ELSE <<"data", Data[i - 2]>>
UpFlow ==
  /\ Len(header) <= 2 /\ \A i \in 1 .. Len(header) : header[i] = Json[i]
  /\ Parsed => client.sent <= Len(Data)
  /\ Len(toTarget) <= client.sent /\ \A i \in 1 .. Len(toTarget) : toTarget[i] = Data[i]
  /\ server.pc # "done" =>
       /\ UpTaken + Len(up.frames) <= 2 + client.sent
       /\ \A i \in 1 .. Len(up.frames) : up.frames[i] = UpNth(UpTaken + i)
       /\ "near" \notin dead /\ client.pc \in {"ack", "reply", "pipe", "write"} =>
            UpTaken + Len(up.frames) = 2 + client.sent

DownTaken == IF client.pc \in {"reply", "pipe", "write"} THEN 1 + Len(toApp) ELSE 0
DownNth(full, i) == IF i = 1 THEN Ack ELSE <<"data", full[i - 1]>>
DownFlow(full) ==
  /\ Len(toApp) <= Len(full) /\ \A i \in 1 .. Len(toApp) : toApp[i] = full[i]
  /\ server.pc = "ack" => target.sends = full
  /\ server.pc \in {"pipe", "write"} =>
       /\ Len(target.sends) <= Len(full)
       /\ \A i \in 1 .. Len(target.sends) :
            target.sends[i] = full[Len(full) - Len(target.sends) + i]
  /\ client.pc # "done" =>
       /\ DownTaken + Len(down.frames) <= 1 + Len(full)
       /\ \A i \in 1 .. Len(down.frames) : down.frames[i] = DownNth(full, DownTaken + i)
       /\ "far" \notin dead /\ server.pc \in {"pipe", "write"} =>
            DownTaken + Len(down.frames) + Len(target.sends) = 1 + Len(full)

TunnelInv == TunnelTypes /\ Progress /\ UpFlow /\ \E full \in Fulls : DownFlow(full)

(* A handler that is done has closed its end; a copy that writes has what  *)
(* it writes.                                                              *)
Copying ==
  /\ client.pc = "done" => stream["near"] # "open"
  /\ server.pc = "done" => stream["far"] # "open"
  /\ server.copy # "none" => server.pc \in {"pipe", "write", "done"}
  /\ client.copy = "writes" => client.sent < Len(Data)
  /\ server.copy = "writes" => target.sends # <<>>

LEMMA SameScript ==
  ASSUME script' = script
  PROVE  /\ Asked' = Asked /\ Data' = Data
         /\ Parsed' <=> Parsed
         /\ Place' = Place /\ Fulls' = Fulls /\ \A i : UpNth(i)' = UpNth(i)
  <1>2. Asked' = Asked
    BY DEF Asked, Readings, Reading
  <1>3. Data' = Data
    BY <1>2 DEF Data
  <1>4. Parsed' <=> Parsed
    BY <1>2 DEF Parsed
  <1>5. Place' = Place
    BY <1>2 DEF Place
  <1>6. Fulls' = Fulls
    BY DEF Fulls, Answers
  <1>7. \A i : UpNth(i)' = UpNth(i)
    BY <1>3 DEF UpNth
  <1> QED BY <1>2, <1>3, <1>4, <1>5, <1>6, <1>7

LEMMA ScriptType ==
  ASSUME script \in Scripts, Parsed
  PROVE  Data \in Seq(Nat) /\ Asked.addr \in Seq(Nat) /\ Asked.port \in Nat
  <1>1. script.bytes \in Seq(0 .. 255)
    BY TunnelAssumption
  <1>2. script.bytes \in Seq(Nat)
    <2>1. 0 .. 255 \subseteq Nat
      OBVIOUS
    <2> QED BY <1>1, <2>1, SeqMonotonic
  <1> DEFINE greeting == Handshake(script.bytes, script.user, script.pass)
  <1>3. /\ greeting.status = "ok" /\ Asked = Request(script.bytes, greeting.pos)
        /\ Asked.status = "ok"
    BY DEF Parsed, Asked, Readings, Reading
  <1> HIDE DEF greeting
  <1>4. /\ Asked.pos \in Nat /\ Asked.pos >= 1
        /\ Asked.addr \in Seq(Nat) /\ Asked.port \in Nat
    <2>1. greeting.pos \in Nat /\ greeting.pos >= 1
      BY <1>2, <1>3, HandshakeType DEF greeting
    <2>2. Request(script.bytes, greeting.pos).status = "ok"
      BY <1>3
    <2> QED BY <1>2, <1>3, <2>1, <2>2, RequestType
  <1> DEFINE n == Len(script.bytes)
  <1>5. n \in Nat /\ Asked.pos \in Int /\ \A i \in Asked.pos .. n : i \in 1 .. n
    BY <1>2, <1>4
  <1>6. \A i \in Asked.pos .. n : script.bytes[i] \in Nat
    BY <1>2, <1>5, ElementOfSeq
  <1>7. SubSeq(script.bytes, Asked.pos, n) \in Seq(Nat)
    BY <1>5, <1>6, SubSeqProperties
  <1> QED BY <1>4, <1>7 DEF Data

LEMMA FullsType == \A full \in Fulls : full \in Seq(Nat)
  <1>1. Answer \in Nat
    BY TunnelAssumption
  <1>2. Answers \in Seq(Nat)
    BY <1>1 DEF Answers
  <1>3. \A left \in {<<>>, <<Junk>>} : left \in Seq(Nat)
    <2>1. <<>> \in Seq(Nat) /\ <<Junk>> \in Seq(Nat)
      BY DEF Junk
    <2> QED BY <2>1
  <1>4. \A left \in {<<>>, <<Junk>>} : left \o Answers \in Seq(Nat)
    BY <1>2, <1>3, ConcatProperties
  <1> QED BY <1>4 DEF Fulls

(* A step that moves no data leaves the two directions as they are.        *)
LEMMA UpStays ==
  ASSUME UpFlow, UNCHANGED <<script, header, toTarget>>, up'.frames = up.frames,
         client'.sent = client.sent,
         server'.pc # "done" => server.pc # "done" /\ UpTaken' = UpTaken,
         server'.pc # "done" /\ "near" \notin dead' /\ client'.pc \in {"ack", "reply", "pipe", "write"} =>
           "near" \notin dead /\ client.pc \in {"ack", "reply", "pipe", "write"}
  PROVE  UpFlow'
  <1>1. Data' = Data /\ (Parsed' <=> Parsed) /\ \A i : UpNth(i)' = UpNth(i)
    BY SameScript
  <1> QED BY <1>1 DEF UpFlow

LEMMA DownStays ==
  ASSUME NEW full, DownFlow(full), toApp' = toApp, down'.frames = down.frames,
         target'.sends = target.sends,
         server'.pc = "ack" => server.pc = "ack",
         server'.pc \in {"pipe", "write"} => server.pc \in {"pipe", "write"},
         client'.pc # "done" =>
           /\ client.pc # "done"
           /\ client'.pc \in {"reply", "pipe", "write"} <=>
                client.pc \in {"reply", "pipe", "write"},
         dead \subseteq dead'
  PROVE  DownFlow(full)'
  <1>1. client'.pc # "done" => DownTaken' = DownTaken
    BY DEF DownTaken
  <1>2. \A i : DownNth(full, i)' = DownNth(full, i)
    BY DEF DownNth
  <1> QED BY <1>1, <1>2 DEF DownFlow

LEMMA ProgressStays ==
  ASSUME Progress, UNCHANGED <<script, header, toTarget, toApp, replies, dialled, client, server>>,
         stream'["near"] = "none" <=> stream["near"] = "none",
         up.frames = <<>> => up'.frames = <<>>, down.frames = <<>> => down'.frames = <<>>
  PROVE  Progress'
  <1>1. (Parsed' <=> Parsed) /\ Place' = Place
    BY SameScript
  <1>2. Reached' <=> Reached
    BY <1>1 DEF Reached
  <1> QED BY <1>1, <1>2 DEF Progress

LEMMA CloseUp ==
  ASSUME TunnelTypes, Close("near", up)
  PROVE  /\ up' \in Duct /\ up'.frames = up.frames
         /\ stream' \in [Side -> {"none", "open", "closed"}]
         /\ \A s \in Side : stream'[s] = "none" <=> stream[s] = "none"
  <1>1. up' = [up EXCEPT !.fin = @ \/ (stream["near"] = "open" /\ "near" \notin dead)]
    BY DEF Close
  <1>2. stream' = [stream EXCEPT !["near"] = IF @ = "open" THEN "closed" ELSE @]
    BY DEF Close
  <1>3. up' \in Duct /\ up'.frames = up.frames
    BY <1>1 DEF TunnelTypes, Duct
  <1> QED BY <1>2, <1>3 DEF TunnelTypes, Side

LEMMA CloseDown ==
  ASSUME TunnelTypes, Close("far", down)
  PROVE  /\ down' \in Duct /\ down'.frames = down.frames
         /\ stream' \in [Side -> {"none", "open", "closed"}]
         /\ \A s \in Side : stream'[s] = "none" <=> stream[s] = "none"
  <1>1. down' = [down EXCEPT !.fin = @ \/ (stream["far"] = "open" /\ "far" \notin dead)]
    BY DEF Close
  <1>2. stream' = [stream EXCEPT !["far"] = IF @ = "open" THEN "closed" ELSE @]
    BY DEF Close
  <1>3. down' \in Duct /\ down'.frames = down.frames
    BY <1>1 DEF TunnelTypes, Duct
  <1> QED BY <1>2, <1>3 DEF TunnelTypes, Side

LEMMA HandlerEndsIs ==
  ASSUME TunnelTypes, HandlerEnds
  PROVE  /\ server' \in [pc : ServerPc, copy : CopyPc] /\ server'.pc = "done"
         /\ down' \in Duct /\ down'.frames = down.frames
         /\ stream' \in [Side -> {"none", "open", "closed"}]
         /\ \A s \in Side : stream'[s] = "none" <=> stream[s] = "none"
         /\ target' \in [state : {"none", "open", "closed"}, sends : Seq(Nat)]
         /\ target'.sends = target.sends
  <1>1. Close("far", down)
    BY DEF HandlerEnds
  <1>2. server' = [server EXCEPT !.pc = "done"]
    BY DEF HandlerEnds
  <1>3. target' = [target EXCEPT !.state = IF @ = "open" THEN "closed" ELSE @]
    BY DEF HandlerEnds
  <1>4. server' \in [pc : ServerPc, copy : CopyPc] /\ server'.pc = "done"
    BY <1>2 DEF TunnelTypes, ServerPc
  <1>5. target' \in [state : {"none", "open", "closed"}, sends : Seq(Nat)]
        /\ target'.sends = target.sends
    BY <1>3 DEF TunnelTypes
  <1> QED BY <1>1, <1>4, <1>5, CloseDown

LEMMA InitTunnel == TunnelInit => TunnelInv
  <1> SUFFICES ASSUME TunnelInit PROVE TunnelInv
    OBVIOUS
  <1>1. TunnelTypes
    BY DEF TunnelInit, TunnelTypes, ClientPc, ServerPc, CopyPc, Side, Empty, Duct
  <1>2. Progress
    BY DEF TunnelInit, Progress, Empty, Side, Early, Unserved
  <1>3. UpFlow
    <2>1. Parsed => Data \in Seq(Nat)
      BY <1>1, ScriptType DEF TunnelTypes
    <2> QED BY <2>1 DEF TunnelInit, UpFlow, UpTaken, Empty
  <1>4. ASSUME NEW full \in Fulls PROVE DownFlow(full)
    <2>1. full \in Seq(Nat)
      BY FullsType
    <2> QED BY <2>1 DEF TunnelInit, DownFlow, DownTaken, Empty
  <1>5. <<>> \o Answers \in Fulls
    BY DEF Fulls
  <1> QED BY <1>1, <1>2, <1>3, <1>4, <1>5 DEF TunnelInv

(* The environment.                                                        *)
LEMMA EndsTunnel ==
  ASSUME TunnelInv, AppFinishes \/ AppLeaves \/ TargetEnds
  PROVE  TunnelInv'
  <1>1. /\ UNCHANGED <<script, client, server, stream, up, down, dead, header, dialled, replies,
                       toTarget, toApp>>
        /\ target'.sends = target.sends
        /\ target' \in [state : {"none", "open", "closed"}, sends : Seq(Nat)]
        /\ app' \in {"open", "finished", "gone"}
    BY DEF TunnelInv, TunnelTypes, AppFinishes, AppLeaves, TargetEnds
  <1>2. TunnelTypes'
    BY <1>1 DEF TunnelInv, TunnelTypes
  <1>3. Progress'
    BY <1>1, ProgressStays DEF TunnelInv
  <1>4. UpFlow'
    <2>1. UpTaken' = UpTaken
      BY <1>1 DEF UpTaken
    <2> QED BY <1>1, <2>1, UpStays DEF TunnelInv
  <1>5. \A full \in Fulls : DownFlow(full) => DownFlow(full)'
    BY <1>1, DownStays
  <1>6. Fulls' = Fulls
    BY <1>1, SameScript
  <1> QED BY <1>2, <1>3, <1>4, <1>5, <1>6 DEF TunnelInv

LEMMA LoseIs ==
  ASSUME NEW s \in Seq(TunnelFrame), NEW n \in 0 .. Len(s)
  PROVE  /\ SubSeq(s, 1, n) \in Seq(TunnelFrame) /\ Len(SubSeq(s, 1, n)) = n
         /\ \A i \in 1 .. n : SubSeq(s, 1, n)[i] = s[i]
  <1>1. n \in Int /\ n \in Nat /\ \A i \in 1 .. n : i \in 1 .. Len(s)
    OBVIOUS
  <1>2. \A i \in 1 .. n : s[i] \in TunnelFrame
    BY <1>1, ElementOfSeq
  <1>3. /\ SubSeq(s, 1, n) \in Seq(TunnelFrame)
        /\ Len(SubSeq(s, 1, n)) = IF 1 <= n THEN n - 1 + 1 ELSE 0
        /\ \A i \in 1 .. n - 1 + 1 : SubSeq(s, 1, n)[i] = s[1 + i - 1]
    BY <1>1, <1>2, SubSeqProperties
  <1>4. n - 1 + 1 = n /\ \A i \in 1 .. n : 1 + i - 1 = i
    BY <1>1
  <1> QED BY <1>1, <1>3, <1>4

LEMMA SessionEndsTunnel ==
  ASSUME TunnelInv, NEW side \in Side, SessionEnds(side)
  PROVE  TunnelInv'
  <1>1. /\ UNCHANGED <<script, app, client, server, stream, header, target, dialled, replies,
                       toTarget, toApp>>
        /\ dead' = dead \cup {side}
    BY DEF SessionEnds
  <1>2. (Parsed' <=> Parsed) /\ Place' = Place /\ Fulls' = Fulls /\ Data' = Data
        /\ \A i : UpNth(i)' = UpNth(i)
    BY <1>1, SameScript
  <1>3. CASE side = "near"
    <2>1. down' = down /\ "near" \in dead'
      BY <1>1, <1>3 DEF SessionEnds
    <2>2. PICK n \in 0 .. Len(up.frames) :
            up' = [frames |-> SubSeq(up.frames, 1, n), fin |-> up.fin /\ n = Len(up.frames)]
      BY <1>3 DEF SessionEnds, Lose
    <2>3. up.frames \in Seq(TunnelFrame) /\ Len(up.frames) \in Nat
      BY DEF TunnelInv, TunnelTypes, Duct
    <2>4. /\ up'.frames \in Seq(TunnelFrame) /\ Len(up'.frames) = n
          /\ \A i \in 1 .. n : up'.frames[i] = up.frames[i]
      BY <2>2, <2>3, LoseIs
    <2>5. TunnelTypes'
      BY <1>1, <2>1, <2>2, <2>4 DEF TunnelInv, TunnelTypes, Duct, Side
    <2>6. Progress'
      <3>1. up.frames = <<>> => up'.frames = <<>>
        BY <2>3, <2>4
      <3> QED BY <1>1, <2>1, <3>1, ProgressStays DEF TunnelInv
    <2>7. UpFlow'
      <3>1. UpTaken' = UpTaken /\ n <= Len(up.frames) /\ n \in Nat
        BY <1>1, <2>3 DEF UpTaken
      <3>2. UpTaken \in Nat /\ client.sent \in Nat
        BY DEF TunnelInv, TunnelTypes, UpTaken
      <3>3. server.pc # "done" =>
              /\ UpTaken + n <= 2 + client.sent
              /\ \A i \in 1 .. n : up'.frames[i] = UpNth(UpTaken + i)
        <4> SUFFICES ASSUME server.pc # "done"
                     PROVE  /\ UpTaken + n <= 2 + client.sent
                            /\ \A i \in 1 .. n : up'.frames[i] = UpNth(UpTaken + i)
          OBVIOUS
        <4>1. UpTaken + Len(up.frames) <= 2 + client.sent
          BY DEF TunnelInv, UpFlow
        <4>2. \A i \in 1 .. Len(up.frames) : up.frames[i] = UpNth(UpTaken + i)
          BY DEF TunnelInv, UpFlow
        <4>3. \A i \in 1 .. n : i \in 1 .. Len(up.frames)
          BY <2>3, <3>1
        <4>4. \A i \in 1 .. n : up'.frames[i] = UpNth(UpTaken + i)
          BY <2>4, <4>2, <4>3
        <4>5. UpTaken + n <= 2 + client.sent
          BY <2>3, <3>1, <3>2, <4>1
        <4> QED BY <4>4, <4>5
      <3> QED BY <1>1, <1>2, <2>1, <2>4, <3>1, <3>3 DEF TunnelInv, UpFlow
    <2>8. \A full \in Fulls : DownFlow(full) => DownFlow(full)'
      BY <1>1, <2>1, DownStays
    <2> QED BY <1>2, <2>5, <2>6, <2>7, <2>8 DEF TunnelInv
  <1>4. CASE side = "far"
    <2>1. up' = up /\ "far" \in dead'
      BY <1>1, <1>4 DEF SessionEnds
    <2>2. PICK n \in 0 .. Len(down.frames) :
            down' = [frames |-> SubSeq(down.frames, 1, n),
                     fin |-> down.fin /\ n = Len(down.frames)]
      BY <1>4 DEF SessionEnds, Lose
    <2>3. down.frames \in Seq(TunnelFrame) /\ Len(down.frames) \in Nat
      BY DEF TunnelInv, TunnelTypes, Duct
    <2>4. /\ down'.frames \in Seq(TunnelFrame) /\ Len(down'.frames) = n
          /\ \A i \in 1 .. n : down'.frames[i] = down.frames[i]
      BY <2>2, <2>3, LoseIs
    <2>5. TunnelTypes'
      BY <1>1, <2>1, <2>2, <2>4 DEF TunnelInv, TunnelTypes, Duct, Side
    <2>6. Progress'
      <3>1. down.frames = <<>> => down'.frames = <<>>
        BY <2>3, <2>4
      <3> QED BY <1>1, <2>1, <3>1, ProgressStays DEF TunnelInv
    <2>7. UpFlow'
      <3>1. UpTaken' = UpTaken
        BY <1>1 DEF UpTaken
      <3> QED BY <1>1, <2>1, <3>1, UpStays DEF TunnelInv
    <2>8. ASSUME NEW full \in Fulls, DownFlow(full) PROVE DownFlow(full)'
      <3>1. DownTaken' = DownTaken /\ \A i : DownNth(full, i)' = DownNth(full, i)
        BY <1>1 DEF DownTaken, DownNth
      <3>2. DownTaken \in Nat /\ n \in Nat /\ n <= Len(down.frames) /\ Len(full) \in Nat
        BY <2>3, FullsType DEF TunnelInv, TunnelTypes, DownTaken
      <3>3. client.pc # "done" =>
              /\ DownTaken + n <= 1 + Len(full)
              /\ \A i \in 1 .. n : down'.frames[i] = DownNth(full, DownTaken + i)
        <4> SUFFICES ASSUME client.pc # "done"
                     PROVE  /\ DownTaken + n <= 1 + Len(full)
                            /\ \A i \in 1 .. n : down'.frames[i] = DownNth(full, DownTaken + i)
          OBVIOUS
        <4>1. DownTaken + Len(down.frames) <= 1 + Len(full)
          BY <2>8 DEF DownFlow
        <4>2. \A i \in 1 .. Len(down.frames) : down.frames[i] = DownNth(full, DownTaken + i)
          BY <2>8 DEF DownFlow
        <4>3. \A i \in 1 .. n : i \in 1 .. Len(down.frames)
          BY <2>3, <3>2
        <4>4. \A i \in 1 .. n : down'.frames[i] = DownNth(full, DownTaken + i)
          BY <2>4, <4>2, <4>3
        <4>5. DownTaken + n <= 1 + Len(full)
          BY <2>3, <3>2, <4>1
        <4> QED BY <4>4, <4>5
      <3> QED BY <1>1, <2>1, <2>4, <2>8, <3>1, <3>3 DEF DownFlow
    <2> QED BY <1>2, <2>5, <2>6, <2>7, <2>8 DEF TunnelInv
  <1> QED BY <1>3, <1>4 DEF Side

(* The client's handler. Until it copies, it moves no data but the request *)
(* and the acknowledgement; when it gives up, it is done.                  *)
LEMMA ClientGives ==
  ASSUME TunnelInv, UNCHANGED <<script, app, server, dead, header, target, dialled, toTarget, toApp>>,
         UNCHANGED down, up' \in Duct, up'.frames = up.frames,
         stream' \in [Side -> {"none", "open", "closed"}],
         \A s \in Side : stream'[s] = "none" <=> stream[s] = "none",
         client' = [client EXCEPT !.pc = "done"],
         replies' \in {<<>>, <<"unreachable">>, replies},
         replies' # replies => client.pc \in Early
  PROVE  TunnelInv'
  <1>1. client.pc \in ClientPc /\ client' \in [pc : ClientPc, copy : CopyPc, sent : Nat]
        /\ client'.pc = "done" /\ client'.copy = client.copy /\ client'.sent = client.sent
    BY DEF TunnelInv, TunnelTypes, ClientPc
  <1>2. TunnelTypes'
    BY <1>1 DEF TunnelInv, TunnelTypes
  <1>3. Progress'
    <2>1. (Parsed' <=> Parsed) /\ Place' = Place
      BY SameScript
    <2>2. Reached' <=> Reached
      BY <2>1 DEF Reached
    <2>3. client.pc \in Early => client.sent = 0 /\ toApp = <<>>
      BY DEF TunnelInv, Progress
    <2> QED BY <1>1, <2>1, <2>2, <2>3 DEF TunnelInv, Progress, Side, Early
  <1>4. UpFlow'
    <2>1. UpTaken' = UpTaken
      BY DEF UpTaken
    <2> QED BY <1>1, <2>1, UpStays DEF TunnelInv
  <1>5. \A full \in Fulls : DownFlow(full) => DownFlow(full)'
    BY <1>1, DownStays
  <1>6. Fulls' = Fulls
    BY SameScript
  <1> QED BY <1>2, <1>3, <1>4, <1>5, <1>6 DEF TunnelInv

LEMMA RefusesTunnel ==
  ASSUME TunnelInv, Refuses, client.pc \in Early, UNCHANGED down,
         UNCHANGED <<script, app, server, dead, header, target, dialled, toTarget, toApp>>
  PROVE  TunnelInv'
  <1>1. Close("near", up) /\ replies' = <<"unreachable">> /\ client' = [client EXCEPT !.pc = "done"]
    BY DEF Refuses
  <1>2. /\ up' \in Duct /\ up'.frames = up.frames
        /\ stream' \in [Side -> {"none", "open", "closed"}]
        /\ \A s \in Side : stream'[s] = "none" <=> stream[s] = "none"
    BY <1>1, CloseUp DEF TunnelInv
  <1> QED BY <1>1, <1>2, ClientGives

(* A step of the client's up to its acknowledgement that moves nothing.    *)
LEMMA ClientMoves ==
  ASSUME TunnelInv, UNCHANGED <<script, app, server, dead, header, target, dialled, toTarget, toApp>>,
         UNCHANGED <<up, down, replies>>,
         NEW pc \in {"session", "open", "request"}, client' = [client EXCEPT !.pc = pc],
         client.pc \in {"handshake", "session", "open"}, Parsed,
         stream' \in [Side -> {"none", "open", "closed"}],
         stream'["near"] = "none" <=> pc # "request"
  PROVE  TunnelInv'
  <1>1. client' \in [pc : ClientPc, copy : CopyPc, sent : Nat]
        /\ client'.pc = pc /\ client'.copy = client.copy /\ client'.sent = client.sent
    BY DEF TunnelInv, TunnelTypes, ClientPc
  <1>2. TunnelTypes'
    BY <1>1 DEF TunnelInv, TunnelTypes
  <1>3. Progress'
    <2>1. (Parsed' <=> Parsed) /\ Place' = Place
      BY SameScript
    <2>2. Reached' <=> Reached
      BY <2>1 DEF Reached
    <2>3. /\ client.copy = "none" /\ client.sent = 0 /\ replies = <<>> /\ toApp = <<>>
          /\ up.frames = <<>> /\ header = <<>>
          /\ stream["near"] = "none" /\ server.pc = "none"
      BY DEF TunnelInv, Progress, Early
    <2> QED BY <1>1, <2>1, <2>2, <2>3 DEF TunnelInv, Progress, Early, Unserved
  <1>4. UpFlow'
    <2>1. UpTaken' = UpTaken
      BY DEF UpTaken
    <2> QED BY <1>1, <2>1, UpStays DEF TunnelInv
  <1>5. \A full \in Fulls : DownFlow(full) => DownFlow(full)'
    BY <1>1, DownStays
  <1>6. Fulls' = Fulls
    BY SameScript
  <1> QED BY <1>2, <1>3, <1>4, <1>5, <1>6 DEF TunnelInv

LEMMA ReadsRequestTunnel ==
  ASSUME TunnelInv, ReadsRequest
  PROVE  TunnelInv'
  <1>1. /\ UNCHANGED <<script, app, server, stream, up, down, dead, header, target, dialled, replies,
                       toTarget, toApp>>
        /\ client.pc = "handshake"
    BY DEF ReadsRequest
  <1>2. \/ Parsed /\ client' = [client EXCEPT !.pc = "session"]
        \/ client' = [client EXCEPT !.pc = "done"]
    BY DEF ReadsRequest, Parsed
  <1>3. /\ stream \in [Side -> {"none", "open", "closed"}] /\ up \in Duct
        /\ stream["near"] = "none"
    BY <1>1 DEF TunnelInv, TunnelTypes, Progress
  <1>4. CASE Parsed /\ client' = [client EXCEPT !.pc = "session"]
    BY <1>1, <1>3, <1>4, ClientMoves
  <1>5. CASE client' = [client EXCEPT !.pc = "done"]
    BY <1>1, <1>3, <1>5, ClientGives
  <1> QED BY <1>2, <1>4, <1>5

LEMMA OpensTunnel ==
  ASSUME TunnelInv, ChecksSession \/ OpensStream
  PROVE  TunnelInv'
  <1>1. /\ UNCHANGED <<script, app, server, down, dead, header, target, dialled, toTarget, toApp>>
        /\ client.pc \in {"session", "open"}
    BY DEF ChecksSession, OpensStream
  <1>2. \/ Refuses
        \/ client' = [client EXCEPT !.pc = "open"] /\ UNCHANGED <<stream, up, replies>>
        \/ /\ client' = [client EXCEPT !.pc = "request"]
           /\ stream' = [stream EXCEPT !["near"] = "open"] /\ UNCHANGED <<up, replies>>
    BY DEF ChecksSession, OpensStream
  <1>3. stream \in [Side -> {"none", "open", "closed"}] /\ stream["near"] = "none" /\ Parsed
        /\ client.pc \in Early
    BY <1>1 DEF TunnelInv, TunnelTypes, Progress, Early
  <1>4. CASE Refuses
    BY <1>1, <1>3, <1>4, RefusesTunnel
  <1>5. CASE client' = [client EXCEPT !.pc = "open"] /\ UNCHANGED <<stream, up, replies>>
    BY <1>1, <1>3, <1>5, ClientMoves
  <1>6. CASE /\ client' = [client EXCEPT !.pc = "request"]
             /\ stream' = [stream EXCEPT !["near"] = "open"] /\ UNCHANGED <<up, replies>>
    <2>1. stream' \in [Side -> {"none", "open", "closed"}] /\ stream'["near"] = "open"
      BY <1>3, <1>6 DEF Side
    <2> QED BY <1>1, <1>3, <1>6, <2>1, ClientMoves
  <1> QED BY <1>2, <1>4, <1>5, <1>6

LEMMA JsonIs ==
  /\ Json \in Seq(TunnelFrame) /\ Len(Json) = 2 /\ \A i \in 1 .. 2 : UpNth(i) = Json[i]
  <1>1. <<"req", 1>> \in TunnelFrame /\ <<"req", 2>> \in TunnelFrame
    BY DEF TunnelFrame
  <1>2. Json \in Seq(TunnelFrame) /\ Len(Json) = 2
    BY <1>1 DEF Json
  <1> QED BY <1>2 DEF UpNth

LEMMA SendsRequestTunnel ==
  ASSUME TunnelInv, SendsRequest
  PROVE  TunnelInv'
  <1>1. /\ UNCHANGED <<script, app, server, down, dead, header, target, dialled, toTarget, toApp>>
        /\ client.pc = "request" /\ client.pc \in Early
    BY DEF SendsRequest, Early
  <1>2. CASE Refuses
    BY <1>1, <1>2, RefusesTunnel
  <1>3. CASE /\ client' = [client EXCEPT !.pc = "ack"] /\ up' = [up EXCEPT !.frames = Json]
             /\ UNCHANGED <<stream, replies>>
    <2>1. client' \in [pc : ClientPc, copy : CopyPc, sent : Nat]
          /\ client'.pc = "ack" /\ client'.copy = client.copy /\ client'.sent = client.sent
      BY <1>3 DEF TunnelInv, TunnelTypes, ClientPc
    <2>2. up' \in Duct /\ up'.frames = Json
      BY <1>3, JsonIs DEF TunnelInv, TunnelTypes, Duct
    <2>3. TunnelTypes'
      BY <1>1, <1>3, <2>1, <2>2 DEF TunnelInv, TunnelTypes
    <2>4. (Parsed' <=> Parsed) /\ Place' = Place /\ Fulls' = Fulls /\ Data' = Data
          /\ \A i : UpNth(i)' = UpNth(i)
      BY <1>1, SameScript
    <2>5. /\ client.copy = "none" /\ client.sent = 0 /\ replies = <<>> /\ toApp = <<>>
          /\ up.frames = <<>> /\ header = <<>> /\ stream["near"] # "none" /\ Parsed
      BY <1>1 DEF TunnelInv, Progress, Early
    <2>6. Progress'
      <3>1. Reached' <=> Reached
        BY <1>1, <2>4 DEF Reached
      <3> QED BY <1>1, <1>3, <2>1, <2>4, <2>5, <3>1 DEF TunnelInv, Progress, Early, Unserved
    <2>7. UpFlow'
      <3>1. server.pc \in {"none", "read", "done"}
        <4>1. header # Json
          BY <2>5 DEF Json
        <4> QED BY <4>1 DEF TunnelInv, TunnelTypes, Progress, ServerPc
      <3>2. server.pc # "done" => UpTaken' = 0
        BY <1>1, <2>5, <3>1 DEF UpTaken
      <3>3. \A i \in 1 .. 2 : Json[i] = UpNth(0 + i)
        BY JsonIs
      <3>4. server.pc # "done" =>
              /\ UpTaken' + Len(up'.frames) = 2 + client'.sent
              /\ \A i \in 1 .. Len(up'.frames) : up'.frames[i] = UpNth(UpTaken' + i)
        BY <2>1, <2>2, <2>5, <3>2, <3>3, JsonIs
      <3> QED BY <1>1, <2>1, <2>4, <3>4 DEF TunnelInv, UpFlow
    <2>8. \A full \in Fulls : DownFlow(full) => DownFlow(full)'
      BY <1>1, <2>1, DownStays
    <2> QED BY <2>3, <2>4, <2>6, <2>7, <2>8 DEF TunnelInv
  <1> QED BY <1>2, <1>3 DEF SendsRequest

(* The first frame of a direction is read.                                 *)
LEMMA HeadIs ==
  ASSUME NEW flow \in Duct, flow.frames # <<>>
  PROVE  /\ Len(flow.frames) \in Nat /\ Len(flow.frames) >= 1
         /\ Head(flow.frames) = flow.frames[1] /\ Head(flow.frames) \in TunnelFrame
         /\ LET rest == [flow EXCEPT !.frames = Tail(@)]
            IN  /\ rest \in Duct /\ Len(rest.frames) = Len(flow.frames) - 1
                /\ \A i \in 1 .. Len(flow.frames) - 1 : rest.frames[i] = flow.frames[i + 1]
  <1> DEFINE s == flow.frames
             rest == [flow EXCEPT !.frames = Tail(@)]
  <1>1. s \in Seq(TunnelFrame) /\ s # <<>>
    BY DEF Duct
  <1>2. rest = [frames |-> Tail(s), fin |-> flow.fin] /\ flow.fin \in BOOLEAN
    BY DEF Duct
  <1> HIDE DEF s, rest
  <1>3. /\ Head(s) \in TunnelFrame /\ Tail(s) \in Seq(TunnelFrame) /\ Len(Tail(s)) = Len(s) - 1
        /\ \A i \in 1 .. Len(Tail(s)) : Tail(s)[i] = s[i + 1]
    BY <1>1, HeadTailProperties
  <1>4. Len(s) \in Nat /\ Len(s) >= 1 /\ Head(s) = s[1]
    BY <1>1
  <1>5. rest \in Duct /\ rest.frames = Tail(s)
    BY <1>2, <1>3 DEF Duct
  <1> QED BY <1>3, <1>4, <1>5 DEF s, rest

LEMMA AwaitsAckTunnel ==
  ASSUME TunnelInv, AwaitsAck
  PROVE  TunnelInv'
  <1>1. /\ UNCHANGED <<script, app, server, dead, header, target, dialled, toTarget, toApp>>
        /\ client.pc = "ack" /\ client.pc \in Early
    BY DEF AwaitsAck, Early
  <1>2. CASE Refuses /\ UNCHANGED down
    BY <1>1, <1>2, RefusesTunnel
  <1>3. CASE /\ down.frames # <<>> /\ Consume(down)
             /\ client' = [client EXCEPT !.pc = "reply"]
             /\ UNCHANGED <<stream, up, replies>>
    <2>1. client' \in [pc : ClientPc, copy : CopyPc, sent : Nat]
          /\ client'.pc = "reply" /\ client'.copy = client.copy /\ client'.sent = client.sent
      BY <1>3 DEF TunnelInv, TunnelTypes, ClientPc
    <2>2. down \in Duct /\ down.frames # <<>> /\ down' = [down EXCEPT !.frames = Tail(@)]
      BY <1>3 DEF TunnelInv, TunnelTypes, Consume
    <2>3. /\ Len(down.frames) \in Nat /\ Len(down.frames) >= 1
          /\ down' \in Duct /\ Len(down'.frames) = Len(down.frames) - 1
          /\ \A i \in 1 .. Len(down.frames) - 1 : down'.frames[i] = down.frames[i + 1]
      BY <2>2, HeadIs
    <2>4. TunnelTypes'
      BY <1>1, <1>3, <2>1, <2>3 DEF TunnelInv, TunnelTypes
    <2>5. (Parsed' <=> Parsed) /\ Place' = Place /\ Fulls' = Fulls
      BY <1>1, SameScript
    <2>6. /\ client.copy = "none" /\ client.sent = 0 /\ replies = <<>> /\ toApp = <<>>
          /\ stream["near"] # "none" /\ Parsed /\ Reached /\ server.pc \notin Unserved
      BY <1>1, <1>3 DEF TunnelInv, Progress, Early
    <2>7. Progress'
      <3>1. Reached'
        BY <1>1, <2>5, <2>6 DEF Reached
      <3> QED BY <1>1, <1>3, <2>1, <2>5, <2>6, <3>1 DEF TunnelInv, Progress, Early
    <2>8. UpFlow'
      <3>1. UpTaken' = UpTaken
        BY <1>1 DEF UpTaken
      <3> QED BY <1>1, <1>3, <2>1, <3>1, UpStays DEF TunnelInv
    <2>9. ASSUME NEW full \in Fulls, DownFlow(full) PROVE DownFlow(full)'
      <3>1. DownTaken = 0 /\ DownTaken' = 1 /\ \A i : DownNth(full, i)' = DownNth(full, i)
        BY <1>1, <2>1, <2>6 DEF DownTaken, DownNth
      <3>2. \A i \in 1 .. Len(down'.frames) : down'.frames[i] = DownNth(full, 1 + i)
        <4> TAKE i \in 1 .. Len(down'.frames)
        <4>1. i + 1 \in 1 .. Len(down.frames) /\ i \in 1 .. Len(down.frames) - 1
              /\ 0 + (i + 1) = 1 + i
          BY <2>3
        <4>2. down.frames[i + 1] = DownNth(full, 0 + (i + 1))
          BY <1>1, <2>9, <3>1, <4>1 DEF DownFlow
        <4> QED BY <2>3, <4>1, <4>2
      <3>3. 0 + Len(down.frames) = 1 + Len(down'.frames)
        BY <2>3
      <3> QED BY <1>1, <2>1, <2>9, <3>1, <3>2, <3>3 DEF DownFlow
    <2> QED BY <2>4, <2>5, <2>7, <2>8, <2>9 DEF TunnelInv
  <1> QED BY <1>2, <1>3 DEF AwaitsAck

LEMMA RepliesTunnel ==
  ASSUME TunnelInv, Replies
  PROVE  TunnelInv'
  <1>1. /\ UNCHANGED <<script, app, server, down, dead, header, target, dialled, toTarget, toApp>>
        /\ client.pc = "reply"
    BY DEF Replies
  <1>2. CASE /\ client' = [client EXCEPT !.pc = "done"] /\ Close("near", up)
             /\ UNCHANGED replies
    <2>1. /\ up' \in Duct /\ up'.frames = up.frames
          /\ stream' \in [Side -> {"none", "open", "closed"}]
          /\ \A s \in Side : stream'[s] = "none" <=> stream[s] = "none"
      BY <1>2, CloseUp DEF TunnelInv
    <2> QED BY <1>1, <1>2, <2>1, ClientGives
  <1>3. CASE /\ replies' = <<"success">> /\ client' = [client EXCEPT !.pc = "pipe", !.copy = "reads"]
             /\ UNCHANGED <<stream, up>>
    <2>1. client' \in [pc : ClientPc, copy : CopyPc, sent : Nat]
          /\ client'.pc = "pipe" /\ client'.sent = client.sent
      BY <1>3 DEF TunnelInv, TunnelTypes, ClientPc, CopyPc
    <2>2. TunnelTypes'
      BY <1>1, <1>3, <2>1 DEF TunnelInv, TunnelTypes
    <2>3. (Parsed' <=> Parsed) /\ Place' = Place /\ Fulls' = Fulls
      BY <1>1, SameScript
    <2>4. Progress'
      <3>1. Reached /\ stream["near"] # "none" /\ server.pc \notin Unserved
        BY <1>1 DEF TunnelInv, Progress
      <3>2. Reached'
        BY <1>1, <2>3, <3>1 DEF Reached
      <3> QED BY <1>1, <1>3, <2>1, <2>3, <3>1, <3>2 DEF TunnelInv, Progress, Early
    <2>5. UpFlow'
      <3>1. UpTaken' = UpTaken
        BY <1>1 DEF UpTaken
      <3> QED BY <1>1, <1>3, <2>1, <3>1, UpStays DEF TunnelInv
    <2>6. \A full \in Fulls : DownFlow(full) => DownFlow(full)'
      BY <1>1, <2>1, DownStays
    <2> QED BY <2>2, <2>3, <2>4, <2>5, <2>6 DEF TunnelInv
  <1> QED BY <1>2, <1>3 DEF Replies

(* A frame is written at the end of a direction.                           *)
LEMMA WriteIs ==
  ASSUME NEW flow \in Duct, NEW frame \in TunnelFrame
  PROVE  LET more == [flow EXCEPT !.frames = Append(@, frame)]
         IN  /\ Len(flow.frames) \in Nat
             /\ more \in Duct /\ Len(more.frames) = Len(flow.frames) + 1
             /\ \A i \in 1 .. Len(flow.frames) : more.frames[i] = flow.frames[i]
             /\ more.frames[Len(flow.frames) + 1] = frame
  <1> DEFINE s == flow.frames
             more == [flow EXCEPT !.frames = Append(@, frame)]
  <1>1. s \in Seq(TunnelFrame) /\ flow.fin \in BOOLEAN /\ flow = [frames |-> s, fin |-> flow.fin]
    BY DEF Duct
  <1>2. more = [frames |-> Append(s, frame), fin |-> flow.fin]
    BY DEF Duct
  <1> HIDE DEF s, more
  <1>3. /\ Append(s, frame) \in Seq(TunnelFrame) /\ Len(Append(s, frame)) = Len(s) + 1
        /\ \A i \in 1 .. Len(s) : Append(s, frame)[i] = s[i]
        /\ Append(s, frame)[Len(s) + 1] = frame
    BY <1>1, AppendProperties
  <1>4. Len(s) \in Nat
    BY <1>1
  <1>5. more \in Duct /\ more.frames = Append(s, frame)
    BY <1>1, <1>2, <1>3 DEF Duct
  <1> QED BY <1>3, <1>4, <1>5 DEF s, more

(* A copy ends, and closes the stream.                                     *)
LEMMA ClientCopyEndsTunnel ==
  ASSUME TunnelInv, ClientCopyEnds, client.copy # "none",
         UNCHANGED <<script, app, server, down, dead, header, target, dialled, replies, toTarget,
                     toApp>>
  PROVE  TunnelInv'
  <1>1. (Parsed' <=> Parsed) /\ Place' = Place /\ Fulls' = Fulls
    BY SameScript
  <1>2. Reached' <=> Reached
    BY <1>1 DEF Reached
  <1>3. /\ client' \in [pc : ClientPc, copy : CopyPc, sent : Nat]
        /\ client'.pc = client.pc /\ client'.sent = client.sent
    BY DEF ClientCopyEnds, TunnelInv, TunnelTypes, CopyPc
  <1>4. /\ up' \in Duct /\ up'.frames = up.frames
        /\ stream' \in [Side -> {"none", "open", "closed"}]
        /\ \A s \in Side : stream'[s] = "none" <=> stream[s] = "none"
    BY CloseUp DEF TunnelInv, ClientCopyEnds
  <1>5. TunnelTypes'
    BY <1>3, <1>4 DEF TunnelInv, TunnelTypes
  <1>6. Progress'
    <2>1. client.pc \notin Early \cup {"reply"}
      BY DEF TunnelInv, Progress
    <2> QED BY <1>1, <1>2, <1>3, <1>4, <2>1 DEF TunnelInv, Progress, Side, Early
  <1>7. UpFlow'
    <2>1. UpTaken' = UpTaken
      BY DEF UpTaken
    <2> QED BY <1>3, <1>4, <2>1, UpStays DEF TunnelInv
  <1>8. \A full \in Fulls : DownFlow(full) => DownFlow(full)'
    BY <1>3, DownStays
  <1> QED BY <1>1, <1>5, <1>6, <1>7, <1>8 DEF TunnelInv

(* A Read or a Write of a handler's copies that hands nothing on: only the *)
(* place of the copy changes.                                              *)
LEMMA CopyMoves ==
  ASSUME TunnelInv, UNCHANGED <<script, app, stream, up, down, dead, header, target, dialled,
                                replies, toTarget, toApp>>,
         client' \in [pc : ClientPc, copy : CopyPc, sent : Nat], client'.sent = client.sent,
         client'.pc = client.pc \/ (client.pc = "write" /\ client'.pc = "pipe"),
         client'.copy = client.copy \/ client.copy = "reads",
         server' \in [pc : ServerPc, copy : CopyPc],
         server'.pc = server.pc \/ (server.pc = "write" /\ server'.pc = "pipe")
  PROVE  TunnelInv'
  <1>1. (Parsed' <=> Parsed) /\ Place' = Place /\ Fulls' = Fulls
    BY SameScript
  <1>2. TunnelTypes'
    BY DEF TunnelInv, TunnelTypes
  <1>3. Progress'
    <2>1. Reached' <=> Reached
      BY <1>1 DEF Reached
    <2> QED BY <1>1, <2>1 DEF TunnelInv, Progress, Early, Unserved
  <1>4. UpFlow'
    <2>1. UpTaken' = UpTaken
      BY DEF UpTaken
    <2> QED BY <2>1, UpStays DEF TunnelInv
  <1>5. \A full \in Fulls : DownFlow(full) => DownFlow(full)'
    BY DownStays
  <1> QED BY <1>1, <1>2, <1>3, <1>4, <1>5 DEF TunnelInv

LEMMA ClientCopyReadsTunnel ==
  ASSUME TunnelInv, ClientCopyReads
  PROVE  TunnelInv'
  <1>1. /\ UNCHANGED <<script, app, server, down, dead, header, target, dialled, replies, toTarget,
                       toApp>>
        /\ client.copy = "reads"
    BY DEF ClientCopyReads
  <1>2. CASE client' = [client EXCEPT !.copy = "writes"] /\ UNCHANGED <<stream, up>>
    <2>1. /\ client' \in [pc : ClientPc, copy : CopyPc, sent : Nat]
          /\ client'.pc = client.pc /\ client'.sent = client.sent
          /\ server' \in [pc : ServerPc, copy : CopyPc] /\ server'.pc = server.pc
      BY <1>1, <1>2 DEF TunnelInv, TunnelTypes, CopyPc
    <2>2. UNCHANGED <<stream, up>>
      BY <1>2
    <2> QED BY <1>1, <2>1, <2>2, CopyMoves
  <1>3. CASE ClientCopyEnds
    BY <1>1, <1>3, ClientCopyEndsTunnel
  <1> QED BY <1>2, <1>3 DEF ClientCopyReads

LEMMA ClientCopyWritesTunnel ==
  ASSUME TunnelInv, Copying, ClientCopyWrites
  PROVE  TunnelInv'
  <1>1. /\ UNCHANGED <<script, app, server, down, dead, header, target, dialled, replies, toTarget,
                       toApp>>
        /\ client.copy = "writes" /\ client.sent < Len(Data)
    BY DEF ClientCopyWrites, Copying
  <1>2. (Parsed' <=> Parsed) /\ Place' = Place /\ Fulls' = Fulls /\ Data' = Data
        /\ \A i : UpNth(i)' = UpNth(i)
    BY <1>1, SameScript
  <1>3. Reached' <=> Reached
    BY <1>1, <1>2 DEF Reached
  <1>4. UpTaken' = UpTaken /\ UpTaken \in Nat
    BY <1>1 DEF UpTaken, TunnelInv, TunnelTypes
  <1>5. ASSUME Writable("near"), client' = [client EXCEPT !.copy = "reads", !.sent = @ + 1],
               Write(up, <<"data", Data[client.sent + 1]>>), UNCHANGED stream
        PROVE  TunnelInv'
    <2>1. /\ client' \in [pc : ClientPc, copy : CopyPc, sent : Nat]
          /\ client'.pc = client.pc /\ client.pc \in {"pipe", "write"}
          /\ client'.sent = client.sent + 1 /\ client.sent \in Nat
      <3>1. client \in [pc : ClientPc, copy : CopyPc, sent : Nat]
        BY DEF TunnelInv, TunnelTypes
      <3>2. client.sent \in Nat /\ client.sent + 1 \in Nat
        BY <3>1
      <3>3. client' = [client EXCEPT !.copy = "reads", !.sent = client.sent + 1]
        BY <1>5
      <3>4. client.pc \in {"pipe", "write"}
        BY <1>1, <1>5, <3>1 DEF TunnelInv, Progress, Early, Copying, Writable, ClientPc
      <3> QED BY <3>1, <3>2, <3>3, <3>4 DEF CopyPc
    <2>2. Parsed /\ Data \in Seq(Nat) /\ replies = <<"success">> /\ stream["near"] # "none"
          /\ header = header'
      <3>1. Parsed /\ replies = <<"success">> /\ stream["near"] # "none"
        BY <2>1 DEF TunnelInv, Progress
      <3> QED BY <1>1, <3>1, ScriptType DEF TunnelInv, TunnelTypes
    <2>3. client.sent + 1 \in 1 .. Len(Data)
      BY <1>1, <2>1, <2>2
    <2>4. <<"data", Data[client.sent + 1]>> \in TunnelFrame
      <3>1. Data[client.sent + 1] \in Nat
        BY <2>2, <2>3, ElementOfSeq
      <3> QED BY <3>1 DEF TunnelFrame
    <2>5. up \in Duct /\ up' = [up EXCEPT !.frames = Append(@, <<"data", Data[client.sent + 1]>>)]
      BY <1>5 DEF TunnelInv, TunnelTypes, Write
    <2>6. /\ Len(up.frames) \in Nat /\ up' \in Duct /\ Len(up'.frames) = Len(up.frames) + 1
          /\ \A i \in 1 .. Len(up.frames) : up'.frames[i] = up.frames[i]
          /\ up'.frames[Len(up.frames) + 1] = <<"data", Data[client.sent + 1]>>
      BY <2>4, <2>5, WriteIs
    <2>7. TunnelTypes'
      BY <1>1, <1>5, <2>1, <2>6 DEF TunnelInv, TunnelTypes
    <2>8. Progress'
      BY <1>1, <1>2, <1>3, <1>5, <2>1, <2>2 DEF TunnelInv, Progress, Early
    <2>9. UpFlow'
      <3>1. server.pc # "done" => UpTaken + Len(up.frames) = 2 + client.sent
        BY <1>5, <2>1 DEF TunnelInv, UpFlow, Writable
      <3>2. server.pc # "done" =>
              \A i \in 1 .. Len(up'.frames) : up'.frames[i] = UpNth(UpTaken + i)
        <4> SUFFICES ASSUME server.pc # "done", NEW i \in 1 .. Len(up'.frames)
                     PROVE  up'.frames[i] = UpNth(UpTaken + i)
          OBVIOUS
        <4>1. CASE i = Len(up.frames) + 1
          <5>1. UpTaken + i = client.sent + 3 /\ ~(client.sent + 3 <= 2)
                /\ client.sent + 3 - 2 = client.sent + 1
            <6>1. UpTaken \in Nat /\ client.sent \in Nat /\ Len(up.frames) \in Nat
              BY <1>4, <2>1, <2>6
            <6>2. UpTaken + Len(up.frames) = 2 + client.sent
              BY <3>1
            <6> QED BY <4>1, <6>1, <6>2
          <5>2. UpNth(client.sent + 3) = <<"data", Data[client.sent + 1]>>
            BY <2>1, <5>1 DEF UpNth
          <5> QED BY <2>6, <4>1, <5>1, <5>2
        <4>2. CASE i # Len(up.frames) + 1
          <5>1. i \in 1 .. Len(up.frames)
            BY <2>6, <4>2
          <5>2. up.frames[i] = UpNth(UpTaken + i)
            BY <5>1 DEF TunnelInv, UpFlow
          <5> QED BY <2>6, <5>1, <5>2
        <4> QED BY <4>1, <4>2
      <3>3. server.pc # "done" => UpTaken + Len(up'.frames) = 2 + client'.sent
        BY <1>4, <2>1, <2>6, <3>1
      <3>4. client'.sent <= Len(Data) /\ (Len(toTarget) <= client.sent => Len(toTarget) <= client'.sent)
        <4>1. Len(toTarget) \in Nat
          BY DEF TunnelInv, TunnelTypes
        <4> QED BY <2>1, <2>2, <2>3, <4>1
      <3> QED BY <1>1, <1>2, <1>4, <2>1, <3>2, <3>3, <3>4 DEF TunnelInv, UpFlow
    <2>10. \A full \in Fulls : DownFlow(full) => DownFlow(full)'
      BY <1>1, <1>5, <2>1, DownStays
    <2> QED BY <1>2, <2>7, <2>8, <2>9, <2>10 DEF TunnelInv
  <1>6. ASSUME ClientCopyEnds PROVE TunnelInv'
    BY <1>1, <1>6, ClientCopyEndsTunnel
  <1> QED BY <1>1, <1>5, <1>6 DEF ClientCopyWrites

LEMMA ClientEndsTunnel ==
  ASSUME TunnelInv, ClientEnds,
         UNCHANGED <<script, app, server, down, dead, header, target, dialled, replies, toTarget,
                     toApp>>
  PROVE  TunnelInv'
  <1>1. /\ client' = [client EXCEPT !.pc = "done"]
        /\ up' \in Duct /\ up'.frames = up.frames
        /\ stream' \in [Side -> {"none", "open", "closed"}]
        /\ \A s \in Side : stream'[s] = "none" <=> stream[s] = "none"
    BY CloseUp DEF TunnelInv, ClientEnds
  <1> QED BY <1>1, ClientGives

LEMMA ClientReadsTunnel ==
  ASSUME TunnelInv, ClientReads
  PROVE  TunnelInv'
  <1>1. /\ UNCHANGED <<script, app, server, dead, header, target, dialled, replies, toTarget>>
        /\ client.pc = "pipe"
    BY DEF ClientReads
  <1>2. CASE ClientEnds /\ UNCHANGED <<down, toApp>>
    BY <1>1, <1>2, ClientEndsTunnel
  <1>3. CASE /\ down.frames # <<>> /\ toApp' = Append(toApp, Head(down.frames)[2])
             /\ Consume(down) /\ client' = [client EXCEPT !.pc = "write"]
             /\ UNCHANGED <<stream, up>>
    <2>1. down \in Duct /\ down.frames # <<>> /\ down' = [down EXCEPT !.frames = Tail(@)]
      BY <1>3 DEF TunnelInv, TunnelTypes, Consume
    <2>2. /\ Len(down.frames) \in Nat /\ Len(down.frames) >= 1
          /\ Head(down.frames) = down.frames[1] /\ Head(down.frames) \in TunnelFrame
          /\ down' \in Duct /\ Len(down'.frames) = Len(down.frames) - 1
          /\ \A i \in 1 .. Len(down.frames) - 1 : down'.frames[i] = down.frames[i + 1]
      BY <2>1, HeadIs
    <2>3. /\ toApp' \in Seq(Nat) /\ Len(toApp') = Len(toApp) + 1 /\ Len(toApp) \in Nat
          /\ \A i \in 1 .. Len(toApp) : toApp'[i] = toApp[i]
          /\ toApp'[Len(toApp) + 1] = down.frames[1][2]
      <3>1. Head(down.frames)[2] \in Nat /\ toApp \in Seq(Nat)
        BY <2>2 DEF TunnelInv, TunnelTypes, TunnelFrame
      <3> QED BY <1>3, <2>2, <3>1, AppendProperties
    <2>4. /\ client' \in [pc : ClientPc, copy : CopyPc, sent : Nat]
          /\ client'.pc = "write" /\ client'.sent = client.sent
      BY <1>3 DEF TunnelInv, TunnelTypes, ClientPc
    <2>5. TunnelTypes'
      BY <1>1, <1>3, <2>2, <2>3, <2>4 DEF TunnelInv, TunnelTypes
    <2>6. (Parsed' <=> Parsed) /\ Place' = Place /\ Fulls' = Fulls
      BY <1>1, SameScript
    <2>7. Progress'
      <3>1. Reached /\ replies = <<"success">> /\ server.pc \notin Unserved
        BY <1>1 DEF TunnelInv, Progress
      <3>2. Reached'
        BY <1>1, <2>6, <3>1 DEF Reached
      <3> QED BY <1>1, <1>3, <2>6, <2>4, <3>1, <3>2 DEF TunnelInv, Progress, Early
    <2>8. UpFlow'
      <3>1. UpTaken' = UpTaken
        BY <1>1 DEF UpTaken
      <3> QED BY <1>1, <1>3, <2>4, <3>1, UpStays DEF TunnelInv
    <2>9. ASSUME NEW full \in Fulls, DownFlow(full) PROVE DownFlow(full)'
      <3>1. /\ DownTaken = 1 + Len(toApp) /\ DownTaken' = DownTaken + 1
            /\ \A i : DownNth(full, i)' = DownNth(full, i)
        BY <1>1, <1>3, <2>3, <2>4 DEF DownTaken, DownNth
      <3>2. Len(full) \in Nat
        BY FullsType
      <3>3. /\ DownTaken + Len(down.frames) <= 1 + Len(full)
            /\ \A i \in 1 .. Len(down.frames) : down.frames[i] = DownNth(full, DownTaken + i)
        BY <1>1, <2>9 DEF DownFlow
      <3>4. down.frames[1][2] = full[Len(toApp) + 1]
        <4>1. down.frames[1] = DownNth(full, 2 + Len(toApp))
          <5>1. 1 \in 1 .. Len(down.frames) /\ DownTaken + 1 = 2 + Len(toApp)
            BY <2>2, <2>3, <3>1
          <5>2. down.frames[1] = DownNth(full, DownTaken + 1)
            BY <3>3, <5>1
          <5> QED BY <5>1, <5>2
        <4>2. DownNth(full, 2 + Len(toApp)) = <<"data", full[Len(toApp) + 1]>>
          <5>1. 2 + Len(toApp) # 1 /\ 2 + Len(toApp) - 1 = Len(toApp) + 1
            BY <2>3
          <5> QED BY <5>1 DEF DownNth
        <4> QED BY <4>1, <4>2
      <3>5. Len(toApp') <= Len(full) /\ \A i \in 1 .. Len(toApp') : toApp'[i] = full[i]
        <4>1. Len(toApp') <= Len(full)
          <5> DEFINE a == Len(toApp)
                     d == Len(down.frames)
                     n == Len(full)
          <5>1. a \in Nat /\ d \in Nat /\ d >= 1 /\ n \in Nat /\ Len(toApp') = a + 1
            BY <2>2, <2>3, <3>2
          <5>2. 1 + a + d <= 1 + n
            BY <3>1, <3>3
          <5> HIDE DEF a, d, n
          <5>3. a + 1 <= n
            BY <5>1, <5>2
          <5> QED BY <5>1, <5>3 DEF n
        <4>2. \A i \in 1 .. Len(toApp) : toApp[i] = full[i]
          BY <2>9 DEF DownFlow
        <4>3. \A i \in 1 .. Len(toApp') : i = Len(toApp) + 1 \/ i \in 1 .. Len(toApp)
          BY <2>3
        <4> QED BY <2>3, <3>4, <4>1, <4>2, <4>3
      <3>6. \A i \in 1 .. Len(down'.frames) : down'.frames[i] = DownNth(full, DownTaken + 1 + i)
        <4> TAKE i \in 1 .. Len(down'.frames)
        <4>1. i + 1 \in 1 .. Len(down.frames) /\ i \in 1 .. Len(down.frames) - 1
              /\ DownTaken + (i + 1) = DownTaken + 1 + i
          BY <2>2, <2>3, <3>1
        <4>2. down.frames[i + 1] = DownNth(full, DownTaken + (i + 1))
          BY <3>3, <4>1
        <4> QED BY <2>2, <4>1, <4>2
      <3>7. DownTaken + 1 + Len(down'.frames) = DownTaken + Len(down.frames)
        <4> DEFINE a == Len(toApp)
                   d == Len(down.frames)
        <4>1. a \in Nat /\ d \in Nat /\ d >= 1
          BY <2>2, <2>3
        <4>2. DownTaken = 1 + a /\ Len(down'.frames) = d - 1
          BY <2>2, <3>1
        <4> HIDE DEF a, d
        <4>3. 1 + a + 1 + (d - 1) = 1 + a + d
          BY <4>1
        <4> QED BY <4>2, <4>3 DEF d
      <3> QED BY <1>1, <1>3, <2>9, <2>4, <3>1, <3>3, <3>5, <3>6, <3>7 DEF DownFlow
    <2> QED BY <2>5, <2>6, <2>7, <2>8, <2>9 DEF TunnelInv
  <1> QED BY <1>2, <1>3 DEF ClientReads

LEMMA ClientWritesTunnel ==
  ASSUME TunnelInv, ClientWrites
  PROVE  TunnelInv'
  <1>1. /\ UNCHANGED <<script, app, server, down, dead, header, target, dialled, replies, toTarget,
                       toApp>>
        /\ client.pc = "write"
    BY DEF ClientWrites
  <1>2. CASE ClientEnds
    BY <1>1, <1>2, ClientEndsTunnel
  <1>3. CASE client' = [client EXCEPT !.pc = "pipe"] /\ UNCHANGED <<stream, up>>
    <2>1. /\ client' \in [pc : ClientPc, copy : CopyPc, sent : Nat]
          /\ client'.pc = "pipe" /\ client'.sent = client.sent /\ client'.copy = client.copy
          /\ server' \in [pc : ServerPc, copy : CopyPc] /\ server'.pc = server.pc
      BY <1>1, <1>3 DEF TunnelInv, TunnelTypes, ClientPc
    <2>2. UNCHANGED <<stream, up>>
      BY <1>3
    <2> QED BY <1>1, <2>1, <2>2, CopyMoves
  <1> QED BY <1>2, <1>3 DEF ClientWrites

(* The server's handler. When it returns, nothing more is read or written. *)
LEMMA ServerGives ==
  ASSUME TunnelInv, HandlerEnds, server.pc # "none",
         UNCHANGED <<script, app, client, dead, dialled, replies, toTarget, toApp>>,
         up' \in Duct, header' \in Seq(TunnelFrame),
         client.pc \in {"handshake", "session", "open", "request"} => UNCHANGED <<up, header>>,
         Len(header') <= 2, \A i \in 1 .. Len(header') : header'[i] = Json[i]
  PROVE  TunnelInv'
  <1>1. /\ server' \in [pc : ServerPc, copy : CopyPc] /\ server'.pc = "done"
        /\ down' \in Duct /\ down'.frames = down.frames
        /\ stream' \in [Side -> {"none", "open", "closed"}]
        /\ \A s \in Side : stream'[s] = "none" <=> stream[s] = "none"
        /\ target' \in [state : {"none", "open", "closed"}, sends : Seq(Nat)]
        /\ target'.sends = target.sends
    BY HandlerEndsIs DEF TunnelInv
  <1>2. (Parsed' <=> Parsed) /\ Place' = Place /\ Fulls' = Fulls /\ Data' = Data
    BY SameScript
  <1>3. TunnelTypes'
    BY <1>1 DEF TunnelInv, TunnelTypes
  <1>4. Progress'
    <2>1. Reached' <=> Reached
      BY <1>2 DEF Reached
    <2> QED BY <1>1, <1>2, <2>1 DEF TunnelInv, Progress, Side, Unserved
  <1>5. UpFlow'
    BY <1>1, <1>2 DEF TunnelInv, UpFlow
  <1>6. \A full \in Fulls : DownFlow(full) => DownFlow(full)'
    BY <1>1, DownStays
  <1> QED BY <1>2, <1>3, <1>4, <1>5, <1>6 DEF TunnelInv

(* It moves on and moves no data.                                          *)
LEMMA ServerMoves ==
  ASSUME TunnelInv, UNCHANGED <<script, app, client, up, down, dead, header, target, dialled, replies,
                                toTarget, toApp>>,
         server' \in [pc : ServerPc, copy : CopyPc],
         stream' \in [Side -> {"none", "open", "closed"}],
         stream'["near"] = "none" <=> stream["near"] = "none",
         \/ server.pc = "none" /\ server'.pc = "read" /\ stream["near"] # "none"
         \/ server.pc = "dial" /\ server'.pc = "proxy" /\ script.viaProxy
  PROVE  TunnelInv'
  <1>1. (Parsed' <=> Parsed) /\ Place' = Place /\ Fulls' = Fulls
    BY SameScript
  <1>2. TunnelTypes'
    BY DEF TunnelInv, TunnelTypes
  <1>3. Progress'
    <2>1. Reached' <=> Reached
      BY <1>1 DEF Reached
    <2> QED BY <1>1, <2>1 DEF TunnelInv, Progress, Unserved
  <1>4. UpFlow'
    <2>1. UpTaken' = UpTaken /\ server.pc # "done"
      BY DEF UpTaken
    <2> QED BY <2>1, UpStays DEF TunnelInv
  <1>5. \A full \in Fulls : DownFlow(full) => DownFlow(full)'
    BY DownStays
  <1> QED BY <1>1, <1>2, <1>3, <1>4, <1>5 DEF TunnelInv

LEMMA AcceptsTunnel ==
  ASSUME TunnelInv, Accepts
  PROVE  TunnelInv'
  <1>1. /\ server.pc = "none" /\ stream["near"] # "none"
        /\ server' = [server EXCEPT !.pc = "read"] /\ stream' = [stream EXCEPT !["far"] = "open"]
        /\ UNCHANGED <<script, app, client, up, down, dead, header, target, dialled, replies,
                       toTarget, toApp>>
    BY DEF Accepts
  <1>2. /\ server' \in [pc : ServerPc, copy : CopyPc] /\ server'.pc = "read"
        /\ stream' \in [Side -> {"none", "open", "closed"}] /\ stream'["near"] = stream["near"]
    BY <1>1 DEF TunnelInv, TunnelTypes, ServerPc, Side
  <1> QED BY <1>1, <1>2, ServerMoves

LEMMA HeaderFailsTunnel ==
  ASSUME TunnelInv, HeaderFails
  PROVE  TunnelInv'
  <1>1. /\ HandlerEnds /\ server.pc # "none"
        /\ UNCHANGED <<script, app, client, up, dead, header, dialled, replies, toTarget, toApp>>
    BY DEF HeaderFails
  <1>2. /\ up \in Duct /\ header \in Seq(TunnelFrame) /\ Len(header) <= 2
        /\ \A i \in 1 .. Len(header) : header[i] = Json[i]
    BY DEF TunnelInv, TunnelTypes, UpFlow
  <1> QED BY <1>1, <1>2, ServerGives

LEMMA ReadsHeaderTunnel ==
  ASSUME TunnelInv, ReadsHeader
  PROVE  TunnelInv'
  <1>1. /\ UNCHANGED <<script, app, client, dead, dialled, replies, toTarget, toApp>>
        /\ server.pc = "read" /\ up.frames # <<>>
        /\ header' = Append(header, Head(up.frames))
        /\ up' = [up EXCEPT !.frames = Tail(@)]
    BY DEF ReadsHeader, Consume
  <1>2. up \in Duct /\ header \in Seq(TunnelFrame)
    BY DEF TunnelInv, TunnelTypes
  <1>3. /\ Len(up.frames) \in Nat /\ Len(up.frames) >= 1
        /\ Head(up.frames) = up.frames[1] /\ Head(up.frames) \in TunnelFrame
        /\ up' \in Duct /\ Len(up'.frames) = Len(up.frames) - 1
        /\ \A i \in 1 .. Len(up.frames) - 1 : up'.frames[i] = up.frames[i + 1]
    BY <1>1, <1>2, HeadIs
  <1>4. /\ header' \in Seq(TunnelFrame) /\ Len(header') = Len(header) + 1
        /\ \A i \in 1 .. Len(header) : header'[i] = header[i]
        /\ header'[Len(header) + 1] = up.frames[1] /\ Len(header) \in Nat
    BY <1>1, <1>2, <1>3, AppendProperties
  <1>5. Len(header) < 2 /\ UpTaken = Len(header)
    BY <1>1 DEF TunnelInv, Progress, UpTaken
  <1>6. /\ UpTaken + Len(up.frames) <= 2 + client.sent
        /\ \A i \in 1 .. Len(up.frames) : up.frames[i] = UpNth(UpTaken + i)
        /\ "near" \notin dead /\ client.pc \in {"ack", "reply", "pipe", "write"} =>
             UpTaken + Len(up.frames) = 2 + client.sent
    BY <1>1 DEF TunnelInv, UpFlow
  <1>7. Len(header') <= 2 /\ \A i \in 1 .. Len(header') : header'[i] = Json[i]
    <2>1. up.frames[1] = Json[Len(header) + 1]
      <3>1. 1 \in 1 .. Len(up.frames) /\ Len(header) + 1 \in 1 .. 2
        BY <1>3, <1>4, <1>5
      <3>2. up.frames[1] = UpNth(Len(header) + 1)
        BY <1>5, <1>6, <3>1
      <3> QED BY <3>1, <3>2, JsonIs
    <2>2. \A i \in 1 .. Len(header) : header[i] = Json[i]
      BY DEF TunnelInv, UpFlow
    <2>3. \A i \in 1 .. Len(header') : i = Len(header) + 1 \/ i \in 1 .. Len(header)
      BY <1>4
    <2>4. Len(header') <= 2
      BY <1>4, <1>5
    <2> QED BY <1>4, <2>1, <2>2, <2>3, <2>4
  <1>8. client.pc \notin {"handshake", "session", "open", "request"}
    BY <1>1 DEF TunnelInv, Progress
  <1>9. CASE HandlerEnds
    BY <1>1, <1>3, <1>4, <1>7, <1>8, <1>9, ServerGives
  <1>10. CASE /\ server' = [server EXCEPT !.pc = IF header' = Json THEN "dial" ELSE "read"]
              /\ ~(header' = Json /\ ~script.sameId)
              /\ UNCHANGED <<stream, down, target>>
    <2>1. /\ server' \in [pc : ServerPc, copy : CopyPc]
          /\ server'.pc = IF header' = Json THEN "dial" ELSE "read"
      BY <1>10 DEF TunnelInv, TunnelTypes, ServerPc
    <2>2. TunnelTypes'
      BY <1>1, <1>3, <1>4, <1>10, <2>1 DEF TunnelInv, TunnelTypes
    <2>3. (Parsed' <=> Parsed) /\ Place' = Place /\ Fulls' = Fulls /\ Data' = Data
          /\ \A i : UpNth(i)' = UpNth(i)
      BY <1>1, SameScript
    <2>4. header' = Json <=> Len(header') = 2
      <3>1. Len(header') = 2 => header' = Json
        BY <1>4, <1>7, JsonIs, SeqEqual
      <3> QED BY <3>1, JsonIs
    <2>5. Progress'
      <3>1. Reached' <=> Reached
        BY <1>1, <2>3 DEF Reached
      <3>2. header' = Json \/ Len(header') < 2
        BY <1>4, <1>7, <2>4
      <3>3. server.pc \in Unserved /\ server'.pc \in Unserved /\ server'.pc \in {"dial", "read"}
        BY <1>1, <2>1 DEF Unserved
      <3>4. /\ stream["near"] # "none" /\ client.pc \notin {"reply", "pipe", "write"}
            /\ replies # <<"success">> /\ down.frames = <<>> /\ toTarget = <<>> /\ toApp = <<>>
        BY <1>1, <3>3 DEF TunnelInv, Progress
      <3> QED BY <1>1, <1>8, <1>10, <2>1, <2>3, <3>1, <3>2, <3>3, <3>4 DEF TunnelInv, Progress
    <2>6. UpFlow'
      <3>1. UpTaken' = Len(header')
        <4>1. toTarget = <<>> /\ toTarget' = toTarget
          BY <1>1 DEF TunnelInv, Progress, Unserved
        <4> QED BY <2>1, <2>4, <4>1 DEF UpTaken
      <3>2. UpTaken' + Len(up'.frames) = UpTaken + Len(up.frames)
        <4> DEFINE h == Len(header)
                   u == Len(up.frames)
        <4>1. /\ UpTaken' = h + 1 /\ Len(up'.frames) = u - 1 /\ UpTaken = h
              /\ h \in Nat /\ u \in Nat
          BY <1>3, <1>4, <1>5, <3>1
        <4> HIDE DEF h, u
        <4>2. h + 1 + (u - 1) = h + u
          BY <4>1
        <4> QED BY <4>1, <4>2 DEF u
      <3>3. \A i \in 1 .. Len(up'.frames) : up'.frames[i] = UpNth(UpTaken' + i)
        <4> TAKE i \in 1 .. Len(up'.frames)
        <4>1. i + 1 \in 1 .. Len(up.frames) /\ i \in 1 .. Len(up.frames) - 1
              /\ Len(header) + (i + 1) = Len(header') + i
          BY <1>3, <1>4
        <4>2. up.frames[i + 1] = UpNth(UpTaken + (i + 1))
          BY <1>6, <4>1
        <4> QED BY <1>3, <1>5, <3>1, <4>1, <4>2
      <3> QED BY <1>1, <1>6, <1>7, <2>3, <3>2, <3>3 DEF TunnelInv, UpFlow
    <2>7. \A full \in Fulls : DownFlow(full) => DownFlow(full)'
      BY <1>1, <1>10, <2>1, DownStays
    <2> QED BY <2>2, <2>3, <2>5, <2>6, <2>7 DEF TunnelInv
  <1> QED BY <1>9, <1>10 DEF ReadsHeader

(* The place is reached: what it is to answer is decided.                  *)
LEMMA ReachesTunnel ==
  ASSUME TunnelInv, server.pc \in {"dial", "proxy"},
         UNCHANGED <<script, app, client, up, dead, header, replies, toTarget, toApp>>,
         NEW sends \in Fulls, NEW address, NEW port, Reaches(address, port, sends),
         Place = [addr |-> address, port |-> port]
  PROVE  TunnelInv'
  <1>1. /\ dialled' = Place /\ target' = [state |-> "open", sends |-> sends]
        /\ server' = [server EXCEPT !.pc = "ack"] /\ UNCHANGED <<stream, down>>
    BY DEF Reaches
  <1>2. sends \in Seq(Nat)
    BY FullsType
  <1>3. server' \in [pc : ServerPc, copy : CopyPc] /\ server'.pc = "ack"
    BY <1>1 DEF TunnelInv, TunnelTypes, ServerPc
  <1>4. TunnelTypes'
    BY <1>1, <1>2, <1>3 DEF TunnelInv, TunnelTypes
  <1>5. (Parsed' <=> Parsed) /\ Place' = Place /\ Fulls' = Fulls
    BY SameScript
  <1>6. /\ stream["near"] # "none" /\ Parsed /\ header = Json /\ script.sameId
        /\ client.pc \notin {"reply", "pipe", "write"} /\ replies # <<"success">>
        /\ down.frames = <<>> /\ toTarget = <<>> /\ toApp = <<>>
    BY DEF TunnelInv, Progress, Unserved
  <1>7. Progress'
    <2>1. Reached'
      BY <1>1, <1>5, <1>6 DEF Reached
    <2> QED BY <1>1, <1>3, <1>5, <1>6, <2>1 DEF TunnelInv, Progress, Unserved
  <1>8. UpFlow'
    <2>1. UpTaken' = UpTaken /\ server.pc # "done"
      BY <1>3 DEF UpTaken
    <2> QED BY <2>1, UpStays DEF TunnelInv
  <1>9. DownFlow(sends)'
    <2>1. DownTaken' = 0 /\ Len(sends) \in Nat
      BY <1>2, <1>6 DEF DownTaken
    <2> QED BY <1>1, <1>2, <1>3, <1>6, <2>1 DEF DownFlow
  <1> QED BY <1>4, <1>5, <1>7, <1>8, <1>9 DEF TunnelInv

LEMMA DialsTunnel ==
  ASSUME TunnelInv, Dials
  PROVE  TunnelInv'
  <1>1. /\ UNCHANGED <<script, app, client, up, dead, header, replies, toTarget, toApp>>
        /\ server.pc = "dial"
    BY DEF Dials
  <1>2. CASE ~script.viaProxy
             /\ Reaches(ThroughJson(Asked.addr), Asked.port, [i \in 1 .. Answer |-> i])
    <2>1. Answers \in Fulls
      <3>1. Answer \in Nat
        BY TunnelAssumption
      <3>2. Answers \in Seq(Nat)
        BY <3>1 DEF Answers
      <3>3. <<>> \o Answers = Answers
        BY <3>2, ConcatEmptySeq
      <3>4. <<>> \o Answers \in Fulls
        BY DEF Fulls
      <3> QED BY <3>3, <3>4
    <2>2. Place = [addr |-> ThroughJson(Asked.addr), port |-> Asked.port]
      BY <1>2 DEF Place
    <2>3. Reaches(ThroughJson(Asked.addr), Asked.port, Answers)
      BY <1>2 DEF Answers
    <2> QED BY <1>1, <2>1, <2>2, <2>3, ReachesTunnel
  <1>3. CASE /\ script.viaProxy /\ server' = [server EXCEPT !.pc = "proxy"]
             /\ UNCHANGED <<stream, down, target, dialled>>
    <2>1. /\ server' \in [pc : ServerPc, copy : CopyPc] /\ server'.pc = "proxy"
          /\ stream \in [Side -> {"none", "open", "closed"}]
      BY <1>3 DEF TunnelInv, TunnelTypes, ServerPc
    <2> QED BY <1>1, <1>3, <2>1, ServerMoves
  <1>4. CASE HandlerEnds /\ UNCHANGED dialled
    <2>1. /\ up \in Duct /\ header \in Seq(TunnelFrame) /\ Len(header) <= 2
          /\ \A i \in 1 .. Len(header) : header[i] = Json[i]
      BY DEF TunnelInv, TunnelTypes, UpFlow
    <2> QED BY <1>1, <1>4, <2>1, ServerGives
  <1> QED BY <1>2, <1>3, <1>4 DEF Dials

LEMMA ProxyAnswersTunnel ==
  ASSUME TunnelInv, ProxyAnswers
  PROVE  TunnelInv'
  <1> DEFINE addr == ThroughJson(Asked.addr)
             request == Request(ProxyRequest(addr, Asked.port), 1)
  <1>1. /\ UNCHANGED <<script, app, client, up, dead, header, replies, toTarget, toApp>>
        /\ server.pc = "proxy"
    BY DEF ProxyAnswers
  <1>2. script.viaProxy /\ Parsed
    BY <1>1 DEF TunnelInv, Progress
  <1>3. request.addr = Cut(addr) /\ request.port = Asked.port
    <2>1. addr \in Seq(Nat) /\ Asked.port \in Nat
      BY <1>2, ScriptType, ThroughJsonType DEF TunnelInv, TunnelTypes
    <2> QED BY <2>1, ProxyIsAsked
  <1>4. Place = [addr |-> request.addr, port |-> request.port]
    BY <1>2, <1>3 DEF Place
  <1>5. ASSUME NEW left \in {<<>>, <<Junk>>},
               Reaches(request.addr, request.port, left \o [i \in 1 .. Answer |-> i])
        PROVE  TunnelInv'
    <2>1. left \o Answers \in Fulls
      BY <1>2 DEF Fulls
    <2>2. Reaches(request.addr, request.port, left \o Answers)
      BY <1>5 DEF Answers
    <2> HIDE DEF request
    <2> QED BY <1>1, <1>4, <2>1, <2>2, ReachesTunnel
  <1>6. ASSUME HandlerEnds, UNCHANGED dialled PROVE TunnelInv'
    <2>1. /\ up \in Duct /\ header \in Seq(TunnelFrame) /\ Len(header) <= 2
          /\ \A i \in 1 .. Len(header) : header[i] = Json[i]
      BY DEF TunnelInv, TunnelTypes, UpFlow
    <2> QED BY <1>1, <1>6, <2>1, ServerGives
  <1> QED BY <1>5, <1>6 DEF ProxyAnswers

LEMMA AcknowledgesTunnel ==
  ASSUME TunnelInv, Acknowledges
  PROVE  TunnelInv'
  <1>1. /\ UNCHANGED <<script, app, client, up, dead, header, dialled, replies, toTarget, toApp>>
        /\ server.pc = "ack"
    BY DEF Acknowledges
  <1>2. CASE HandlerEnds
    <2>1. /\ up \in Duct /\ header \in Seq(TunnelFrame) /\ Len(header) <= 2
          /\ \A i \in 1 .. Len(header) : header[i] = Json[i]
      BY DEF TunnelInv, TunnelTypes, UpFlow
    <2> QED BY <1>1, <1>2, <2>1, ServerGives
  <1>3. CASE /\ Write(down, Ack) /\ server' = [pc |-> "pipe", copy |-> "reads"]
             /\ UNCHANGED <<stream, target>>
    <2>1. server' \in [pc : ServerPc, copy : CopyPc] /\ server'.pc = "pipe"
      BY <1>3 DEF ServerPc, CopyPc
    <2>2. down \in Duct /\ Ack \in TunnelFrame /\ down' = [down EXCEPT !.frames = Append(@, Ack)]
      BY <1>3 DEF TunnelInv, TunnelTypes, TunnelFrame, Ack, Write
    <2>3. /\ Len(down.frames) \in Nat /\ down' \in Duct /\ Len(down'.frames) = Len(down.frames) + 1
          /\ down'.frames[Len(down.frames) + 1] = Ack
      BY <2>2, WriteIs
    <2>4. TunnelTypes'
      BY <1>1, <1>3, <2>1, <2>3 DEF TunnelInv, TunnelTypes
    <2>5. (Parsed' <=> Parsed) /\ Place' = Place /\ Fulls' = Fulls
      BY <1>1, SameScript
    <2>6. /\ stream["near"] # "none" /\ Reached /\ header = Json /\ script.sameId
          /\ client.pc \notin {"reply", "pipe", "write"} /\ replies # <<"success">>
          /\ down.frames = <<>> /\ toTarget = <<>> /\ toApp = <<>>
      BY <1>1 DEF TunnelInv, Progress, Unserved
    <2>7. Progress'
      <3>1. Reached'
        BY <1>1, <2>5, <2>6 DEF Reached
      <3> QED BY <1>1, <1>3, <2>1, <2>5, <2>6, <3>1 DEF TunnelInv, Progress, Unserved
    <2>8. UpFlow'
      <3>1. UpTaken' = UpTaken /\ server.pc # "done"
        BY <1>1, <2>1 DEF UpTaken
      <3> QED BY <1>1, <3>1, UpStays DEF TunnelInv
    <2>9. ASSUME NEW full \in Fulls, DownFlow(full) PROVE DownFlow(full)'
      <3>1. DownTaken' = 0 /\ full \in Seq(Nat) /\ Len(full) \in Nat
        BY <1>1, <2>6, FullsType DEF DownTaken
      <3>2. target.sends = full /\ target' = target
        BY <1>1, <1>3, <2>9 DEF DownFlow
      <3>3. Len(down'.frames) = 1 /\ down'.frames[1] = Ack
        BY <2>3, <2>6
      <3>4. \A i \in 1 .. Len(down'.frames) : down'.frames[i] = DownNth(full, 0 + i)
        BY <3>3 DEF DownNth
      <3>5. \A i \in 1 .. Len(full) : Len(full) - Len(full) + i = i
        BY <3>1
      <3>6. /\ Len(target'.sends) <= Len(full)
            /\ \A i \in 1 .. Len(target'.sends) :
                 target'.sends[i] = full[Len(full) - Len(target'.sends) + i]
        <4>1. target'.sends = full
          BY <3>2
        <4>2. /\ Len(full) <= Len(full)
              /\ \A i \in 1 .. Len(full) : full[i] = full[Len(full) - Len(full) + i]
          BY <3>1, <3>5
        <4> QED BY <4>1, <4>2
      <3>7. /\ 0 + Len(down'.frames) <= 1 + Len(full)
            /\ 0 + Len(down'.frames) + Len(target'.sends) = 1 + Len(full)
        BY <3>1, <3>2, <3>3
      <3>8. /\ Len(toApp') <= Len(full) /\ \A i \in 1 .. Len(toApp') : toApp'[i] = full[i]
        BY <1>1, <2>9 DEF DownFlow
      <3>9. \A i : DownNth(full, i)' = DownNth(full, i)
        BY DEF DownNth
      <3> QED BY <2>1, <3>1, <3>4, <3>6, <3>7, <3>8, <3>9 DEF DownFlow
    <2> QED BY <2>4, <2>5, <2>7, <2>8, <2>9 DEF TunnelInv
  <1> QED BY <1>2, <1>3 DEF Acknowledges

LEMMA ServerCopyEndsTunnel ==
  ASSUME TunnelInv, ServerCopyEnds,
         UNCHANGED <<script, app, client, up, dead, header, target, dialled, replies, toTarget,
                     toApp>>
  PROVE  TunnelInv'
  <1>1. (Parsed' <=> Parsed) /\ Place' = Place /\ Fulls' = Fulls
    BY SameScript
  <1>2. Reached' <=> Reached
    BY <1>1 DEF Reached
  <1>3. server' \in [pc : ServerPc, copy : CopyPc] /\ server'.pc = server.pc
    BY DEF ServerCopyEnds, TunnelInv, TunnelTypes, CopyPc
  <1>4. /\ down' \in Duct /\ down'.frames = down.frames
        /\ stream' \in [Side -> {"none", "open", "closed"}]
        /\ \A s \in Side : stream'[s] = "none" <=> stream[s] = "none"
    BY CloseDown DEF TunnelInv, ServerCopyEnds
  <1>5. TunnelTypes'
    BY <1>3, <1>4 DEF TunnelInv, TunnelTypes
  <1>6. Progress'
    BY <1>1, <1>2, <1>3, <1>4 DEF TunnelInv, Progress, Side
  <1>7. UpFlow'
    <2>1. UpTaken' = UpTaken
      BY <1>3 DEF UpTaken
    <2> QED BY <1>3, <2>1, UpStays DEF TunnelInv
  <1>8. \A full \in Fulls : DownFlow(full) => DownFlow(full)'
    BY <1>3, <1>4, DownStays
  <1> QED BY <1>1, <1>5, <1>6, <1>7, <1>8 DEF TunnelInv

LEMMA ServerCopyReadsTunnel ==
  ASSUME TunnelInv, ServerCopyReads
  PROVE  TunnelInv'
  <1>1. UNCHANGED <<script, app, client, up, dead, header, target, dialled, replies, toTarget,
                    toApp>>
    BY DEF ServerCopyReads
  <1>2. CASE server' = [server EXCEPT !.copy = "writes"] /\ UNCHANGED <<stream, down>>
    <2>1. /\ client' \in [pc : ClientPc, copy : CopyPc, sent : Nat]
          /\ client'.pc = client.pc /\ client'.sent = client.sent /\ client'.copy = client.copy
          /\ server' \in [pc : ServerPc, copy : CopyPc] /\ server'.pc = server.pc
      BY <1>1, <1>2 DEF TunnelInv, TunnelTypes, CopyPc
    <2>2. UNCHANGED <<stream, down>>
      BY <1>2
    <2> QED BY <1>1, <2>1, <2>2, CopyMoves
  <1>3. CASE ServerCopyEnds
    BY <1>1, <1>3, ServerCopyEndsTunnel
  <1> QED BY <1>2, <1>3 DEF ServerCopyReads

LEMMA ServerCopyWritesTunnel ==
  ASSUME TunnelInv, Copying, ServerCopyWrites
  PROVE  TunnelInv'
  <1>1. /\ UNCHANGED <<script, app, client, up, dead, header, dialled, replies, toTarget, toApp>>
        /\ server.copy = "writes" /\ target.sends # <<>>
    BY DEF ServerCopyWrites, Copying
  <1>2. (Parsed' <=> Parsed) /\ Place' = Place /\ Fulls' = Fulls
    BY <1>1, SameScript
  <1>3. Reached' <=> Reached
    BY <1>1, <1>2 DEF Reached
  <1>4. ASSUME Writable("far"), Write(down, <<"data", Head(target.sends)>>),
               target' = [target EXCEPT !.sends = Tail(@)],
               server' = [server EXCEPT !.copy = "reads"], UNCHANGED stream
        PROVE  TunnelInv'
    <2> DEFINE s == target.sends
    <2>1. /\ server' \in [pc : ServerPc, copy : CopyPc] /\ server'.pc = server.pc
           /\ server.pc \in {"pipe", "write"}
      BY <1>1, <1>4 DEF TunnelInv, TunnelTypes, Copying, Writable, CopyPc
    <2>2. s \in Seq(Nat) /\ s # <<>> /\ target'.sends = Tail(s)
          /\ target' = [state |-> target.state, sends |-> Tail(s)]
          /\ target.state \in {"none", "open", "closed"}
      BY <1>1, <1>4 DEF TunnelInv, TunnelTypes
    <2>3. down \in Duct /\ down' = [down EXCEPT !.frames = Append(@, <<"data", Head(s)>>)]
      BY <1>4 DEF TunnelInv, TunnelTypes, Write
    <2>4. Reached /\ server.pc \notin Unserved /\ stream["near"] # "none" /\ header = Json
          /\ script.sameId
      BY <2>1 DEF TunnelInv, Progress, Unserved
    <2> HIDE DEF s
    <2>5. /\ Head(s) \in Nat /\ Head(s) = s[1] /\ Tail(s) \in Seq(Nat) /\ Len(Tail(s)) = Len(s) - 1
          /\ Len(s) \in Nat /\ Len(s) >= 1
          /\ \A i \in 1 .. Len(Tail(s)) : Tail(s)[i] = s[i + 1]
      BY <2>2, HeadTailProperties
    <2>6. <<"data", Head(s)>> \in TunnelFrame
      BY <2>5 DEF TunnelFrame
    <2>7. /\ Len(down.frames) \in Nat /\ down' \in Duct /\ Len(down'.frames) = Len(down.frames) + 1
          /\ \A i \in 1 .. Len(down.frames) : down'.frames[i] = down.frames[i]
          /\ down'.frames[Len(down.frames) + 1] = <<"data", Head(s)>>
      BY <2>3, <2>6, WriteIs
    <2>8. TunnelTypes'
      <3>1. target' \in [state : {"none", "open", "closed"}, sends : Seq(Nat)]
        BY <2>2, <2>5
      <3> QED BY <1>1, <1>4, <2>7, <2>1, <3>1 DEF TunnelInv, TunnelTypes
    <2>9. Progress'
      BY <1>1, <1>2, <1>3, <1>4, <2>4, <2>1 DEF TunnelInv, Progress, Unserved
    <2>10. UpFlow'
      <3>1. UpTaken' = UpTaken
        BY <1>1, <2>1 DEF UpTaken
      <3> QED BY <1>1, <1>4, <2>1, <3>1, UpStays DEF TunnelInv
    <2>11. ASSUME NEW full \in Fulls, DownFlow(full) PROVE DownFlow(full)'
      <3> DEFINE n == Len(full)
                 l == Len(s)
                 d == Len(down.frames)
      <3>1. n \in Nat /\ l \in Nat /\ l >= 1 /\ d \in Nat
            /\ Len(down'.frames) = d + 1 /\ Len(target'.sends) = l - 1
        BY <2>2, <2>5, <2>7, FullsType
      <3>2. DownTaken' = DownTaken /\ DownTaken \in Nat
            /\ \A i : DownNth(full, i)' = DownNth(full, i)
        BY <1>1 DEF DownTaken, DownNth, TunnelInv, TunnelTypes
      <3>3. l <= n /\ \A i \in 1 .. l : s[i] = full[n - l + i]
        BY <2>1, <2>11 DEF DownFlow, s
      <3>4. client.pc # "done" =>
              /\ DownTaken + d + l = 1 + n
              /\ \A i \in 1 .. d : down.frames[i] = DownNth(full, DownTaken + i)
        BY <1>4, <2>11, <2>1 DEF DownFlow, Writable, s
      <3>5. /\ Len(toApp') <= n /\ \A i \in 1 .. Len(toApp') : toApp'[i] = full[i]
        BY <1>1, <2>11 DEF DownFlow
      <3>6. down'.frames[d + 1] = <<"data", s[1]>>
        BY <2>5, <2>7
      <3>7. \A i \in 1 .. d : down'.frames[i] = down.frames[i]
        BY <2>7
      <3>8. \A i \in 1 .. l - 1 : target'.sends[i] = s[i + 1]
        BY <2>2, <2>5
      <3> HIDE DEF n, l, d
      <3>9. Len(target'.sends) <= n
            /\ \A i \in 1 .. Len(target'.sends) :
                 target'.sends[i] = full[n - Len(target'.sends) + i]
        <4>1. Len(target'.sends) <= n
          BY <3>1, <3>3
        <4>2. ASSUME NEW i \in 1 .. l - 1 PROVE target'.sends[i] = full[n - (l - 1) + i]
          <5>1. i + 1 \in 1 .. l /\ n - l + (i + 1) = n - (l - 1) + i
            BY <3>1
          <5> QED BY <3>3, <3>8, <5>1
        <4> QED BY <3>1, <4>1, <4>2
      <3>10. client.pc # "done" =>
               /\ DownTaken + Len(down'.frames) <= 1 + n
               /\ DownTaken + Len(down'.frames) + Len(target'.sends) = 1 + n
               /\ \A i \in 1 .. Len(down'.frames) : down'.frames[i] = DownNth(full, DownTaken + i)
        <4> SUFFICES ASSUME client.pc # "done"
                     PROVE  /\ DownTaken + Len(down'.frames) <= 1 + n
                            /\ DownTaken + Len(down'.frames) + Len(target'.sends) = 1 + n
                            /\ \A i \in 1 .. Len(down'.frames) :
                                 down'.frames[i] = DownNth(full, DownTaken + i)
          OBVIOUS
        <4>1. /\ DownTaken + (d + 1) <= 1 + n
              /\ DownTaken + (d + 1) + (l - 1) = 1 + n
          <5>1. DownTaken + d + l = 1 + n
            BY <3>4
          <5> QED BY <3>1, <3>2, <5>1
        <4>2. DownNth(full, DownTaken + (d + 1)) = <<"data", s[1]>>
          <5>1. DownTaken + (d + 1) # 1 /\ n - l + 1 = DownTaken + (d + 1) - 1 /\ 1 \in 1 .. l
            <6>1. l <= n /\ DownTaken + d + l = 1 + n
              BY <3>3, <3>4
            <6> QED BY <3>1, <3>2, <6>1
          <5>2. s[1] = full[DownTaken + (d + 1) - 1]
            <6>1. s[1] = full[n - l + 1]
              BY <3>3, <5>1
            <6> QED BY <5>1, <6>1
          <5> QED BY <3>1, <3>2, <5>1, <5>2 DEF DownNth
        <4>3. \A i \in 1 .. d + 1 : i = d + 1 \/ i \in 1 .. d
          BY <3>1
        <4>4. \A i \in 1 .. d + 1 : down'.frames[i] = DownNth(full, DownTaken + i)
          BY <3>4, <3>6, <3>7, <4>2, <4>3
        <4> QED BY <3>1, <4>1, <4>4
      <3> QED BY <1>1, <1>4, <2>1, <3>2, <3>5, <3>9, <3>10 DEF DownFlow, n
    <2> QED BY <1>2, <2>8, <2>9, <2>10, <2>11 DEF TunnelInv
  <1>5. ASSUME ServerCopyEnds, UNCHANGED target PROVE TunnelInv'
    BY <1>1, <1>5, ServerCopyEndsTunnel
  <1> QED BY <1>4, <1>5 DEF ServerCopyWrites

LEMMA ServerReadsTunnel ==
  ASSUME TunnelInv, ServerReads
  PROVE  TunnelInv'
  <1>1. /\ UNCHANGED <<script, app, client, dead, header, dialled, replies, toApp>>
        /\ server.pc = "pipe"
    BY DEF ServerReads
  <1>2. CASE HandlerEnds /\ UNCHANGED <<up, toTarget>>
    <2>1. /\ up \in Duct /\ header \in Seq(TunnelFrame) /\ Len(header) <= 2
          /\ \A i \in 1 .. Len(header) : header[i] = Json[i]
      BY DEF TunnelInv, TunnelTypes, UpFlow
    <2> QED BY <1>1, <1>2, <2>1, ServerGives
  <1>3. CASE /\ up.frames # <<>> /\ toTarget' = Append(toTarget, Head(up.frames)[2])
             /\ Consume(up) /\ server' = [server EXCEPT !.pc = "write"]
             /\ UNCHANGED <<stream, down, target>>
    <2>1. up \in Duct /\ up.frames # <<>> /\ up' = [up EXCEPT !.frames = Tail(@)]
      BY <1>3 DEF TunnelInv, TunnelTypes, Consume
    <2>2. /\ Len(up.frames) \in Nat /\ Len(up.frames) >= 1
          /\ Head(up.frames) = up.frames[1] /\ Head(up.frames) \in TunnelFrame
          /\ up' \in Duct /\ Len(up'.frames) = Len(up.frames) - 1
          /\ \A i \in 1 .. Len(up.frames) - 1 : up'.frames[i] = up.frames[i + 1]
      BY <2>1, HeadIs
    <2>3. /\ toTarget' \in Seq(Nat) /\ Len(toTarget') = Len(toTarget) + 1 /\ Len(toTarget) \in Nat
          /\ \A i \in 1 .. Len(toTarget) : toTarget'[i] = toTarget[i]
          /\ toTarget'[Len(toTarget) + 1] = up.frames[1][2]
      <3>1. Head(up.frames)[2] \in Nat /\ toTarget \in Seq(Nat)
        BY <2>2 DEF TunnelInv, TunnelTypes, TunnelFrame
      <3> QED BY <1>3, <2>2, <3>1, AppendProperties
    <2>4. server' \in [pc : ServerPc, copy : CopyPc] /\ server'.pc = "write"
      BY <1>3 DEF TunnelInv, TunnelTypes, ServerPc
    <2>5. TunnelTypes'
      BY <1>1, <1>3, <2>2, <2>3, <2>4 DEF TunnelInv, TunnelTypes
    <2>6. (Parsed' <=> Parsed) /\ Place' = Place /\ Fulls' = Fulls /\ Data' = Data
          /\ \A i : UpNth(i)' = UpNth(i)
      BY <1>1, SameScript
    <2>7. Progress'
      <3>1. Reached' <=> Reached
        BY <1>1, <2>6 DEF Reached
      <3>2. server.pc \notin Unserved /\ server.pc \notin {"none", "read", "proxy"}
        BY <1>1 DEF Unserved
      <3>3. client.pc \notin {"handshake", "session", "open", "request"}
        BY <2>1 DEF TunnelInv, Progress
      <3> QED BY <1>1, <1>3, <2>6, <2>4, <3>1, <3>2, <3>3 DEF TunnelInv, Progress, Unserved
    <2>8. UpFlow'
      <3> DEFINE t == Len(toTarget)
                 u == Len(up.frames)
      <3>1. /\ UpTaken = 2 + t /\ UpTaken' = 2 + (t + 1) /\ t \in Nat
            /\ u \in Nat /\ u >= 1 /\ Len(up'.frames) = u - 1 /\ Len(toTarget') = t + 1
        BY <1>1, <1>3, <2>2, <2>3, <2>4 DEF UpTaken
      <3>2. client.sent \in Nat
        BY DEF TunnelInv, TunnelTypes
      <3>3. /\ UpTaken + u <= 2 + client.sent
            /\ \A i \in 1 .. u : up.frames[i] = UpNth(UpTaken + i)
            /\ "near" \notin dead /\ client.pc \in {"ack", "reply", "pipe", "write"} =>
                 UpTaken + u = 2 + client.sent
        BY <1>1 DEF TunnelInv, UpFlow
      <3>4. \A i \in 1 .. t : toTarget[i] = Data[i]
        BY DEF TunnelInv, UpFlow
      <3>5. \A i \in 1 .. u - 1 : up'.frames[i] = up.frames[i + 1]
        BY <2>2
      <3>6. toTarget'[t + 1] = up.frames[1][2] /\ \A i \in 1 .. t : toTarget'[i] = toTarget[i]
        BY <2>3
      <3> HIDE DEF t, u
      <3>7. up.frames[1] = <<"data", Data[t + 1]>>
        <4>1. 1 \in 1 .. u /\ UpTaken + 1 = 3 + t /\ ~(3 + t <= 2) /\ 3 + t - 2 = t + 1
          BY <3>1
        <4>2. up.frames[1] = UpNth(3 + t)
          BY <3>3, <4>1
        <4>3. UpNth(3 + t) = <<"data", Data[t + 1]>>
          BY <3>1, <4>1 DEF UpNth
        <4> QED BY <4>2, <4>3
      <3>8. \A i \in 1 .. Len(toTarget') : toTarget'[i] = Data[i]
        <4>1. \A i \in 1 .. t + 1 : i = t + 1 \/ i \in 1 .. t
          BY <3>1
        <4>2. \A i \in 1 .. t + 1 : toTarget'[i] = Data[i]
          BY <3>4, <3>6, <3>7, <4>1
        <4> QED BY <3>1, <4>2
      <3>9. \A i \in 1 .. Len(up'.frames) : up'.frames[i] = UpNth(UpTaken' + i)
        <4>1. ASSUME NEW i \in 1 .. u - 1 PROVE up'.frames[i] = UpNth(2 + (t + 1) + i)
          <5>1. i + 1 \in 1 .. u /\ UpTaken + (i + 1) = 2 + (t + 1) + i
            BY <3>1
          <5>2. up.frames[i + 1] = UpNth(UpTaken + (i + 1))
            BY <3>3, <5>1
          <5> QED BY <3>5, <5>1, <5>2
        <4> QED BY <3>1, <4>1
      <3>10. UpTaken' + Len(up'.frames) = UpTaken + u
        <4>1. 2 + (t + 1) + (u - 1) = 2 + t + u
          BY <3>1
        <4> QED BY <3>1, <4>1
      <3>11. Len(toTarget') <= client.sent
        <4>1. 2 + t + u <= 2 + client.sent
          BY <3>1, <3>3
        <4>2. t + 1 <= client.sent
          BY <3>1, <3>2, <4>1
        <4> QED BY <3>1, <4>2
      <3> QED BY <1>1, <1>3, <2>6, <3>3, <3>8, <3>9, <3>10, <3>11 DEF TunnelInv, UpFlow
    <2>9. \A full \in Fulls : DownFlow(full) => DownFlow(full)'
      BY <1>1, <1>3, <2>4, DownStays
    <2> QED BY <2>5, <2>6, <2>7, <2>8, <2>9 DEF TunnelInv
  <1> QED BY <1>2, <1>3 DEF ServerReads

LEMMA ServerWritesTunnel ==
  ASSUME TunnelInv, ServerWrites
  PROVE  TunnelInv'
  <1>1. /\ UNCHANGED <<script, app, client, up, dead, header, dialled, replies, toTarget, toApp>>
        /\ server.pc = "write"
    BY DEF ServerWrites
  <1>2. CASE HandlerEnds
    <2>1. /\ up \in Duct /\ header \in Seq(TunnelFrame) /\ Len(header) <= 2
          /\ \A i \in 1 .. Len(header) : header[i] = Json[i]
      BY DEF TunnelInv, TunnelTypes, UpFlow
    <2> QED BY <1>1, <1>2, <2>1, ServerGives
  <1>3. CASE server' = [server EXCEPT !.pc = "pipe"] /\ UNCHANGED <<stream, down, target>>
    <2>1. /\ client' \in [pc : ClientPc, copy : CopyPc, sent : Nat]
          /\ client'.pc = client.pc /\ client'.sent = client.sent /\ client'.copy = client.copy
          /\ server' \in [pc : ServerPc, copy : CopyPc] /\ server'.pc = "pipe"
      BY <1>1, <1>3 DEF TunnelInv, TunnelTypes, ServerPc
    <2>2. UNCHANGED <<stream, down, target>>
      BY <1>3
    <2> QED BY <1>1, <2>1, <2>2, CopyMoves
  <1> QED BY <1>2, <1>3 DEF ServerWrites

(* A handler closes its end as it ends; a copy writes once it has read.    *)
LEMMA CopyingKept ==
  ASSUME TunnelInv, Copying, [TunnelNext]_tunnelVars
  PROVE  Copying'
  <1>1. Data' = Data
    <2>1. script' = script
      BY DEF TunnelNext, tunnelVars, Environment, ClientRuns, ClientCopies, ServerRuns,
             ServerCopies, AppFinishes, AppLeaves, TargetEnds, SessionEnds, ReadsRequest,
             ChecksSession, OpensStream, SendsRequest, AwaitsAck, Replies, ClientReads, ClientWrites,
             ClientCopyReads, ClientCopyWrites, Accepts, ReadsHeader, HeaderFails, Dials,
             ProxyAnswers, Acknowledges, ServerReads, ServerWrites, ServerCopyReads,
             ServerCopyWrites
    <2> QED BY <2>1, SameScript
  <1>2. CASE UNCHANGED tunnelVars
    BY <1>1, <1>2 DEF Copying, tunnelVars
  <1>3. CASE Environment
    BY <1>1, <1>3 DEF Copying, TunnelInv, TunnelTypes, Environment, AppFinishes, AppLeaves,
       TargetEnds, SessionEnds
  <1>4. CASE ClientRuns \/ ClientCopies
    <2>1. UNCHANGED <<server, target>>
      BY <1>4 DEF ClientRuns, ClientCopies, ReadsRequest, ChecksSession, OpensStream, SendsRequest,
         AwaitsAck, Replies, ClientReads, ClientWrites, ClientCopyReads, ClientCopyWrites
    <2>2. \/ Close("near", up)
          \/ stream' = stream /\ (client'.pc # "done" \/ client.pc \in {"handshake", "done"})
          \/ stream' = [stream EXCEPT !["near"] = "open"] /\ client'.pc = "request"
      <3>1. CASE ClientRuns
        BY <3>1 DEF TunnelInv, TunnelTypes, Refuses, ClientEnds, ClientRuns, ReadsRequest,
           ChecksSession, OpensStream, SendsRequest, AwaitsAck, Replies, ClientReads, ClientWrites
      <3>2. CASE ClientCopies
        BY <3>2 DEF TunnelInv, TunnelTypes, ClientCopies, ClientCopyReads, ClientCopyWrites,
           ClientCopyEnds
      <3> QED BY <1>4, <3>1, <3>2
    <2>3. /\ stream'["far"] = stream["far"]
          /\ client'.pc = "done" => stream'["near"] # "open"
      BY <2>2 DEF Copying, TunnelInv, TunnelTypes, Progress, Side, Close
    <2>4. client'.copy = "writes" => client'.sent < Len(Data)
      <3>1. CASE ClientRuns
        <4>1. /\ client'.sent = client.sent
              /\ client'.copy = client.copy \/ client'.copy = "reads"
          BY <3>1 DEF TunnelInv, TunnelTypes, Refuses, ClientEnds, ClientRuns, ReadsRequest,
             ChecksSession, OpensStream, SendsRequest, AwaitsAck, Replies, ClientReads, ClientWrites
        <4> QED BY <4>1 DEF Copying
      <3>2. CASE ClientCopies
        BY <3>2 DEF TunnelInv, TunnelTypes, ClientCopies, ClientCopyReads, ClientCopyWrites,
           ClientCopyEnds
      <3> QED BY <1>4, <3>1, <3>2
    <2> QED BY <1>1, <2>1, <2>3, <2>4 DEF Copying
  <1>5. CASE Accepts \/ ServerRuns \/ ProxyAnswers \/ ServerCopies
    <2>1. client' = client
      BY <1>5 DEF Accepts, ServerRuns, ProxyAnswers, ServerCopies, ReadsHeader, HeaderFails, Dials,
         Acknowledges, ServerReads, ServerWrites, ServerCopyReads, ServerCopyWrites
    <2>2. \/ Close("far", down)
          \/ stream' = stream /\ (server'.pc # "done" \/ server.pc = "done")
          \/ stream' = [stream EXCEPT !["far"] = "open"] /\ server'.pc = "read"
      BY <1>5 DEF TunnelInv, TunnelTypes, HandlerEnds, ServerCopyEnds, Reaches,
         Accepts, ServerRuns, ProxyAnswers, ServerCopies, ReadsHeader, HeaderFails, Dials,
         Acknowledges, ServerReads, ServerWrites, ServerCopyReads, ServerCopyWrites
    <2>3. /\ stream'["near"] = stream["near"]
          /\ server'.pc = "done" => stream'["far"] # "open"
      BY <2>2 DEF Copying, TunnelInv, TunnelTypes, Side, Close
    <2>4. /\ server'.copy # "none" => server'.pc \in {"pipe", "write", "done"}
          /\ server'.copy = "writes" => target'.sends # <<>>
      BY <1>5 DEF Copying, TunnelInv, TunnelTypes, HandlerEnds, ServerCopyEnds, Reaches,
         Accepts, ServerRuns, ProxyAnswers, ServerCopies, ReadsHeader, HeaderFails, Dials,
         Acknowledges, ServerReads, ServerWrites, ServerCopyReads, ServerCopyWrites
    <2> QED BY <1>1, <2>1, <2>3, <2>4 DEF Copying
  <1> QED BY <1>2, <1>3, <1>4, <1>5 DEF TunnelNext

LEMMA NextTunnel == TunnelInv /\ Copying /\ [TunnelNext]_tunnelVars => TunnelInv'
  <1> SUFFICES ASSUME TunnelInv, Copying, [TunnelNext]_tunnelVars PROVE TunnelInv'
    OBVIOUS
  <1>1. CASE UNCHANGED tunnelVars
    <2>1. UNCHANGED <<script, app, client, server, stream, up, down, dead, header, target, dialled,
                      replies, toTarget, toApp>>
      BY <1>1 DEF tunnelVars
    <2>2. TunnelTypes'
      BY <2>1 DEF TunnelInv, TunnelTypes
    <2>3. Progress'
      BY <2>1, ProgressStays DEF TunnelInv
    <2>4. UpFlow'
      <3>1. UpTaken' = UpTaken
        BY <2>1 DEF UpTaken
      <3> QED BY <2>1, <3>1, UpStays DEF TunnelInv
    <2>5. \A full \in Fulls : DownFlow(full) => DownFlow(full)'
      BY <2>1, DownStays
    <2>6. Fulls' = Fulls
      BY <2>1, SameScript
    <2> QED BY <2>2, <2>3, <2>4, <2>5, <2>6 DEF TunnelInv
  <1>2. CASE TunnelNext
    <2>1. ASSUME Environment PROVE TunnelInv'
      BY <2>1, EndsTunnel, SessionEndsTunnel DEF Environment
    <2>2. ASSUME ClientRuns PROVE TunnelInv'
      BY <2>2, ReadsRequestTunnel, OpensTunnel, SendsRequestTunnel, AwaitsAckTunnel, RepliesTunnel,
         ClientReadsTunnel, ClientWritesTunnel DEF ClientRuns
    <2>3. ASSUME ServerRuns PROVE TunnelInv'
      BY <2>3, ReadsHeaderTunnel, HeaderFailsTunnel, DialsTunnel, AcknowledgesTunnel,
         ServerReadsTunnel, ServerWritesTunnel DEF ServerRuns
    <2>4. ASSUME ClientCopies PROVE TunnelInv'
      BY <2>4, ClientCopyReadsTunnel, ClientCopyWritesTunnel DEF ClientCopies
    <2>5. ASSUME ServerCopies PROVE TunnelInv'
      BY <2>5, ServerCopyReadsTunnel, ServerCopyWritesTunnel DEF ServerCopies
    <2> QED BY <1>2, <2>1, <2>2, <2>3, <2>4, <2>5, AcceptsTunnel, ProxyAnswersTunnel
            DEF TunnelNext
  <1> QED BY <1>1, <1>2

LEMMA TunnelInvariant == Spec => []TunnelInv
  <1>1. Init => TunnelInv /\ Copying
    BY InitTunnel DEF Init, TunnelInit, Copying
  <1>2. TunnelInv /\ Copying /\ [Next]_vars => TunnelInv' /\ Copying'
    <2> SUFFICES ASSUME TunnelInv, Copying, [Next]_vars PROVE TunnelInv' /\ Copying'
      OBVIOUS
    <2>1. [TunnelNext]_tunnelVars
      BY DEF Next, Path, Through, Assemble, vars
    <2> QED BY <2>1, NextTunnel, CopyingKept
  <1> QED BY <1>1, <1>2, PTL DEF Spec

(* The state of the layers is what the code can be in, for any constants:  *)
(* queues within their bounds, a worker that sends has a message, the      *)
(* request is read in order, a target is acknowledged once it is dialled.  *)
THEOREM PathTypeCorrect == Spec => []TypeOK
  <1>1. PathInv => PathTypeOK
    BY DEF PathInv, PathTypes, QueueTypes, PathTypeOK
  <1>2. TunnelInv => TunnelTypeOK
    <2> SUFFICES ASSUME TunnelInv PROVE TunnelTypeOK
      OBVIOUS
    <2>1. IsPrefix(header, Json)
      <3> DEFINE n == Len(header)
      <3>1. /\ header \in Seq(TunnelFrame) /\ n \in Nat /\ n <= 2
            /\ \A i \in 1 .. n : header[i] = Json[i]
        BY DEF TunnelInv, TunnelTypes, UpFlow
      <3>2. \A i \in 1 .. n : i \in 1 .. Len(Json)
        BY <3>1, JsonIs
      <3>3. SubSeq(header, 1, n) = header
        BY <3>1, SubSeqFull
      <3>4. SubSeq(Json, 1, n) = header
        <4>1. \A i \in 1 .. n : Json[i] \in TunnelFrame
          BY <3>2, JsonIs, ElementOfSeq
        <4>2. /\ SubSeq(Json, 1, n) \in Seq(TunnelFrame)
              /\ Len(SubSeq(Json, 1, n)) = IF 1 <= n THEN n - 1 + 1 ELSE 0
              /\ \A i \in 1 .. n - 1 + 1 : SubSeq(Json, 1, n)[i] = Json[1 + i - 1]
          BY <3>1, <4>1, SubSeqProperties
        <4>3. n - 1 + 1 = n /\ \A i \in 1 .. n : 1 + i - 1 = i
          BY <3>1
        <4>4. Len(SubSeq(Json, 1, n)) = n /\ \A i \in 1 .. n : SubSeq(Json, 1, n)[i] = header[i]
          BY <3>1, <4>2, <4>3
        <4> QED BY <3>1, <4>2, <4>4, SeqEqual
      <3>5. n <= Len(Json) /\ SubSeq(header, 1, n) = SubSeq(Json, 1, n)
        BY <3>1, <3>3, <3>4, JsonIs
      <3> QED BY <3>5, Zenon DEF IsPrefix
    <2>2. server.pc \in {"ack", "pipe", "write"} => dialled # Nowhere
      <3>1. Parsed => Place.port \in Nat
        BY ScriptType DEF TunnelInv, TunnelTypes, Place
      <3>2. Nowhere.port \notin Nat
        BY DEF Nowhere
      <3> QED BY <3>1, <3>2 DEF TunnelInv, Progress, Reached
    <2>3. client.pc \in {"pipe", "write"} => stream["near"] # "none"
      BY DEF TunnelInv, Progress
    <2>4. target.state \in {"none", "open", "closed"}
      BY DEF TunnelInv, TunnelTypes
    <2> QED BY <2>1, <2>2, <2>3, <2>4 DEF TunnelInv, TunnelTypes, TunnelTypeOK, Piping
  <1> QED BY <1>1, <1>2, PathInvariant, TunnelInvariant, PTL DEF TypeOK

(* The scripts mean what they say: their target and data are what their    *)
(* bytes ask for, and an upstream proxy can be asked for it.               *)
Means(s) ==
  /\ s.data \in Seq(Nat)
  /\ LET asked == Reading(s)
         addr == ThroughJson(asked.addr)
     IN  asked.status = "ok" =>
           /\ s.target = [addr |-> addr, port |-> asked.port]
           /\ s.data = SubSeq(s.bytes, asked.pos, Len(s.bytes))
           /\ s.viaProxy => Len(addr) <= 255
ScriptsMean == \A s \in Scripts : Means(s)

(* A prefix, pointwise.                                                    *)
LEMMA PrefixIs ==
  ASSUME NEW s \in Seq(Nat), NEW t \in Seq(Nat), Len(s) <= Len(t),
         \A i \in 1 .. Len(s) : s[i] = t[i]
  PROVE  IsPrefix(s, t)
  <1> DEFINE n == Len(s)
  <1>1. n \in Nat /\ \A i \in 1 .. n : i \in 1 .. Len(t)
    OBVIOUS
  <1>2. SubSeq(s, 1, n) = s
    BY SubSeqFull
  <1>3. \A i \in 1 .. n : t[i] \in Nat
    BY <1>1, ElementOfSeq
  <1>4. /\ SubSeq(t, 1, n) \in Seq(Nat)
        /\ Len(SubSeq(t, 1, n)) = IF 1 <= n THEN n - 1 + 1 ELSE 0
        /\ \A i \in 1 .. n - 1 + 1 : SubSeq(t, 1, n)[i] = t[1 + i - 1]
    BY <1>1, <1>3, SubSeqProperties
  <1>5. n - 1 + 1 = n /\ \A i \in 1 .. n : 1 + i - 1 = i
    BY <1>1
  <1>6. Len(SubSeq(t, 1, n)) = n /\ \A i \in 1 .. n : SubSeq(t, 1, n)[i] = s[i]
    BY <1>1, <1>4, <1>5
  <1>7. SubSeq(t, 1, n) = s
    BY <1>4, <1>6, SeqEqual
  <1> QED BY <1>2, <1>7, Zenon DEF IsPrefix

(* A success means that the server accepted the request and reached what   *)
(* the application's bytes named, and each end gets a prefix of what the   *)
(* other wrote (handleSocks5, tunnel, handleStream, dispatch), whatever    *)
(* the application writes and wherever sessions end.                       *)
THEOREM TunnelTransparent ==
  ASSUME ScriptsMean
  PROVE  Spec => []TunnelIsTransparent
  <1>1. TunnelInv => TunnelIsTransparent
    <2> SUFFICES ASSUME TunnelInv PROVE TunnelIsTransparent
      OBVIOUS
    <2>1. Means(script) /\ script \in Scripts
      BY DEF TunnelInv, TunnelTypes, ScriptsMean
    <2>2. Parsed =>
            /\ script.target = Place
            /\ script.data = Data
      <3>1. Parsed => /\ script.target = [addr |-> ThroughJson(Asked.addr), port |-> Asked.port]
                      /\ script.data = Data
                      /\ script.viaProxy => Len(ThroughJson(Asked.addr)) <= 255
        BY <2>1 DEF Means, Parsed, Asked, Readings, Data
      <3>2. Parsed => ThroughJson(Asked.addr) \in Seq(Nat)
        BY <2>1, ScriptType, ThroughJsonType
      <3>3. Parsed /\ script.viaProxy => Cut(ThroughJson(Asked.addr)) = ThroughJson(Asked.addr)
        BY <3>1, <3>2 DEF Cut
      <3> QED BY <3>1, <3>3 DEF Place
    <2>3. replies = <<"success">> =>
            Asked.status = "ok" /\ script.sameId /\ dialled = script.target
      BY <2>2 DEF TunnelInv, Progress, Reached, Parsed
    <2>4. IsPrefix(toTarget, script.data)
      <3>1. /\ toTarget \in Seq(Nat) /\ client.sent \in Nat
            /\ Len(toTarget) <= client.sent /\ \A i \in 1 .. Len(toTarget) : toTarget[i] = Data[i]
        BY DEF TunnelInv, TunnelTypes, UpFlow
      <3>2. CASE Parsed
        <4>1. Data \in Seq(Nat) /\ client.sent <= Len(Data)
          BY <2>1, <3>2, ScriptType DEF TunnelInv, UpFlow
        <4>2. Len(toTarget) <= Len(Data)
          BY <3>1, <4>1
        <4>3. IsPrefix(toTarget, Data)
          BY <3>1, <4>1, <4>2, PrefixIs
        <4> QED BY <2>2, <3>2, <4>3
      <3>3. CASE ~Parsed
        <4>1. toTarget = <<>>
          BY <3>1, <3>3 DEF TunnelInv, Progress, Reached
        <4>2. script.data \in Seq(Nat)
          BY <2>1 DEF Means
        <4>3. <<>> \in Seq(Nat) /\ Len(<<>>) <= Len(script.data) /\ ~\E i \in 1 .. Len(<<>>) : TRUE
          BY <4>2
        <4>4. IsPrefix(<<>>, script.data)
          BY <4>2, <4>3, PrefixIs
        <4> QED BY <4>1, <4>4
      <3> QED BY <3>2, <3>3
    <2>5. \E left \in (IF script.viaProxy THEN {<<>>, <<Junk>>} ELSE {<<>>}) :
            IsPrefix(toApp, left \o [i \in 1 .. Answer |-> i])
      <3>1. PICK full \in Fulls : DownFlow(full)
        BY DEF TunnelInv
      <3>2. PICK left \in (IF script.viaProxy THEN {<<>>, <<Junk>>} ELSE {<<>>}) :
              full = left \o Answers
        BY DEF Fulls
      <3>3. IsPrefix(toApp, full)
        <4>1. full \in Seq(Nat) /\ toApp \in Seq(Nat)
          BY FullsType DEF TunnelInv, TunnelTypes
        <4>2. Len(toApp) <= Len(full) /\ \A i \in 1 .. Len(toApp) : toApp[i] = full[i]
          BY <3>1 DEF DownFlow
        <4> QED BY <4>1, <4>2, PrefixIs
      <3> QED BY <3>2, <3>3 DEF Answers
    <2>6. toTarget # <<>> \/ toApp # <<>> => replies = <<"success">>
      <3>1. toTarget # <<>> => client.sent > 0
        <4>1. toTarget \in Seq(Nat) /\ client.sent \in Nat /\ Len(toTarget) <= client.sent
          BY DEF TunnelInv, TunnelTypes, UpFlow
        <4>2. toTarget # <<>> => Len(toTarget) >= 1
          BY <4>1
        <4> QED BY <4>1, <4>2
      <3> QED BY <3>1 DEF TunnelInv, Progress
    <2> QED BY <2>3, <2>4, <2>5, <2>6 DEF TunnelIsTransparent
  <1> QED BY <1>1, TunnelInvariant, PTL

=============================================================================
