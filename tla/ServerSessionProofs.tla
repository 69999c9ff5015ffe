------------------------- MODULE ServerSessionProofs ------------------------
(***************************************************************************)
(* Proofs about ServerSession for any set of callers and any bounds: its   *)
(* type invariant, that no session is abandoned open when callbacks come   *)
(* only after bringUpLink installed the first session, and that sessions   *)
(* are replaced only for a cause.                                          *)
(***************************************************************************)
EXTENDS ServerSession, FiniteSetTheorems, TLAPS

(* serve is in AcceptStream on a session, never on nil.                    *)
AcceptsSession == pc[Main] = "accept" => seen[Main] \in 1 .. created

(* The session is nil while a goroutine is between the swap and the end of *)
(* installSession; before bringUpLink is done nothing was made and no      *)
(* goroutine of the link is in a callback.                                 *)
InstallingInv == holder # Nobody => session = None
StartingInv ==
  watcher = "none" => /\ created = 0 /\ holder = Nobody
                      /\ pc[Main] \in {"connect", "returned"}
                      /\ \A t \in Callers : pc[t] = "idle"
UpInv == watcher # "none" => pc[Main] # "connect"

TypeInv == TypeOK /\ AcceptsSession
LiveInv == TypeInv /\ InstallingInv /\ StartingInv /\ UpInv /\ LiveIsInstalled

LEMMA InitTypeInv == Init => TypeInv
<1> SUFFICES ASSUME Init PROVE TypeInv
  OBVIOUS
<1> USE ServerAssumption DEF Init, Thread, Main, Nobody, None
<1>1. pc \in [Thread -> {"connect", "idle"}] /\ pc[Main] = "connect"
  OBVIOUS
<1>2. \A t \in Thread : pc[t] # "install" /\ holder # t
  OBVIOUS
<1>3. seen \in [Thread -> 0 .. created]
  OBVIOUS
<1>4. \A t \in Thread : pc[t] = "install" <=> holder = t
  BY <1>2
<1>5. pc \in [Thread -> {"connect", "check", "load", "sleep", "accept", "failed", "lock",
                        "install", "shutdown", "wait", "returned", "idle", "ended"}]
  BY <1>1
<1>6. holder \in Thread \cup {Nobody}
  OBVIOUS
<1>7. /\ created \in Nat /\ session \in 0 .. created
      /\ closed \subseteq 1 .. created /\ broken \subseteq 1 .. created
      /\ handlers \subseteq 1 .. created
      /\ callbacks \in 0 .. MaxCallbacks
  OBVIOUS
<1>8. /\ cancelled \in BOOLEAN /\ revived \in BOOLEAN
      /\ watcher \in {"none", "waiting", "ended"}
  OBVIOUS
<1>9. TypeOK
  BY <1>3, <1>4, <1>5, <1>6, <1>7, <1>8 DEF TypeOK
<1> QED
  BY <1>1, <1>9 DEF TypeInv, AcceptsSession

(* Every action keeps the type invariant.                                  *)
LEMMA NextTypeInv == TypeInv /\ [Next]_vars => TypeInv'
<1> SUFFICES ASSUME TypeInv, [Next]_vars PROVE TypeInv'
  OBVIOUS
<1> USE ServerAssumption DEF TypeInv, TypeOK, AcceptsSession, Thread, Main, Nobody, None, Goto
<1>1. CASE Connected
  BY <1>1 DEF Connected, InstallSession
<1>2. CASE ConnectFails
  BY <1>2 DEF ConnectFails
<1>3. CASE Check
  BY <1>3 DEF Check
<1>4. CASE Load
  BY <1>4 DEF Load
<1>5. CASE Sleep
  BY <1>5 DEF Sleep
<1>6. CASE AcceptFails
  BY <1>6 DEF AcceptFails
<1>7. CASE CheckAfterFailure
  BY <1>7 DEF CheckAfterFailure
<1>8. ASSUME NEW t \in Thread, Reinstall(t) PROVE TypeInv'
  <2> USE DEF Reinstall
  <2>1. CASE session # seen[t]
    BY <1>8, <2>1 DEF Swap
  <2>2. CASE session = seen[t]
    <3>1. /\ pc' = [pc EXCEPT ![t] = "install"] /\ holder = Nobody /\ holder' = t
          /\ closed' = closed \cup ({session} \ {None}) /\ session' = None
          /\ UNCHANGED <<seen, created, broken, handlers, cancelled, watcher, callbacks,
                         revived>>
      BY <1>8, <2>2 DEF Swap, CloseSession
    <3>2. \A u \in Thread : pc'[u] = "install" <=> holder' = u
      BY <3>1
    <3>3. closed' \subseteq 1 .. created /\ session' \in 0 .. created
      BY <3>1
    <3>4. pc' \in [Thread -> {"connect", "check", "load", "sleep", "accept", "failed", "lock",
                             "install", "shutdown", "wait", "returned", "idle", "ended"}]
      BY <3>1
    <3>5. AcceptsSession'
      BY <3>1
    <3>6. holder' \in Thread \cup {Nobody}
      BY <3>1
    <3> QED
      BY <3>1, <3>2, <3>3, <3>4, <3>5, <3>6
  <2> QED
    BY <2>1, <2>2
<1>9. ASSUME NEW t \in Thread, Install(t) PROVE TypeInv'
  BY <1>9 DEF Install, InstallSession
<1>10. CASE Shutdown
  BY <1>10 DEF Shutdown, CloseSession
<1>11. CASE WaitAll
  BY <1>11 DEF WaitAll
<1>12. CASE AcceptStream
  BY <1>12 DEF AcceptStream
<1>13. CASE Cancel
  BY <1>13 DEF Cancel
<1>14. CASE Watch
  BY <1>14 DEF Watch, CloseSession
<1>15. CASE Break
  BY <1>15 DEF Break
<1>16. CASE ProviderEnds
  BY <1>16 DEF ProviderEnds
<1>17. ASSUME NEW t \in Callers, HandleReconnect(t) PROVE TypeInv'
  BY <1>17 DEF HandleReconnect
<1>18. ASSUME NEW n \in handlers, HandlerEnds(n) PROVE TypeInv'
  BY <1>18 DEF HandlerEnds
<1>19. CASE UNCHANGED vars
  BY <1>19 DEF vars
<1> QED
  BY <1>1, <1>2, <1>3, <1>4, <1>5, <1>6, <1>7, <1>8, <1>9, <1>10, <1>11, <1>12, <1>13,
     <1>14, <1>15, <1>16, <1>17, <1>18, <1>19
  DEF Next, ServeStep, CallbackStep

(* Goroutines are where their code is, and reinstallMu has one holder,     *)
(* whatever callbacks, failures and cancellation do (server.go).           *)
THEOREM ServerTypeCorrect == Spec => []TypeOK
<1>1. TypeInv => TypeOK
  BY DEF TypeInv
<1> QED
  BY InitTypeInv, NextTypeInv, <1>1, PTL DEF Spec

-----------------------------------------------------------------------------
LEMMA InitLiveInv == Init => LiveInv
<1> SUFFICES ASSUME Init PROVE LiveInv
  OBVIOUS
<1>1. TypeInv
  BY InitTypeInv
<1>2. InstallingInv /\ StartingInv /\ UpInv /\ LiveIsInstalled
  BY ServerAssumption
  DEF Init, InstallingInv, StartingInv, UpInv, LiveIsInstalled, Alive, Thread, Main, None
<1> QED
  BY <1>1, <1>2 DEF LiveInv

(* A session is stored only when none is, and every path that clears the   *)
(* stored session closes it.                                               *)
LEMMA NextLiveInv ==
  ASSUME EarlyCallers = {}
  PROVE  LiveInv /\ [Next]_vars => LiveInv'
<1> SUFFICES ASSUME LiveInv, [Next]_vars PROVE LiveInv'
  OBVIOUS
<1>a. TypeInv'
  BY NextTypeInv DEF LiveInv
<1> DEFINE Rest == InstallingInv /\ StartingInv /\ UpInv /\ LiveIsInstalled
<1> SUFFICES Rest'
  BY <1>a DEF LiveInv
<1> USE ServerAssumption
    DEF LiveInv, InstallingInv, StartingInv, UpInv, LiveIsInstalled, Alive, TypeInv, TypeOK,
        Thread, Main, Nobody, None, Goto
<1>1. CASE Connected
  BY <1>1 DEF Connected, InstallSession
<1>2. CASE ConnectFails
  BY <1>2 DEF ConnectFails
<1>3. CASE Check
  BY <1>3 DEF Check
<1>4. CASE Load
  BY <1>4 DEF Load
<1>5. CASE Sleep
  BY <1>5 DEF Sleep
<1>6. CASE AcceptFails
  BY <1>6 DEF AcceptFails
<1>7. CASE CheckAfterFailure
  BY <1>7 DEF CheckAfterFailure
<1>8. ASSUME NEW t \in Thread, Reinstall(t) PROVE Rest'
  BY <1>8 DEF Reinstall, Swap, CloseSession
<1>9. ASSUME NEW t \in Thread, Install(t) PROVE Rest'
  BY <1>9 DEF Install, InstallSession
<1>10. CASE Shutdown
  BY <1>10 DEF Shutdown, CloseSession
<1>11. CASE WaitAll
  BY <1>11 DEF WaitAll
<1>12. CASE AcceptStream
  BY <1>12 DEF AcceptStream
<1>13. CASE Cancel
  BY <1>13 DEF Cancel
<1>14. CASE Watch
  BY <1>14 DEF Watch, CloseSession
<1>15. CASE Break
  BY <1>15 DEF Break
<1>16. CASE ProviderEnds
  BY <1>16 DEF ProviderEnds
<1>17. ASSUME NEW t \in Callers, HandleReconnect(t) PROVE Rest'
  BY <1>17 DEF HandleReconnect
<1>18. ASSUME NEW n \in handlers, HandlerEnds(n) PROVE Rest'
  BY <1>18 DEF HandlerEnds
<1>19. CASE UNCHANGED vars
  BY <1>19 DEF vars
<1> QED
  BY <1>1, <1>2, <1>3, <1>4, <1>5, <1>6, <1>7, <1>8, <1>9, <1>10, <1>11, <1>12, <1>13,
     <1>14, <1>15, <1>16, <1>17, <1>18, <1>19
  DEF Next, ServeStep, CallbackStep

(* When no callback comes before the first session is installed, a session *)
(* that is not closed is the installed one: no order of callbacks, failures*)
(* of AcceptStream, cancellation and shutdown abandons one open.           *)
THEOREM LiveInstalled ==
  ASSUME EarlyCallers = {}
  PROVE  Spec => []LiveIsInstalled
<1>1. LiveInv => LiveIsInstalled
  BY DEF LiveInv
<1>2. LiveInv /\ [Next]_vars => LiveInv'
  BY NextLiveInv
<1> QED
  BY InitLiveInv, <1>1, <1>2, PTL DEF Spec

-----------------------------------------------------------------------------
(* What may still make a session has its cause already: a callback in      *)
(* reinstallSession, bringUpLink or serve about to install, and a broken   *)
(* session that is still stored, which serve may find dead.                *)
Pending == {t \in Callers : pc[t] \in {"lock", "install"}}
MainOwes == pc[Main] \in {"connect", "install"}
Debt == Cardinality(Pending) + (IF MainOwes THEN 1 ELSE 0) + (IF session \in broken THEN 1 ELSE 0)

(* serve reinstalls a session because AcceptStream failed on it.           *)
FoundDead == pc[Main] \in {"failed", "lock"} => seen[Main] \in 1 .. created /\ Failing(seen[Main])
CauseInv ==
  /\ TypeInv /\ FoundDead
  /\ session \notin closed
  /\ IsFiniteSet(Pending) /\ IsFiniteSet(broken)
  /\ created + Debt <= 1 + Cardinality(broken) + callbacks

LEMMA InitCauseInv == Init => CauseInv
<1> SUFFICES ASSUME Init PROVE CauseInv
  OBVIOUS
<1>1. Pending = {} /\ IsFiniteSet(Pending) /\ Cardinality(Pending) = 0
  BY FS_EmptySet, ServerAssumption DEF Init, Pending, Thread
<1>2. broken = {} /\ IsFiniteSet(broken) /\ Cardinality(broken) = 0
  BY FS_EmptySet DEF Init
<1>3. pc[Main] = "connect" /\ created = 0 /\ callbacks = 0
  BY DEF Init, Thread
<1>4. Debt = 1
  BY <1>1, <1>2, <1>3 DEF Debt, MainOwes
<1>5. session \notin closed /\ FoundDead
  BY <1>3 DEF Init, FoundDead
<1> QED
  BY <1>1, <1>2, <1>3, <1>4, <1>5, InitTypeInv DEF CauseInv

(* A goroutine moves into a callback, out of one, or neither.              *)
LEMMA PendingMoves ==
  ASSUME CauseInv, NEW t \in Thread, NEW label, Goto(t, label)
  PROVE  /\ IsFiniteSet(Pending') /\ Cardinality(Pending) \in Nat
         /\ Cardinality(Pending') =
              Cardinality(Pending)
              + (IF t \in Callers /\ t \notin Pending /\ label \in {"lock", "install"} THEN 1 ELSE 0)
              - (IF t \in Pending /\ label \notin {"lock", "install"} THEN 1 ELSE 0)
<1>1. IsFiniteSet(Pending) /\ Cardinality(Pending) \in Nat
  BY FS_CardinalityType DEF CauseInv
<1>2. pc' = [pc EXCEPT ![t] = label] /\ \A u \in Callers : u \in DOMAIN pc
  BY DEF Goto, CauseInv, TypeInv, TypeOK, Thread
<1>3. Pending' = IF t \in Callers /\ label \in {"lock", "install"}
                 THEN Pending \cup {t} ELSE Pending \ {t}
  BY <1>2 DEF Pending
<1>4. Pending \subseteq Callers
  BY DEF Pending
<1>5. /\ IsFiniteSet(Pending \cup {t}) /\ IsFiniteSet(Pending \ {t})
      /\ Cardinality(Pending \cup {t}) =
           IF t \in Pending THEN Cardinality(Pending) ELSE Cardinality(Pending) + 1
      /\ Cardinality(Pending \ {t}) =
           IF t \in Pending THEN Cardinality(Pending) - 1 ELSE Cardinality(Pending)
  BY <1>1, FS_AddElement, FS_RemoveElement
<1> QED
  BY <1>1, <1>3, <1>4, <1>5

(* Steps that make nothing, break nothing and owe nothing new.             *)
LEMMA CauseKept ==
  ASSUME CauseInv, TypeInv', UNCHANGED <<created, broken, callbacks>>,
         IsFiniteSet(Pending'), Cardinality(Pending') <= Cardinality(Pending),
         Cardinality(Pending') \in Nat, MainOwes' => MainOwes,
         session' = session \/ session' = None, FoundDead',
         session' \notin closed'
  PROVE  CauseInv'
<1>1. None \notin broken
  BY DEF CauseInv, TypeInv, TypeOK, None
<1>2. session' \in broken' => session \in broken
  BY <1>1
<1>3. created \in Nat /\ callbacks \in Nat /\ Cardinality(broken) \in Nat /\ Cardinality(Pending) \in Nat
  BY FS_CardinalityType, ServerAssumption DEF CauseInv, TypeInv, TypeOK
<1>4. Debt' <= Debt /\ Debt \in Nat /\ Debt' \in Nat
  BY <1>2, <1>3 DEF Debt
<1>5. created' + Debt' <= 1 + Cardinality(broken') + callbacks'
  BY <1>3, <1>4 DEF CauseInv
<1> QED
  BY <1>5 DEF CauseInv

LEMMA NextCauseInv == CauseInv /\ [Next]_vars => CauseInv'
<1> SUFFICES ASSUME CauseInv, [Next]_vars PROVE CauseInv'
  OBVIOUS
<1>0. TypeInv' /\ TypeInv /\ TypeOK /\ Main \in Thread /\ Main \notin Callers
  BY NextTypeInv, ServerAssumption DEF CauseInv, TypeInv, Thread
<1>a. /\ created \in Nat /\ callbacks \in Nat /\ Cardinality(broken) \in Nat
      /\ Cardinality(Pending) \in Nat
  BY FS_CardinalityType, ServerAssumption DEF CauseInv, TypeInv, TypeOK
<1>b. None \notin closed /\ None \notin broken /\ Main \notin Pending
  BY <1>0 DEF TypeOK, None, Pending
<1>1. ASSUME NEW label \in {"returned", "check", "load", "sleep", "accept", "failed", "lock",
                            "shutdown", "wait"},
             Goto(Main, label), UNCHANGED <<session, created, broken, closed, callbacks>>,
             FoundDead'
      PROVE  CauseInv'
  <2>1. /\ IsFiniteSet(Pending') /\ Cardinality(Pending') = Cardinality(Pending)
    BY <1>0, <1>1, <1>a, <1>b, PendingMoves
  <2>2. ~MainOwes'
    BY <1>0, <1>1 DEF MainOwes, Goto, TypeOK
  <2>3. session' \notin closed'
    BY <1>1 DEF CauseInv
  <2> QED
    BY <1>0, <1>1, <1>a, <2>1, <2>2, <2>3, CauseKept
<1>2. ASSUME ConnectFails \/ Check \/ Load \/ Sleep \/ AcceptFails \/ CheckAfterFailure
             \/ AcceptStream \/ WaitAll
      PROVE  CauseInv'
  <2>1. PICK label \in {"returned", "check", "load", "sleep", "accept", "failed", "lock",
                        "shutdown", "wait"} : Goto(Main, label)
    BY <1>2 DEF ConnectFails, Check, Load, Sleep, AcceptFails, CheckAfterFailure, AcceptStream,
       WaitAll
  <2>2. UNCHANGED <<session, created, broken, closed, callbacks>>
    BY <1>2 DEF ConnectFails, Check, Load, Sleep, AcceptFails, CheckAfterFailure, AcceptStream,
       WaitAll
  <2>3. FoundDead'
    BY <1>0, <1>2, <2>2
    DEF ConnectFails, Check, Load, Sleep, AcceptFails, CheckAfterFailure, AcceptStream, WaitAll,
        FoundDead, Failing, Goto, CauseInv, TypeInv, TypeOK, AcceptsSession
  <2> QED
    BY <1>1, <2>1, <2>2, <2>3
<1>3. ASSUME NEW t \in Thread, Reinstall(t), session # seen[t] PROVE CauseInv'
  <2>1. /\ Goto(t, IF t = Main THEN "check" ELSE "idle")
        /\ UNCHANGED <<session, closed, created, broken, callbacks, seen>>
    BY <1>3 DEF Reinstall, Swap
  <2>2. /\ IsFiniteSet(Pending') /\ Cardinality(Pending') <= Cardinality(Pending)
        /\ Cardinality(Pending') \in Nat
    BY <1>a, <2>1, PendingMoves, FS_CardinalityType
  <2>3. (MainOwes' => MainOwes) /\ FoundDead'
    BY <1>0, <2>1 DEF MainOwes, Goto, TypeOK, FoundDead, CauseInv, Failing
  <2>4. session' \notin closed'
    BY <2>1 DEF CauseInv
  <2> QED
    BY <1>0, <2>1, <2>2, <2>3, <2>4, CauseKept
<1>4. ASSUME NEW t \in Callers, Reinstall(t), session = seen[t] PROVE CauseInv'
  <2>1. /\ Goto(t, "install") /\ session' = None /\ CloseSession(session)
        /\ UNCHANGED <<created, broken, callbacks, seen>>
    BY <1>4 DEF Reinstall, Swap
  <2>2. t \in Thread /\ t \in Pending
    BY <1>4 DEF Thread, Reinstall, Pending
  <2>3. /\ IsFiniteSet(Pending') /\ Cardinality(Pending') = Cardinality(Pending)
    BY <1>a, <2>1, <2>2, PendingMoves
  <2>4. (MainOwes' => MainOwes) /\ FoundDead'
    BY <1>0, <2>1, <2>2 DEF MainOwes, Goto, TypeOK, FoundDead, CauseInv, Failing, CloseSession
  <2>5. session' \notin closed'
    BY <1>b, <2>1 DEF CloseSession
  <2> QED
    BY <1>0, <1>a, <2>1, <2>3, <2>4, <2>5, CauseKept
<1>5. ASSUME Reinstall(Main), session = seen[Main] PROVE CauseInv'
  <2>1. /\ Goto(Main, "install") /\ session' = None /\ CloseSession(session) /\ pc[Main] = "lock"
        /\ UNCHANGED <<created, broken, callbacks, seen>>
    BY <1>5 DEF Reinstall, Swap
  <2>2. session \in broken /\ session' \notin broken'
    BY <1>5, <1>b, <2>1 DEF CauseInv, FoundDead, Failing
  <2>3. /\ IsFiniteSet(Pending') /\ Cardinality(Pending') = Cardinality(Pending)
    BY <1>0, <1>a, <1>b, <2>1, PendingMoves
  <2>4. MainOwes' /\ ~MainOwes /\ FoundDead'
    BY <1>0, <2>1 DEF MainOwes, Goto, TypeOK, FoundDead
  <2>5. session' \notin closed'
    BY <1>b, <2>1 DEF CloseSession
  <2>6. Debt' = Debt
    BY <1>a, <2>2, <2>3, <2>4 DEF Debt
  <2> QED
    BY <1>0, <2>1, <2>3, <2>4, <2>5, <2>6 DEF CauseInv
<1>6. ASSUME NEW t \in Thread, NEW label \in {"check", "idle"},
             t \in Pending \/ (t = Main /\ MainOwes),
             InstallSession, Goto(t, label), UNCHANGED <<closed, broken, callbacks, seen>>
      PROVE  CauseInv'
  <2>1. created' = created + 1 /\ session' = created + 1
    BY <1>6 DEF InstallSession
  <2>2. session' \notin broken' /\ session' \notin closed'
    BY <1>0, <1>a, <1>6, <2>1 DEF TypeOK
  <2>3. pc'[t] = label /\ \A u \in Thread : u # t => pc'[u] = pc[u]
    BY <1>0, <1>6 DEF Goto, TypeOK
  <2>4. FoundDead'
    BY <1>0, <1>6, <1>a, <2>1, <2>3 DEF FoundDead, CauseInv, Failing
  <2>5. Debt' <= Debt - 1 /\ Debt \in Nat /\ Debt' \in Nat /\ IsFiniteSet(Pending')
    <3>1. CASE t = Main
      <4>1. /\ IsFiniteSet(Pending') /\ Cardinality(Pending') = Cardinality(Pending)
        BY <1>0, <1>a, <1>b, <1>6, <3>1, PendingMoves
      <4>2. MainOwes /\ ~MainOwes'
        BY <1>0, <1>6, <2>3, <3>1 DEF MainOwes, Pending
      <4> QED
        BY <1>a, <2>2, <4>1, <4>2 DEF Debt
    <3>2. CASE t # Main
      <4>1. /\ IsFiniteSet(Pending') /\ Cardinality(Pending') = Cardinality(Pending) - 1
        BY <1>6, <1>a, <3>2, PendingMoves
      <4>2. Cardinality(Pending') \in Nat
        BY <4>1, FS_CardinalityType
      <4>3. MainOwes' <=> MainOwes
        BY <1>0, <2>3, <3>2 DEF MainOwes
      <4> QED
        BY <1>a, <2>2, <4>1, <4>2, <4>3 DEF Debt
    <3> QED
      BY <3>1, <3>2
  <2> QED
    BY <1>0, <1>6, <1>a, <2>1, <2>2, <2>4, <2>5 DEF CauseInv
<1>7. ASSUME Connected PROVE CauseInv'
  BY <1>0, <1>6, <1>7 DEF Connected, MainOwes
<1>8. ASSUME NEW t \in Thread, Install(t) PROVE CauseInv'
  <2>1. t \in Pending \/ (t = Main /\ MainOwes)
    BY <1>8 DEF Install, Pending, MainOwes, Thread
  <2> QED
    BY <1>6, <1>8, <2>1 DEF Install
<1>9. ASSUME NEW t \in Callers, HandleReconnect(t) PROVE CauseInv'
  <2>1. /\ Goto(t, "lock") /\ callbacks' = callbacks + 1 /\ t \notin Pending
        /\ seen' = [seen EXCEPT ![t] = session]
        /\ UNCHANGED <<session, created, closed, broken>>
    BY <1>9 DEF HandleReconnect, Pending
  <2>2. t \in Thread /\ t # Main
    BY <1>0 DEF Thread
  <2>3. /\ IsFiniteSet(Pending') /\ Cardinality(Pending') = Cardinality(Pending) + 1
    BY <1>a, <2>1, <2>2, PendingMoves
  <2>4. (MainOwes' <=> MainOwes) /\ FoundDead'
    BY <1>0, <2>1, <2>2 DEF MainOwes, Goto, TypeOK, FoundDead, CauseInv, Failing
  <2>5. Debt' = Debt + 1 /\ Debt \in Nat
    BY <1>a, <2>1, <2>3, <2>4 DEF Debt
  <2> QED
    BY <1>0, <1>a, <2>1, <2>3, <2>4, <2>5 DEF CauseInv
<1>10. ASSUME Break PROVE CauseInv'
  <2>1. /\ session \notin broken /\ broken' = broken \cup {session}
        /\ UNCHANGED <<pc, seen, session, created, closed, callbacks>>
    BY <1>10 DEF Break
  <2>2. IsFiniteSet(broken') /\ Cardinality(broken') = Cardinality(broken) + 1
    BY <2>1, FS_AddElement DEF CauseInv
  <2>3. Pending' = Pending /\ (MainOwes' <=> MainOwes) /\ FoundDead'
    BY <2>1 DEF Pending, MainOwes, FoundDead, CauseInv, Failing
  <2>4. Debt' = Debt + 1 /\ Debt \in Nat
    BY <1>a, <2>1, <2>3 DEF Debt
  <2> QED
    BY <1>0, <1>a, <2>1, <2>2, <2>3, <2>4 DEF CauseInv
<1>11. ASSUME UNCHANGED <<pc, seen, created, broken, callbacks>>,
              \/ UNCHANGED <<session, closed>>
              \/ CloseSession(session) /\ session' = None
       PROVE  CauseInv'
  <2>1. Pending' = Pending /\ (MainOwes' <=> MainOwes) /\ FoundDead'
    BY <1>11 DEF Pending, MainOwes, FoundDead, CauseInv, Failing, CloseSession
  <2>2. session' \notin closed'
    BY <1>11, <1>b DEF CauseInv, CloseSession
  <2>3. IsFiniteSet(Pending') /\ Cardinality(Pending') <= Cardinality(Pending)
    BY <1>a, <2>1 DEF CauseInv
  <2> QED
    BY <1>0, <1>11, <1>a, <2>1, <2>2, <2>3, CauseKept
<1>12. ASSUME Shutdown PROVE CauseInv'
  <2>1. /\ Goto(Main, "wait") /\ CloseSession(session) /\ session' = None
        /\ UNCHANGED <<created, broken, callbacks, seen>>
    BY <1>12 DEF Shutdown
  <2>2. /\ IsFiniteSet(Pending') /\ Cardinality(Pending') = Cardinality(Pending)
    BY <1>0, <1>a, <1>b, <2>1, PendingMoves
  <2>3. ~MainOwes' /\ FoundDead'
    BY <1>0, <2>1 DEF MainOwes, Goto, TypeOK, FoundDead
  <2>4. session' \notin closed'
    BY <1>b, <2>1 DEF CloseSession
  <2> QED
    BY <1>0, <1>a, <2>1, <2>2, <2>3, <2>4, CauseKept
<1>13. ASSUME ProviderEnds PROVE CauseInv'
  <2>1. /\ Goto(Provider, "ended") /\ pc[Provider] = "idle" /\ Provider \in Thread /\ Provider # Main
        /\ UNCHANGED <<session, created, broken, closed, callbacks, seen>>
    BY <1>0, <1>13, ServerAssumption DEF ProviderEnds, Thread
  <2>a. Provider \notin Pending
    BY <2>1 DEF Pending
  <2>2. IsFiniteSet(Pending') /\ Cardinality(Pending') = Cardinality(Pending)
    BY <1>a, <2>1, <2>a, PendingMoves
  <2>3. (MainOwes' <=> MainOwes) /\ FoundDead'
    BY <1>0, <2>1 DEF MainOwes, Goto, TypeOK, FoundDead, CauseInv, Failing
  <2>4. session' \notin closed'
    BY <2>1 DEF CauseInv
  <2> QED
    BY <1>0, <1>a, <2>1, <2>2, <2>3, <2>4, CauseKept
<1>14. ASSUME Cancel \/ Watch \/ (\E n \in handlers : HandlerEnds(n)) \/ UNCHANGED vars
       PROVE  CauseInv'
  BY <1>11, <1>14 DEF Cancel, Watch, HandlerEnds, vars
<1> QED
  BY <1>0, <1>2, <1>3, <1>4, <1>5, <1>7, <1>8, <1>9, <1>10, <1>12, <1>13, <1>14
  DEF Next, ServeStep, CallbackStep, Thread

(* One death costs one session: however many goroutines find the same      *)
(* session dead at once, and even if callbacks come before bringUpLink is  *)
(* done, sessions are no more than one, the failures of the peer and the   *)
(* callbacks (reinstallSession compares what it found dead with what is    *)
(* stored).                                                                *)
THEOREM ReinstallsCaused == Spec => []ReinstallsAreCaused
<1>1. CauseInv => ReinstallsAreCaused
  <2> SUFFICES ASSUME CauseInv PROVE ReinstallsAreCaused
    OBVIOUS
  <2>1. Debt \in Nat /\ created \in Nat /\ callbacks \in Nat /\ Cardinality(broken) \in Nat
    BY FS_CardinalityType, ServerAssumption DEF CauseInv, Debt, TypeInv, TypeOK
  <2> QED
    BY <2>1 DEF CauseInv, ReinstallsAreCaused
<1>2. (Init => CauseInv) /\ (CauseInv /\ [Next]_vars => CauseInv')
  BY InitCauseInv, NextCauseInv
<1> QED
  BY <1>1, <1>2, PTL DEF Spec

=============================================================================
