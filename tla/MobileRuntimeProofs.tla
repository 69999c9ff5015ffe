-------------------------- MODULE MobileRuntimeProofs -----------------------
(***************************************************************************)
(* Proofs about MobileRuntime for any threads of the application and any   *)
(* bounds on runs and calls: its type invariant, that two clients never    *)
(* run at once, that Stop and WaitReady tell the truth, and that all is    *)
(* well when a run starts only after the done channel of the one before is *)
(* closed.                                                                 *)
(***************************************************************************)
EXTENDS MobileRuntime, FiniteSetTheorems, TLAPS

(* A run that has not ended is the one whose CancelFunc is stored.         *)
Unended(n) == client[n] \in {"starting", "up", "returned"}
CancelInv == \A n \in Run : Unended(n) => cancel = n

(* A done channel is closed by the run it belongs to, unless a run that    *)
(* was overtaken by the next Start closed the channel of that one.         *)
DoneInv == misfired \/ \A n \in doneClosed : client[n] = "gone"

TypeInv == TypeOK /\ CancelInv
AnswerInv == TypeInv /\ DoneInv /\ AnswersAreTrue

LEMMA InitTypeInv ==
  ASSUME MaxRuns \in Nat, MaxCalls \in Nat
  PROVE  Init => TypeInv
<1> SUFFICES ASSUME Init PROVE TypeInv
  OBVIOUS
<1>1. Started = {} /\ done = 0
  BY DEF Init, Started, None
<1>2. Started = 1 .. done
  BY <1>1
<1>3. CancelInv
  BY DEF Init, CancelInv, Unended
<1>4. \A a \in App : call[a] = Idle
  BY DEF Init
<1>5. call \in [App -> [pc : {"idle", "stopping", "stopwait", "waiting"}, run : Run \cup {None}]]
  BY DEF Init, Idle
<1>6. \A a \in App : call[a].pc = "idle"
  BY <1>4 DEF Idle
<1>7. calls \in 0 .. MaxCalls
  BY DEF Init
<1>8. client \in [Run -> {"none", "starting", "up", "returned", "ended", "gone"}]
  BY DEF Init
<1>9. TypeOK
  BY <1>1, <1>2, <1>5, <1>6, <1>7, <1>8, Zenon DEF Init, TypeOK
<1> QED
  BY <1>3, <1>9 DEF TypeInv

(* A run that goes on stays started.                                       *)
LEMMA StartedStays ==
  ASSUME TypeOK, NEW n \in Run, client[n] # "none",
         NEW to \in {"up", "returned", "ended", "gone"},
         client' = [client EXCEPT ![n] = to]
  PROVE  /\ Started' = Started
         /\ client' \in [Run -> {"none", "starting", "up", "returned", "ended", "gone"}]
BY DEF TypeOK, Started

LEMMA NextTypeInv ==
  ASSUME MaxRuns \in Nat, MaxCalls \in Nat
  PROVE  TypeInv /\ [Next]_vars => TypeInv'
<1> SUFFICES ASSUME TypeInv, [Next]_vars PROVE TypeInv'
  OBVIOUS
<1> USE DEF TypeInv, histVars, runVars
<1>0. /\ done \in 0 .. MaxRuns /\ Started = 1 .. done
      /\ \A n \in Run : client[n] # "none" <=> n \in Started
  BY DEF TypeOK, Started, Run, None
<1>1. ASSUME NEW a \in App, Start(a) PROVE TypeInv'
  <2>1. /\ done + 1 \in Run /\ done' = done + 1 /\ cancel' = done + 1 /\ cancel = None
        /\ client' = [client EXCEPT ![done + 1] = "starting"]
    BY <1>0, <1>1 DEF Start, Run, TypeOK
  <2>2. Started' = 1 .. done'
    <3>1. \A n \in Run : client'[n] # "none" <=> (n \in Started \/ n = done + 1)
      BY <1>0, <2>1 DEF TypeOK
    <3>2. Started' = Started \cup {done + 1}
      BY <2>1, <3>1 DEF Started
    <3> QED
      BY <1>0, <2>1, <3>2
  <2>3. Started \subseteq Started'
    BY <1>0, <2>1, <2>2
  <2>4. CancelInv'
    BY <1>0, <2>1 DEF CancelInv, Unended, TypeOK, Run, None
  <2>5. \A b \in App : call[b].pc # "idle" => call[b].run \in Started'
    BY <2>3 DEF TypeOK
  <2> QED
    BY <1>1, <2>1, <2>2, <2>3, <2>4, <2>5 DEF Start, TypeOK
<1>2. ASSUME NEW n \in Run, Ready(n) PROVE TypeInv'
  <2>1. Started' = Started /\ n \in Started
    BY <1>0, <1>2, StartedStays DEF Ready
  <2> QED
    BY <1>2, <2>1 DEF Ready, TypeOK, CancelInv, Unended
<1>3. ASSUME NEW n \in Run, ClientReturns(n) PROVE TypeInv'
  <2>1. Started' = Started
    BY <1>3, StartedStays DEF ClientReturns
  <2> QED
    BY <1>3, <2>1 DEF ClientReturns, TypeOK, CancelInv, Unended
<1>4. ASSUME NEW n \in Run, EndRun(n) PROVE TypeInv'
  <2>1. Started' = Started
    BY <1>4, StartedStays DEF EndRun
  <2> QED
    BY <1>4, <2>1 DEF EndRun, TypeOK, CancelInv, Unended, Run, None
<1>5. ASSUME NEW n \in Run, CloseDone(n) PROVE TypeInv'
  <2>0. /\ client[n] = "ended" /\ client' = [client EXCEPT ![n] = "gone"]
        /\ done \in Int
    BY <1>5 DEF CloseDone, TypeOK, Run, None
  <2>1. Started' = Started
    BY <2>0, StartedStays
  <2>2. n \in Started
    BY <1>0, <2>0
  <2>3. done \in Started
    BY <1>0, <2>0, <2>2
  <2> QED
    BY <1>5, <2>1, <2>2, <2>3 DEF CloseDone, TypeOK, CancelInv, Unended
<1>6. ASSUME NEW a \in App, Stop(a) PROVE TypeInv'
  <2>1. done \in Started /\ done \in Run
    BY <1>0, <1>6 DEF Stop, TypeOK, Run, None
  <2> QED
    BY <1>6, <2>1 DEF Stop, Enter, TypeOK, CancelInv, Unended, Started
<1>7. ASSUME NEW a \in App, CancelRun(a) PROVE TypeInv'
  BY <1>7 DEF CancelRun, TypeOK, CancelInv, Unended, Started
<1>8. ASSUME NEW a \in App, StopReturns(a) PROVE TypeInv'
  BY <1>8 DEF StopReturns, TypeOK, CancelInv, Unended, Started, Idle
<1>9. ASSUME NEW a \in App, WaitReady(a) PROVE TypeInv'
  <2>1. done \in Started /\ done \in Run
    BY <1>0, <1>9 DEF WaitReady, TypeOK, Run, None
  <2> QED
    BY <1>9, <2>1 DEF WaitReady, Enter, TypeOK, CancelInv, Unended, Started, Answer
<1>10. ASSUME NEW a \in App, WaitReadyReady(a) \/ WaitReadyDone(a) \/ WaitReadyTimeout(a)
       PROVE  TypeInv'
  <2>1. PICK answer \in Answer : Answered(a, answer) /\ call[a].pc = "waiting"
    BY <1>10 DEF WaitReadyReady, WaitReadyDone, WaitReadyTimeout, Answer
  <2>2. call[a].run \in Run
    BY <2>1 DEF TypeOK, Started
  <2> QED
    BY <2>1, <2>2 DEF Answered, TypeOK, CancelInv, Unended, Started, Idle
<1>11. CASE UNCHANGED vars
  BY <1>11 DEF vars, TypeOK, CancelInv, Unended, Started
<1> QED
  BY <1>1, <1>2, <1>3, <1>4, <1>5, <1>6, <1>7, <1>8, <1>9, <1>10, <1>11
  DEF Next, RunStep, CallStep

(* The package variables belong to the last run, whatever order Start,     *)
(* Stop, WaitReady and the goroutines of the runs take (mobile.go).        *)
THEOREM RuntimeTypeCorrect ==
  ASSUME MaxRuns \in Nat, MaxCalls \in Nat
  PROVE  Spec => []TypeOK
<1>1. TypeInv => TypeOK
  BY DEF TypeInv
<1>2. (Init => TypeInv) /\ (TypeInv /\ [Next]_vars => TypeInv')
  BY InitTypeInv, NextTypeInv
<1> QED
  BY <1>1, <1>2, PTL DEF Spec

(* One run has not ended, the one whose CancelFunc is stored.              *)
LEMMA OneUnended == TypeInv => AtMostOneClient
<1> SUFFICES ASSUME TypeInv PROVE AtMostOneClient
  OBVIOUS
<1> DEFINE running == {n \in Run : client[n] \in {"starting", "up"}}
<1>1. running \subseteq {cancel}
  BY DEF TypeInv, CancelInv, Unended
<1>2. IsFiniteSet({cancel}) /\ Cardinality({cancel}) = 1
  BY FS_Singleton
<1>3. Cardinality(running) <= 1
  BY <1>1, <1>2, FS_Subset
<1> QED
  BY <1>3 DEF AtMostOneClient

(* Two clients never run at once, and so never contend for the SOCKS port: *)
(* a run that has not ended holds the stored CancelFunc, and Start refuses *)
(* while there is one (startWithConfig).                                   *)
THEOREM OneClientAtMost ==
  ASSUME MaxRuns \in Nat, MaxCalls \in Nat
  PROVE  Spec => []AtMostOneClient
<1>1. TypeInv => AtMostOneClient
  BY OneUnended
<1>2. (Init => TypeInv) /\ (TypeInv /\ [Next]_vars => TypeInv')
  BY InitTypeInv, NextTypeInv
<1> QED
  BY <1>1, <1>2, PTL DEF Spec

-----------------------------------------------------------------------------
LEMMA InitAnswerInv ==
  ASSUME MaxRuns \in Nat, MaxCalls \in Nat
  PROVE  Init => AnswerInv
<1> SUFFICES ASSUME Init PROVE AnswerInv
  OBVIOUS
<1>1. DoneInv /\ AnswersAreTrue
  BY DEF Init, DoneInv, AnswersAreTrue, StopStops
<1> QED
  BY <1>1, InitTypeInv DEF AnswerInv

(* What was true of a run that ended stays true, and an answer is given on *)
(* a closed channel, or when the CancelFunc is gone.                       *)
LEMMA NextAnswerInv ==
  ASSUME MaxRuns \in Nat, MaxCalls \in Nat
  PROVE  AnswerInv /\ [Next]_vars => AnswerInv'
<1> SUFFICES ASSUME AnswerInv, [Next]_vars PROVE AnswerInv'
  OBVIOUS
<1>0. TypeInv'
  BY NextTypeInv DEF AnswerInv
<1> SUFFICES DoneInv' /\ AnswersAreTrue'
  BY <1>0 DEF AnswerInv
<1> USE DEF AnswerInv, TypeInv, TypeOK, DoneInv, AnswersAreTrue, StopStops, Ended, histVars, runVars
<1>1. ASSUME NEW a \in App, Start(a) PROVE DoneInv' /\ AnswersAreTrue'
  <2>1. /\ client' = [client EXCEPT ![done + 1] = "starting"] /\ client[done + 1] = "none"
        /\ UNCHANGED <<doneClosed, readyClosed, histVars>>
    BY <1>1 DEF Start, Started, Run, None
  <2>2. \A n \in Run : client[n] # "none" => client'[n] = client[n]
    BY <2>1
  <2> QED
    BY <2>1, <2>2 DEF Started
<1>2. ASSUME NEW n \in Run, Ready(n) PROVE DoneInv' /\ AnswersAreTrue'
  BY <1>2 DEF Ready, Started
<1>3. ASSUME NEW n \in Run, ClientReturns(n) PROVE DoneInv' /\ AnswersAreTrue'
  BY <1>3 DEF ClientReturns, Started
<1>4. ASSUME NEW n \in Run, EndRun(n) PROVE DoneInv' /\ AnswersAreTrue'
  BY <1>4 DEF EndRun, Started
<1>5. ASSUME NEW n \in Run, CloseDone(n) PROVE DoneInv' /\ AnswersAreTrue'
  BY <1>5 DEF CloseDone, Started
<1>6. ASSUME NEW a \in App, Stop(a) PROVE DoneInv' /\ AnswersAreTrue'
  BY <1>6 DEF Stop
<1>7. ASSUME NEW a \in App, CancelRun(a) PROVE DoneInv' /\ AnswersAreTrue'
  BY <1>7 DEF CancelRun
<1>8. ASSUME NEW a \in App, StopReturns(a) PROVE DoneInv' /\ AnswersAreTrue'
  BY <1>8 DEF StopReturns
<1>9. ASSUME NEW a \in App, WaitReady(a) PROVE DoneInv' /\ AnswersAreTrue'
  <2>1. done \in Run /\ client[done] # "none" /\ (cancel = None => ~Unended(done))
    BY <1>9 DEF WaitReady, Started, Run, None, CancelInv
  <2>2. UNCHANGED <<client, doneClosed, readyClosed, stops, misfired>>
    BY <1>9 DEF WaitReady
  <2>3. CASE answers' = answers
    BY <2>2, <2>3
  <2>4. CASE /\ answers' = answers \cup {<<done, IF done \in readyClosed THEN "ready" ELSE "stopped">>}
             /\ done \in readyClosed \/ cancel = None
    <3>1. done \notin readyClosed => Ended(done)
      BY <2>1, <2>4 DEF Unended
    <3> QED
      BY <2>2, <2>4, <3>1
  <2> QED
    BY <1>9, <2>3, <2>4 DEF WaitReady
<1>10. ASSUME NEW a \in App, WaitReadyReady(a) \/ WaitReadyDone(a) \/ WaitReadyTimeout(a)
       PROVE  DoneInv' /\ AnswersAreTrue'
  BY <1>10 DEF WaitReadyReady, WaitReadyDone, WaitReadyTimeout, Answered
<1>11. CASE UNCHANGED vars
  BY <1>11 DEF vars
<1> QED
  BY <1>1, <1>2, <1>3, <1>4, <1>5, <1>6, <1>7, <1>8, <1>9, <1>10, <1>11
  DEF Next, RunStep, CallStep

(* As long as no run closed the done channel of another, a Stop that       *)
(* returned ended its client, and what WaitReady answers is true of the run*)
(* it was asked about (Stop, WaitReady).                                   *)
THEOREM AnswersTrue ==
  ASSUME MaxRuns \in Nat, MaxCalls \in Nat
  PROVE  Spec => []AnswersAreTrue
<1>1. AnswerInv => AnswersAreTrue
  BY DEF AnswerInv
<1>2. (Init => AnswerInv) /\ (AnswerInv /\ [Next]_vars => AnswerInv')
  BY InitAnswerInv, NextAnswerInv
<1> QED
  BY <1>1, <1>2, PTL DEF Spec

-----------------------------------------------------------------------------
(* The process dies of closing a channel twice only after a run closed the *)
(* done channel of another one: close(done) in the goroutine of Start.     *)
PanicIsMisfire == panicked => misfired

THEOREM PanicIsCaused ==
  ASSUME MaxRuns \in Nat, MaxCalls \in Nat
  PROVE  Spec => []PanicIsMisfire
<1>1. Init => PanicIsMisfire
  BY DEF Init, PanicIsMisfire
<1>2. AnswerInv /\ PanicIsMisfire /\ [Next]_vars => PanicIsMisfire'
  <2> SUFFICES ASSUME AnswerInv, PanicIsMisfire, [Next]_vars PROVE PanicIsMisfire'
    OBVIOUS
  <2>1. ASSUME NEW n \in Run, CloseDone(n) PROVE PanicIsMisfire'
    <3>1. CASE done # n
      BY <2>1, <3>1 DEF CloseDone, PanicIsMisfire
    <3>2. CASE done = n
      BY <2>1, <3>2 DEF CloseDone, PanicIsMisfire, AnswerInv, DoneInv
    <3> QED
      BY <3>1, <3>2
  <2>2. CASE UNCHANGED <<panicked, misfired>>
    BY <2>2 DEF PanicIsMisfire
  <2>3. UNCHANGED <<panicked, misfired>> \/ \E n \in Run : CloseDone(n)
    BY DEF Next, RunStep, CallStep, Ready, ClientReturns, EndRun, Start, Stop, WaitReady,
           CancelRun, StopReturns, WaitReadyReady, WaitReadyDone, WaitReadyTimeout, Answered,
           histVars, vars
  <2> QED
    BY <2>1, <2>2, <2>3
<1>3. (Init => AnswerInv) /\ (AnswerInv /\ [Next]_vars => AnswerInv')
  BY InitAnswerInv, NextAnswerInv
<1> QED
  BY <1>1, <1>2, <1>3, PTL DEF Spec

(* An application that starts a run only when the done channel of the run  *)
(* before is closed, as it is once a Stop that waited for it returned. That*)
(* IsRunning is false or WaitReady says errStoppedBeforeReady is not enough*)
(* for this: cancel is nil before the channel is closed.                   *)
Awaits == \A a \in App : Start(a) => done = None \/ done \in doneClosed

(* No run is overtaken by the next Start.                                  *)
AwaitedInv ==
  /\ AnswerInv
  /\ ~misfired /\ ~panicked
  /\ \A n \in Run : n < done => client[n] = "gone"

LEMMA NextAwaitedInv ==
  ASSUME MaxRuns \in Nat, MaxCalls \in Nat
  PROVE  AwaitedInv /\ [Next]_vars /\ [Awaits]_vars => AwaitedInv'
<1> SUFFICES ASSUME AwaitedInv, [Next]_vars, [Awaits]_vars PROVE AwaitedInv'
  OBVIOUS
<1>0. /\ AnswerInv' /\ done \in 0 .. MaxRuns /\ Started = 1 .. done
      /\ client \in [Run -> {"none", "starting", "up", "returned", "ended", "gone"}]
      /\ \A n \in doneClosed : client[n] = "gone"
  BY NextAnswerInv DEF AwaitedInv, AnswerInv, TypeInv, TypeOK, DoneInv, Run, None
<1> DEFINE Kept == /\ UNCHANGED <<misfired, panicked, done>>
                   /\ \A n \in Run : client[n] = "gone" => client'[n] = "gone"
<1>k. ASSUME Kept PROVE AwaitedInv'
  BY <1>0, <1>k DEF AwaitedInv
<1>1. ASSUME NEW a \in App, Start(a) PROVE AwaitedInv'
  <2>1. /\ done' = done + 1 /\ UNCHANGED <<misfired, panicked>>
        /\ client' = [client EXCEPT ![done + 1] = "starting"]
    BY <1>1 DEF Start, histVars
  <2>2. Start(a) => done = None \/ done \in doneClosed
    <3>1. done' # done
      BY <1>0, <2>1
    <3> QED
      BY <3>1 DEF Awaits, vars
  <2>3. ASSUME NEW n \in Run, n < done + 1 PROVE client'[n] = "gone"
    <3>1. n # done + 1 /\ (n = done \/ n < done) /\ n # None
      BY <1>0, <2>3 DEF Run, None
    <3>2. client[n] = "gone"
      BY <1>0, <1>1, <2>2, <3>1 DEF AwaitedInv
    <3> QED
      BY <1>0, <2>1, <3>1, <3>2
  <2> QED
    BY <1>0, <2>1, <2>3 DEF AwaitedInv
<1>2. ASSUME NEW n \in Run, CloseDone(n) PROVE AwaitedInv'
  <2>1. client[n] = "ended" /\ client' = [client EXCEPT ![n] = "gone"] /\ done' = done
    BY <1>2 DEF CloseDone
  <2>2. n = done
    BY <1>0, <2>1 DEF AwaitedInv, Started, Run
  <2>3. done \notin doneClosed
    BY <1>0, <2>1, <2>2
  <2>4. UNCHANGED <<misfired, panicked>>
    BY <1>2, <2>2, <2>3 DEF CloseDone, AwaitedInv, AnswerInv, TypeInv, TypeOK
  <2> QED
    BY <1>0, <1>k, <2>1, <2>4
<1>3. ASSUME NEW n \in Run, Ready(n) \/ ClientReturns(n) \/ EndRun(n) PROVE AwaitedInv'
  <2>1. /\ UNCHANGED <<misfired, panicked, done>> /\ client[n] # "gone"
        /\ \E to : client' = [client EXCEPT ![n] = to]
    BY <1>3 DEF Ready, ClientReturns, EndRun, histVars
  <2> QED
    BY <1>0, <1>k, <2>1
<1>4. CASE UNCHANGED <<client, misfired, panicked, done>>
  BY <1>k, <1>4
<1>5. \/ UNCHANGED <<client, misfired, panicked, done>> \/ \E a \in App : Start(a)
      \/ \E n \in Run : CloseDone(n) \/ Ready(n) \/ ClientReturns(n) \/ EndRun(n)
  BY DEF Next, RunStep, CallStep, Stop, WaitReady, CancelRun, StopReturns, WaitReadyReady,
         WaitReadyDone, WaitReadyTimeout, Answered, runVars, histVars, vars
<1> QED
  BY <1>1, <1>2, <1>3, <1>4, <1>5

(* To such an application Stop keeps its promise, and no run closes the    *)
(* done channel of another or a channel twice, however many threads call   *)
(* Start, Stop and WaitReady: what goes wrong in general (Start, Stop) is  *)
(* only that a Start comes between the two halves of the end of a run.     *)
THEOREM AwaitingIsSafe ==
  ASSUME MaxRuns \in Nat, MaxCalls \in Nat
  PROVE  Spec /\ [][Awaits]_vars => [](StopStops /\ ~misfired /\ ~panicked)
<1>1. Init => AwaitedInv
  <2>1. ASSUME Init PROVE \A n \in Run : ~(n < done)
    BY <2>1 DEF Init, Run, None
  <2> QED
    BY <2>1, InitAnswerInv DEF Init, AwaitedInv
<1>2. AwaitedInv /\ [Next]_vars /\ [Awaits]_vars => AwaitedInv'
  BY NextAwaitedInv
<1>3. AwaitedInv => StopStops /\ ~misfired /\ ~panicked
  BY DEF AwaitedInv, AnswerInv, AnswersAreTrue
<1> QED
  BY <1>1, <1>2, <1>3, PTL DEF Spec

=============================================================================
