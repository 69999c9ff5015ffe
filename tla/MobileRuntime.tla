---------------------------- MODULE MobileRuntime ---------------------------
(***************************************************************************)
(* The singleton runtime of the mobile binding (mobile/mobile.go): package *)
(* variables cancel, done, ready and errRun under mu, a goroutine per run  *)
(* of the client, and application threads that call Start, WaitReady and   *)
(* Stop. Runs are numbered in the order they start; cancel, done and ready *)
(* hold the number of the run they belong to.                              *)
(***************************************************************************)
EXTENDS Integers, FiniteSets

CONSTANTS
  App,      (* threads of the application                                   *)
  MaxRuns,  (* bound: successful calls of Start                             *)
  MaxCalls  (* bound: calls of Stop and WaitReady                           *)

None == 0
Run == 1 .. MaxRuns

VARIABLES
  cancel,       (* the run whose CancelFunc is stored, None when nil        *)
  done,         (* the run whose done channel is stored (ready is stored    *)
                (* with it), None before the first Start                    *)
  errRun,       (* errRun is not nil                                        *)
  client,       (* the goroutine of each run                                *)
  stopped,      (* runs whose context is cancelled                          *)
  doneClosed,   (* runs whose done channel is closed                        *)
  readyClosed,  (* runs whose ready channel is closed                       *)
  call,         (* the call each application thread is in, and on which run *)
  panicked,     (* a channel was closed twice: the process is dead          *)
  calls,        (* calls of Stop and WaitReady so far                       *)
  stops,        (* history: runs on which a Stop returned                   *)
  answers,      (* history: what WaitReady answered, and of which run       *)
  misfired      (* history: a run closed the done channel of another run    *)

runVars == <<client, stopped, doneClosed, readyClosed>>
histVars == <<stops, answers, misfired>>
vars == <<cancel, done, errRun, runVars, call, panicked, calls, histVars>>

Idle == [pc |-> "idle", run |-> None]
Answer == {"ready", "stopped", "timeout"}
Started == {n \in Run : client[n] # "none"}
Ended(n) == client[n] \in {"ended", "gone"}

(* A call that is under way has a run, and the stored channels belong to   *)
(* the last run.                                                           *)
TypeOK ==
  /\ cancel \in Run \cup {None} /\ done \in Run \cup {None}
  /\ cancel # None => cancel = done
  /\ Started = 1 .. done
  /\ client \in [Run -> {"none", "starting", "up", "returned", "ended", "gone"}]
  /\ stopped \subseteq Started /\ doneClosed \subseteq Started /\ readyClosed \subseteq Started
  /\ call \in [App -> [pc : {"idle", "stopping", "stopwait", "waiting"}, run : Run \cup {None}]]
  /\ \A a \in App : call[a].pc # "idle" => call[a].run \in Started
  /\ errRun \in BOOLEAN /\ panicked \in BOOLEAN /\ misfired \in BOOLEAN
  /\ calls \in 0 .. MaxCalls
  /\ stops \subseteq Run /\ answers \subseteq Run \X Answer

Init ==
  /\ cancel = None /\ done = None /\ errRun = FALSE
  /\ client = [n \in Run |-> "none"]
  /\ stopped = {} /\ doneClosed = {} /\ readyClosed = {}
  /\ call = [a \in App |-> Idle]
  /\ panicked = FALSE /\ calls = 0
  /\ stops = {} /\ answers = {} /\ misfired = FALSE

-----------------------------------------------------------------------------
(* startWithConfig with valid arguments, all of it under mu; it refuses    *)
(* while a CancelFunc is stored (errAlreadyRunning).                       *)
Start(a) ==
  /\ call[a] = Idle /\ cancel = None /\ done < MaxRuns
  /\ cancel' = done + 1
  /\ done' = done + 1
  /\ errRun' = FALSE
  /\ client' = [client EXCEPT ![done + 1] = "starting"]
  /\ UNCHANGED <<stopped, doneClosed, readyClosed, call, panicked, calls, histVars>>

(* The client calls onReady: its listener accepts connections.             *)
Ready(n) ==
  /\ client[n] = "starting"
  /\ client' = [client EXCEPT ![n] = "up"]
  /\ readyClosed' = readyClosed \cup {n}
  /\ UNCHANGED <<cancel, done, errRun, stopped, doneClosed, call, panicked, calls, histVars>>

(* RunWithReady returns: its context was cancelled, it failed, or the      *)
(* conference ended.                                                       *)
ClientReturns(n) ==
  /\ client[n] \in {"starting", "up"}
  /\ client' = [client EXCEPT ![n] = "returned"]
  /\ UNCHANGED <<cancel, done, errRun, stopped, doneClosed, readyClosed, call, panicked,
                 calls, histVars>>

(* The run's goroutine, under mu: cancel = nil, errRun = err.              *)
EndRun(n) ==
  /\ client[n] = "returned"
  /\ client' = [client EXCEPT ![n] = "ended"]
  /\ cancel' = None
  /\ errRun' \in BOOLEAN
  /\ UNCHANGED <<done, stopped, doneClosed, readyClosed, call, panicked, calls, histVars>>

(* Mutant of CloseDone: the goroutine forgets its done channel.            *)
CloseNothing(n) ==
  /\ client[n] = "ended"
  /\ client' = [client EXCEPT ![n] = "gone"]
  /\ stopped' = stopped \cup {n}
  /\ UNCHANGED <<cancel, done, errRun, doneClosed, readyClosed, call, panicked, calls,
                 histVars>>

(* close(done) after mu was released: of the run whose channel is stored by*)
(* then. Closing it again is a panic. The deferred cancelFunc follows.     *)
CloseDone(n) ==
  /\ client[n] = "ended"
  /\ client' = [client EXCEPT ![n] = "gone"]
  /\ panicked' = (done \in doneClosed)
  /\ doneClosed' = doneClosed \cup {done}
  /\ misfired' = (misfired \/ done # n)
  /\ stopped' = stopped \cup {n}
  /\ UNCHANGED <<cancel, done, errRun, readyClosed, call, calls, stops, answers>>

-----------------------------------------------------------------------------
Enter(a, pc) ==
  /\ call[a] = Idle /\ calls < MaxCalls
  /\ calls' = calls + 1
  /\ call' = [call EXCEPT ![a] = [pc |-> pc, run |-> done]]

(* Stop reads cancel and done under mu; without a CancelFunc it returns.   *)
Stop(a) ==
  /\ cancel # None
  /\ Enter(a, "stopping")
  /\ UNCHANGED <<cancel, done, errRun, runVars, panicked, histVars>>

(* Mutant of CancelRun: Stop clears cancel itself, before the run ended.   *)
CancelRunEarly(a) ==
  /\ call[a].pc = "stopping"
  /\ stopped' = stopped \cup {call[a].run}
  /\ cancel' = None
  /\ call' = [call EXCEPT ![a].pc = "stopwait"]
  /\ UNCHANGED <<done, errRun, client, doneClosed, readyClosed, panicked, calls, histVars>>

(* Stop calls the CancelFunc.                                              *)
CancelRun(a) ==
  /\ call[a].pc = "stopping"
  /\ stopped' = stopped \cup {call[a].run}
  /\ call' = [call EXCEPT ![a].pc = "stopwait"]
  /\ UNCHANGED <<cancel, done, errRun, client, doneClosed, readyClosed, panicked, calls,
                 histVars>>

(* Mutant of StopReturns: Stop does not wait for done.                     *)
StopReturnsAtOnce(a) ==
  /\ call[a].pc = "stopwait"
  /\ stops' = stops \cup {call[a].run}
  /\ call' = [call EXCEPT ![a] = Idle]
  /\ UNCHANGED <<cancel, done, errRun, runVars, panicked, calls, answers, misfired>>

(* Stop receives from the done channel it read.                            *)
StopReturns(a) ==
  /\ call[a].pc = "stopwait" /\ call[a].run \in doneClosed
  /\ stops' = stops \cup {call[a].run}
  /\ call' = [call EXCEPT ![a] = Idle]
  /\ UNCHANGED <<cancel, done, errRun, runVars, panicked, calls, answers, misfired>>

(* WaitReady reads ready, done and cancel under mu. A ready channel that is*)
(* closed answers at once, even of a run that ended; so does a run that    *)
(* ended before it was ready. Before the first Start it returns.           *)
WaitReady(a) ==
  /\ done # None
  /\ IF done \notin readyClosed /\ cancel # None
     THEN Enter(a, "waiting") /\ UNCHANGED answers
     ELSE /\ call[a] = Idle /\ calls < MaxCalls
          /\ calls' = calls + 1
          /\ answers' = answers \cup
               {<<done, IF done \in readyClosed THEN "ready" ELSE "stopped">>}
          /\ UNCHANGED call
  /\ UNCHANGED <<cancel, done, errRun, runVars, panicked, stops, misfired>>

Answered(a, answer) ==
  /\ answers' = answers \cup {<<call[a].run, answer>>}
  /\ call' = [call EXCEPT ![a] = Idle]
  /\ UNCHANGED <<cancel, done, errRun, runVars, panicked, calls, stops, misfired>>

(* The select of WaitReady takes whichever channel can be received from, or*)
(* the timer.                                                              *)
WaitReadyReady(a) ==
  /\ call[a].pc = "waiting" /\ call[a].run \in readyClosed
  /\ Answered(a, "ready")
WaitReadyDone(a) ==
  /\ call[a].pc = "waiting" /\ call[a].run \in doneClosed
  /\ Answered(a, "stopped")
WaitReadyTimeout(a) ==
  /\ call[a].pc = "waiting"
  /\ Answered(a, "timeout")

-----------------------------------------------------------------------------
RunStep(n) == EndRun(n) \/ CloseDone(n)
CallStep(a) ==
  \/ CancelRun(a) \/ StopReturns(a)
  \/ WaitReadyReady(a) \/ WaitReadyDone(a) \/ WaitReadyTimeout(a)

Next == /\ ~panicked
        /\ \/ \E n \in Run : Ready(n) \/ ClientReturns(n) \/ RunStep(n)
           \/ \E a \in App : Start(a) \/ Stop(a) \/ WaitReady(a) \/ CallStep(a)

Spec == Init /\ [][Next]_vars

(* Goroutines and threads run; a client returns once it is cancelled.      *)
Fairness ==
  /\ \A n \in Run : /\ WF_vars(~panicked /\ RunStep(n))
                    /\ WF_vars(~panicked /\ n \in stopped /\ ClientReturns(n))
  /\ \A a \in App : WF_vars(~panicked /\ CallStep(a))
FairSpec == Spec /\ Fairness

-----------------------------------------------------------------------------
(* However Start and Stop interleave with runs that end by themselves, two *)
(* clients never run at once: they would share the SOCKS port.             *)
AtMostOneClient ==
  Cardinality({n \in Run : client[n] \in {"starting", "up"}}) <= 1

(* When Stop returns, the client it cancelled has ended: TestStartWith-    *)
(* InjectedRunnerLifecycle (mobile/mobile_test.go) checks it of one run.   *)
StopStops == \A n \in stops : Ended(n)

(* The same, and what WaitReady answers is true of the run it was asked    *)
(* about, as long as no run closed the done channel of another.            *)
AnswersAreTrue ==
  /\ misfired \/ StopStops
  /\ \A n \in Run : <<n, "ready">> \in answers => n \in readyClosed
  /\ misfired \/ \A n \in Run : <<n, "stopped">> \in answers => Ended(n)

(* Stop returns, under the same condition: the client ends, its goroutine  *)
(* closes the channel Stop waits on.                                       *)
StopEnds == \A a \in App :
  call[a].pc \in {"stopping", "stopwait"} ~> (call[a] = Idle \/ misfired)

=============================================================================
