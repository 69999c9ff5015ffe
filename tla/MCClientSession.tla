-------------------------- MODULE MCClientSession ---------------------------
(* Instances of ClientSession for TLC, and of the two ways the mobile       *)
(* binding runs a client: MobileRuntime and MobileProbe. What they see of it*)
(* is when it is ready and when it returns, so each is explored apart: a    *)
(* behaviour runs one of the three.                                         *)
EXTENDS ClientSession, MobileProbe

(* What calls the reconnect callback: the provider's WatchConnection and,  *)
(* over vp8channel, the goroutine that reads the remote track.             *)
OneCaller == {"provider"}
TwoCallers == {"provider", "vp8reader"}
TwoHandlers == {"socks1", "socks2"}
OneHandler == {"socks1"}

Complete == [carrier |-> "telemost", room |-> "r", client |-> "c", key |-> "k"]
SomeArgs ==
  {Complete, [Complete EXCEPT !.carrier = "jazz", !.room = ""], [Complete EXCEPT !.room = ""],
   [Complete EXCEPT !.carrier = ""], [Complete EXCEPT !.client = ""], [Complete EXCEPT !.key = ""]}

-----------------------------------------------------------------------------
CONSTANTS App, MaxRuns, MaxCalls  (* of MobileRuntime                       *)
ASSUME RuntimeAssumption == MaxRuns \in Nat /\ MaxCalls \in Nat /\ App # {}

VARIABLES cancel, done, errRun, client, stopped, doneClosed, readyClosed, call, panicked, calls,
          stops, answers, misfired
Runtime == INSTANCE MobileRuntime
runtimeVars == <<cancel, done, errRun, client, stopped, doneClosed, readyClosed, call, panicked,
                 calls, stops, answers, misfired>>

TwoThreads == {"ui", "service"}

VARIABLE part  (* "client", "probe" or "runtime"                            *)

allVars == <<part, vars, probeVars, runtimeVars>>

AllInit == part \in {"client", "probe", "runtime"} /\ Init /\ ProbeInit /\ Runtime!Init
OfClient == part = "client" /\ Next /\ UNCHANGED <<part, probeVars, runtimeVars>>
OfProbe == part = "probe" /\ ProbeNext /\ UNCHANGED <<part, vars, runtimeVars>>
OfRuntime == part = "runtime" /\ Runtime!Next /\ UNCHANGED <<part, vars, probeVars>>
AllNext == OfClient \/ OfProbe \/ OfRuntime

(* What MobileRuntime says. Its state and the client's are well-formed.     *)
AllTypeOK == TypeOK /\ Runtime!TypeOK

(* Two clients of the mobile binding never run at once (startWithConfig).   *)
AtMostOneClient == Runtime!AtMostOneClient

(* Stop and WaitReady tell the truth about the run they were called on,     *)
(* unless the end of a run closed the channel of another.                   *)
AnswersAreTrue == Runtime!AnswersAreTrue

(* Under the same condition every Stop returns.                             *)
StopEnds == Runtime!StopEnds

(* Goroutines and threads run, the link connects or fails to, timers fire,  *)
(* and a client whose context is done returns. One condition holds a        *)
(* goroutine of each part: a behaviour has steps of one of them only.       *)
Fair(onClient, onProbe, onRuntime) ==
  \/ part = "client" /\ ~crashed /\ onClient /\ UNCHANGED <<part, probeVars, runtimeVars>>
  \/ part = "probe" /\ onProbe /\ UNCHANGED <<part, vars, runtimeVars>>
  \/ part = "runtime" /\ ~panicked /\ onRuntime /\ UNCHANGED <<part, vars, probeVars>>

NoStep == FALSE
AllFairness ==
  /\ WF_allVars(Fair(Connected \/ ConnectFails, Answers \/ DeadlinePasses, NoStep))
  /\ WF_allVars(Fair(StopRunning, ctxDone /\ Returns, NoStep))
  /\ WF_allVars(Fair(Shutdown, NoStep, NoStep))
  /\ \A t \in Thread : WF_allVars(Fair(ThreadStep(t), NoStep, NoStep))
  /\ \A h \in Handlers : WF_allVars(Fair(OpenStream(h), NoStep, NoStep))
  /\ \A n \in Runtime!Run :
       /\ WF_allVars(Fair(NoStep, NoStep, Runtime!RunStep(n)))
       /\ WF_allVars(Fair(NoStep, NoStep, n \in stopped /\ Runtime!ClientReturns(n)))
  /\ \A a \in App : WF_allVars(Fair(NoStep, NoStep, Runtime!CallStep(a)))

AllSpec == AllInit /\ [][AllNext]_allVars /\ AllFairness
=============================================================================
