----------------------------- MODULE MobileProbe -----------------------------
(***************************************************************************)
(* Check and Ping of the mobile binding (mobile/mobile.go): each runs a    *)
(* client of its own, apart from the singleton of MobileRuntime, until it  *)
(* is ready (Check) or has served a few HTTP requests (Ping), and answers  *)
(* with a latency. A timer, the client's ready channel and its done channel*)
(* race.                                                                   *)
(*                                                                         *)
(* External: the client (RunWithReady), which returns once its context is  *)
(* done, and the HTTP requests through it.                                 *)
(***************************************************************************)
EXTENDS Integers, Sequences, FiniteSets, FiniteSetsExt, Functions

CONSTANTS
  Samples,    (* httpPingSamples                                            *)
  Latencies,  (* what a request may take, in whole milliseconds             *)
  Args        (* the arguments explored                                     *)

ASSUME ProbeAssumption == Samples \in Nat /\ Latencies \subseteq Nat

VARIABLES
  probe,     (* the call: its kind, and where it is                         *)
  runs,      (* its client                                                  *)
  isReady,   (* readyCh is closed                                           *)
  inDone,    (* what doneCh holds                                           *)
  ctxDone,   (* its context is cancelled or has timed out                   *)
  samples,   (* history: the requests after the warm-up, -1 for a failed one*)
  best,      (* bestHTTPPingSample's best                                   *)
  result     (* what the call answers                                       *)

probeVars == <<probe, runs, isReady, inDone, ctxDone, samples, best, result>>

NoResult == <<"none">>
Failed == -1

ProbeInit ==
  /\ probe = [kind |-> "none", pc |-> "idle"]
  /\ runs = "none" /\ isReady = FALSE /\ inDone = "empty" /\ ctxDone = FALSE
  /\ samples = <<>> /\ best = 0 /\ result = NoResult

(* validateStartArgs: what is missing, in the order the code looks for it; *)
(* a jazz room may be created on the fly.                                  *)
ValidateStartArgs(args) ==
  IF args.carrier = "" THEN "errCarrierRequired"
  ELSE IF args.room = "" /\ args.carrier # "jazz" THEN "errRoomIDRequired"
  ELSE IF args.client = "" THEN "errClientIDRequired"
  ELSE IF args.key = "" THEN "errKeyHexRequired"
  ELSE "nil"

-----------------------------------------------------------------------------
(* The call up to its select; the goroutine of its client starts.          *)
Begins(kind, args) ==
  /\ probe.pc = "idle"
  /\ IF ValidateStartArgs(args) = "nil"
     THEN probe' = [kind |-> kind, pc |-> "select"] /\ runs' = "starting" /\ UNCHANGED result
     ELSE /\ probe' = [kind |-> kind, pc |-> "returned"]
          /\ result' = <<"error", ValidateStartArgs(args)>> /\ UNCHANGED runs
  /\ UNCHANGED <<isReady, inDone, ctxDone, samples, best>>

(* The client calls onReady, and it returns; doneCh has room for its error.*)
IsReady ==
  /\ runs = "starting"
  /\ runs' = "up" /\ isReady' = TRUE
  /\ UNCHANGED <<probe, inDone, ctxDone, samples, best, result>>

Returns ==
  /\ runs \in {"starting", "up"}
  /\ runs' = "returned"
  /\ inDone' \in {"nil", "error"}
  /\ UNCHANGED <<probe, isReady, ctxDone, samples, best, result>>

(* Mutant of AnswerReady: the client is left running.                      *)
AnswerReadyOnly ==
  /\ probe.pc = "select" /\ isReady
  /\ IF probe.kind = "check"
     THEN /\ probe' = [probe EXCEPT !.pc = "returned"] /\ result' = <<"latency">>
     ELSE /\ probe' = [probe EXCEPT !.pc = "warmup"] /\ UNCHANGED result
  /\ UNCHANGED <<runs, isReady, inDone, ctxDone, samples, best>>

(* The three cases of the select. A Check ends once the client is ready, a *)
(* Ping begins its requests.                                               *)
AnswerReady ==
  /\ probe.pc = "select" /\ isReady
  /\ IF probe.kind = "check"
     THEN /\ probe' = [probe EXCEPT !.pc = "finish"] /\ ctxDone' = TRUE
          /\ result' = <<"latency">>
     ELSE /\ probe' = [probe EXCEPT !.pc = "warmup"] /\ UNCHANGED <<ctxDone, result>>
  /\ UNCHANGED <<runs, isReady, inDone, samples, best>>

AnswerDone ==
  /\ probe.pc = "select" /\ inDone # "empty"
  /\ probe' = [probe EXCEPT !.pc = "returned"]
  /\ inDone' = "empty" /\ ctxDone' = TRUE
  /\ result' = IF inDone = "error" THEN <<"error", "client">> ELSE <<"errStoppedBeforeReady">>
  /\ UNCHANGED <<runs, isReady, samples, best>>

AnswerTimeout ==
  /\ probe.pc = "select" /\ (probe.kind = "check" \/ ctxDone)
  /\ probe' = [probe EXCEPT !.pc = "finish"]
  /\ ctxDone' = TRUE /\ result' = <<"errStartTimedOut">>
  /\ UNCHANGED <<runs, isReady, inDone, samples, best>>

(* Ping's context has a deadline, which also ends the requests.            *)
DeadlinePasses ==
  /\ probe.kind = "ping" /\ probe.pc # "returned" /\ ~ctxDone
  /\ ctxDone' = TRUE
  /\ UNCHANGED <<probe, runs, isReady, inDone, samples, best, result>>

-----------------------------------------------------------------------------
(* The first request is not measured, and may fail.                        *)
WarmsUp ==
  /\ probe.pc = "warmup"
  /\ probe' = [probe EXCEPT !.pc = "sample"]
  /\ UNCHANGED <<runs, isReady, inDone, ctxDone, samples, best, result>>

(* Mutant of BestPositiveLatency: the last sample wins.                    *)
LastPositiveLatency(currentBest, next) == IF next <= 0 THEN currentBest ELSE next

BestPositiveLatency(currentBest, next) ==
  IF next <= 0 \/ (currentBest # 0 /\ next >= currentBest) THEN currentBest ELSE next

(* singleHTTPPingRequest: it fails when its context is done and when the   *)
(* client is gone, and may fail anyway.                                    *)
PingRequest == {Failed} \cup (IF ctxDone \/ runs # "up" THEN {} ELSE Latencies)

(* The loop of bestHTTPPingSample.                                         *)
TakesSample ==
  /\ probe.pc = "sample" /\ Len(samples) < Samples
  /\ \E elapsed \in PingRequest :
       /\ samples' = Append(samples, elapsed)
       /\ best' = IF elapsed = Failed THEN best ELSE BestPositiveLatency(best, elapsed)
  /\ UNCHANGED <<probe, runs, isReady, inDone, ctxDone, result>>

(* The end of bestHTTPPingSample and of Ping's case.                       *)
AnswerBest ==
  /\ probe.pc = "sample" /\ Len(samples) = Samples
  /\ result' = IF best > 0 THEN <<"latency", best>>
               ELSE IF Failed \in Range(samples) THEN <<"error", "request">>
               ELSE <<"errHTTPPingTimedOut">>
  /\ probe' = [probe EXCEPT !.pc = "finish"] /\ ctxDone' = TRUE
  /\ UNCHANGED <<runs, isReady, inDone, samples, best>>

(* waitForCheckDone: the client's return, or 2 s.                          *)
Finishes ==
  /\ probe.pc = "finish"
  /\ inDone' = "empty"
  /\ probe' = [probe EXCEPT !.pc = "returned"]
  /\ UNCHANGED <<runs, isReady, ctxDone, samples, best, result>>

-----------------------------------------------------------------------------
Answers == AnswerReady \/ AnswerDone \/ AnswerTimeout \/ WarmsUp \/ TakesSample \/ AnswerBest
           \/ Finishes
ProbeNext ==
  \/ \E kind \in {"check", "ping"}, args \in Args : Begins(kind, args)
  \/ IsReady \/ Returns \/ DeadlinePasses \/ Answers

-----------------------------------------------------------------------------
(* What a probe answers is true whichever channel its select took: a Check *)
(* succeeds only on a client that was ready; a Ping's latency is the least *)
(* that was measured, and requests that all took less than a millisecond   *)
(* are reported as timed out; "stopped" is said of a client that ended.    *)
Positive == {s \in Range(samples) : s > 0}
ProbeAnswersAreTrue ==
  /\ result[1] = "latency" => isReady
  /\ result = <<"latency", best>> => best \in Positive /\ \A s \in Positive : best <= s
  /\ result[1] = "errHTTPPingTimedOut" => samples # <<>> /\ Range(samples) = {0}
  /\ result[1] = "errStoppedBeforeReady" => runs = "returned"
  /\ probe.pc = "returned" /\ runs # "none" => ctxDone

(* A probe returns, and leaves no client behind it, although it does not   *)
(* wait for more than 2 s and a deferred cancel is all that stops a client.*)
ProbeEnds == probe.pc # "idle" ~> (probe.pc = "returned" /\ runs \in {"none", "returned"})
=============================================================================
