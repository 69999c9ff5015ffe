---------------------------- MODULE ServerSession ---------------------------
(***************************************************************************)
(* How the server (internal/server/server.go) keeps one smux session over  *)
(* a link that reconnects: the goroutine of Run connects, serves, shuts    *)
(* down and waits; goroutines of the link call handleReconnect; a watcher  *)
(* closes the session once the context is cancelled.                       *)
(*                                                                         *)
(* Session n and the muxconn n under it are made together and stored and   *)
(* cleared together, under sessMu, so one number names both. What the peer *)
(* sends is external: it may open streams or break a session (a frame that *)
(* smux rejects).                                                          *)
(***************************************************************************)
EXTENDS Integers, FiniteSets

CONSTANTS
  Callers,       (* goroutines of the link that call the reconnect callback *)
  Provider,      (* the one that runs WatchConnection, counted in wg        *)
  EarlyCallers,  (* callers that may call before bringUpLink installed      *)
  MaxCallbacks,  (* bound: reconnect callbacks in all                       *)
  MaxBreaks,     (* bound: sessions broken by the peer in all               *)
  Held           (* sessions whose handlers a target or proxy may hold      *)

Main == "serve"
Thread == Callers \cup {Main}
Nobody == "nobody"
None == 0

ASSUME ServerAssumption ==
  /\ Main \notin Callers /\ Nobody \notin Callers
  /\ Provider \in Callers /\ EarlyCallers \subseteq Callers
  /\ MaxCallbacks \in Nat /\ MaxBreaks \in Nat /\ Held \subseteq Nat

VARIABLES
  pc,          (* where each goroutine is                                   *)
  seen,        (* the session each goroutine read (sess, current, dead)     *)
  session,     (* s.session and s.conn, None when nil                       *)
  created,     (* sessions made so far: 1 .. created                        *)
  closed,      (* sessions that were closed                                 *)
  broken,      (* sessions whose AcceptStream fails though nobody closed it *)
  holder,      (* the goroutine that holds reinstallMu                      *)
  handlers,    (* sessions with a running handleStream                      *)
  cancelled,   (* the context of Run is done                                *)
  watcher,     (* the goroutine that closes the session on cancellation,    *)
               (* started with WatchConnection once the link is up          *)
  callbacks,   (* history: reconnect callbacks so far                       *)
  revived      (* history: a session was installed after cancellation       *)

vars == <<pc, seen, session, created, closed, broken, holder, handlers, cancelled,
          watcher, callbacks, revived>>

Alive == (1 .. created) \ closed
Failing(n) == n \in closed \cup broken

(* Goroutines are where their code is; reinstallMu is held from the swap   *)
(* to the end of installSession.                                           *)
TypeOK ==
  /\ pc \in [Thread -> {"connect", "check", "load", "sleep", "accept", "failed", "lock",
                        "install", "shutdown", "wait", "returned", "idle", "ended"}]
  /\ created \in Nat /\ session \in 0 .. created
  /\ seen \in [Thread -> 0 .. created]
  /\ closed \subseteq 1 .. created /\ broken \subseteq 1 .. created
  /\ handlers \subseteq 1 .. created
  /\ holder \in Thread \cup {Nobody}
  /\ \A t \in Thread : pc[t] = "install" <=> holder = t
  /\ cancelled \in BOOLEAN /\ revived \in BOOLEAN /\ watcher \in {"none", "waiting", "ended"}
  /\ callbacks \in 0 .. MaxCallbacks

Init ==
  /\ pc = [t \in Thread |-> IF t = Main THEN "connect" ELSE "idle"]
  /\ seen = [t \in Thread |-> None]
  /\ session = None /\ created = 0 /\ closed = {} /\ broken = {}
  /\ holder = Nobody /\ handlers = {}
  /\ cancelled = FALSE /\ watcher = "none"
  /\ callbacks = 0 /\ revived = FALSE

Goto(t, label) == pc' = [pc EXCEPT ![t] = label]
CloseSession(n) == closed' = closed \cup ({n} \ {None})

-----------------------------------------------------------------------------
(* installSession: a new conn and session, stored under sessMu.            *)
InstallSession ==
  /\ created' = created + 1
  /\ session' = created + 1
  /\ revived' = (revived \/ cancelled)

(* The rest of bringUpLink once the link is connected, and the start of the*)
(* watcher. It does not take reinstallMu.                                  *)
Connected ==
  /\ pc[Main] = "connect"
  /\ InstallSession
  /\ Goto(Main, "check")
  /\ watcher' = "waiting"
  /\ UNCHANGED <<seen, closed, broken, holder, handlers, cancelled, callbacks>>

(* The link does not connect: Run returns, which cancels its context.      *)
ConnectFails ==
  /\ pc[Main] = "connect"
  /\ Goto(Main, "returned")
  /\ cancelled' = TRUE
  /\ UNCHANGED <<seen, session, created, closed, broken, holder, handlers, watcher,
                 callbacks, revived>>

(* Mutants of Swap: the session that is cleared is not compared with the   *)
(* one found dead; reinstallMu is not taken.                               *)
SwapAny(t) ==
  /\ holder = Nobody
  /\ CloseSession(session) /\ session' = None
  /\ holder' = t
  /\ Goto(t, "install")
SwapUnlocked(t) ==
  IF session # seen[t]
  THEN /\ Goto(t, IF t = Main THEN "check" ELSE "idle")
       /\ UNCHANGED <<session, closed, holder>>
  ELSE /\ CloseSession(session) /\ session' = None
       /\ Goto(t, "install")
       /\ UNCHANGED holder
(* reinstallSession(dead) up to the release of sessMu.                     *)
Swap(t) ==
  /\ holder = Nobody
  /\ IF session # seen[t]
     THEN /\ Goto(t, IF t = Main THEN "check" ELSE "idle")
          /\ UNCHANGED <<session, closed, holder>>
     ELSE /\ CloseSession(session) /\ session' = None
          /\ holder' = t
          /\ Goto(t, "install")

Reinstall(t) ==
  /\ pc[t] = "lock"
  /\ Swap(t)
  /\ UNCHANGED <<seen, created, broken, handlers, cancelled, watcher, callbacks, revived>>

(* The end of reinstallSession: installSession, then reinstallMu is free.  *)
Install(t) ==
  /\ pc[t] = "install"
  /\ InstallSession
  /\ holder' = Nobody
  /\ Goto(t, IF t = Main THEN "check" ELSE "idle")
  /\ UNCHANGED <<seen, closed, broken, handlers, cancelled, watcher, callbacks>>

(* handleReconnect: it reads the session, and will reinstall that one.     *)
HandleReconnect(t) ==
  /\ pc[t] = "idle" /\ callbacks < MaxCallbacks
  /\ watcher = "none" => t \in EarlyCallers
  /\ callbacks' = callbacks + 1
  /\ seen' = [seen EXCEPT ![t] = session]
  /\ Goto(t, "lock")
  /\ UNCHANGED <<session, created, closed, broken, holder, handlers, cancelled, watcher,
                 revived>>

(* WatchConnection returns: when the context is done, or before (the one of*)
(* wbstream returns at once).                                              *)
ProviderEnds ==
  /\ pc[Provider] = "idle" /\ watcher # "none"
  /\ Goto(Provider, "ended")
  /\ UNCHANGED <<seen, session, created, closed, broken, holder, handlers, cancelled,
                 watcher, callbacks, revived>>

-----------------------------------------------------------------------------
(* serve: the check of the context at the top of the loop.                 *)
Check ==
  /\ pc[Main] = "check"
  /\ Goto(Main, IF cancelled THEN "shutdown" ELSE "load")
  /\ UNCHANGED <<seen, session, created, closed, broken, holder, handlers, cancelled,
                 watcher, callbacks, revived>>

Load ==
  /\ pc[Main] = "load"
  /\ seen' = [seen EXCEPT ![Main] = session]
  /\ Goto(Main, IF session = None THEN "sleep" ELSE "accept")
  /\ UNCHANGED <<session, created, closed, broken, holder, handlers, cancelled, watcher,
                 callbacks, revived>>

(* No session: the context ends the wait, or the 50ms timer does, whichever*)
(* the select takes.                                                       *)
Sleep ==
  /\ pc[Main] = "sleep"
  /\ \/ cancelled /\ Goto(Main, "shutdown")
     \/ Goto(Main, "check")
  /\ UNCHANGED <<seen, session, created, closed, broken, holder, handlers, cancelled,
                 watcher, callbacks, revived>>

(* AcceptStream returns a stream, which gets a handler in wg. One handler  *)
(* per session stands for any number.                                      *)
AcceptStream ==
  /\ pc[Main] = "accept" /\ ~Failing(seen[Main])
  /\ handlers' = handlers \cup {seen[Main]}
  /\ Goto(Main, "check")
  /\ UNCHANGED <<seen, session, created, closed, broken, holder, cancelled, watcher,
                 callbacks, revived>>

(* AcceptStream returns an error.                                          *)
AcceptFails ==
  /\ pc[Main] = "accept" /\ Failing(seen[Main])
  /\ Goto(Main, "failed")
  /\ UNCHANGED <<seen, session, created, closed, broken, holder, handlers, cancelled,
                 watcher, callbacks, revived>>

(* Mutant of CheckAfterFailure: an error ends the server.                  *)
FailureEndsServer ==
  /\ pc[Main] = "failed"
  /\ Goto(Main, "shutdown")
  /\ UNCHANGED <<seen, session, created, closed, broken, holder, handlers, cancelled,
                 watcher, callbacks, revived>>

(* The context is checked again before the session is reinstalled.         *)
CheckAfterFailure ==
  /\ pc[Main] = "failed"
  /\ Goto(Main, IF cancelled THEN "shutdown" ELSE "lock")
  /\ UNCHANGED <<seen, session, created, closed, broken, holder, handlers, cancelled,
                 watcher, callbacks, revived>>

(* shutdown: closeSession, then the link is closed.                        *)
Shutdown ==
  /\ pc[Main] = "shutdown"
  /\ CloseSession(session) /\ session' = None
  /\ Goto(Main, "wait")
  /\ UNCHANGED <<seen, created, broken, holder, handlers, cancelled, watcher, callbacks,
                 revived>>

(* wg.Wait: WatchConnection and every handler are done; Run returns.       *)
WaitAll ==
  /\ pc[Main] = "wait" /\ pc[Provider] = "ended" /\ handlers = {}
  /\ Goto(Main, "returned")
  /\ UNCHANGED <<seen, session, created, closed, broken, holder, handlers, cancelled,
                 watcher, callbacks, revived>>

-----------------------------------------------------------------------------
(* The context is cancelled: by the caller of Run, or by the ended callback*)
Cancel ==
  /\ ~cancelled
  /\ cancelled' = TRUE
  /\ UNCHANGED <<pc, seen, session, created, closed, broken, holder, handlers, watcher,
                 callbacks, revived>>

(* Mutant of Watch: the watcher does nothing.                              *)
WatchNothing ==
  /\ cancelled /\ watcher = "waiting"
  /\ watcher' = "ended"
  /\ UNCHANGED <<pc, seen, session, created, closed, broken, holder, handlers, cancelled,
                 callbacks, revived>>

(* The watcher's closeSession, which takes sessMu but not reinstallMu.     *)
Watch ==
  /\ cancelled /\ watcher = "waiting"
  /\ watcher' = "ended"
  /\ CloseSession(session) /\ session' = None
  /\ UNCHANGED <<pc, seen, created, broken, holder, handlers, cancelled, callbacks, revived>>

(* The peer breaks the installed session.                                  *)
Break ==
  /\ session # None /\ session \notin broken /\ Cardinality(broken) < MaxBreaks
  /\ broken' = broken \cup {session}
  /\ UNCHANGED <<pc, seen, session, created, closed, holder, handlers, cancelled, watcher,
                 callbacks, revived>>

(* A handler returns: its target or its stream is done. The end of its     *)
(* session does that, but not for one that is in a read of a silent proxy  *)
(* (socks5Connect) or in a write to a target that does not read (io.Copy): *)
(* neither has a deadline, and handleStream does not look at its context.  *)
HandlerEnds(n) ==
  /\ n \in handlers
  /\ handlers' = handlers \ {n}
  /\ UNCHANGED <<pc, seen, session, created, closed, broken, holder, cancelled, watcher,
                 callbacks, revived>>

-----------------------------------------------------------------------------
ServeStep == Check \/ Load \/ Sleep \/ AcceptFails \/ CheckAfterFailure
             \/ Reinstall(Main) \/ Install(Main) \/ Shutdown \/ WaitAll
CallbackStep(t) == Reinstall(t) \/ Install(t)

Next ==
  \/ Connected \/ ConnectFails \/ ServeStep \/ AcceptStream
  \/ Cancel \/ Watch \/ Break \/ ProviderEnds
  \/ \E t \in Callers : HandleReconnect(t) \/ CallbackStep(t)
  \/ \E n \in handlers : HandlerEnds(n)

Spec == Init /\ [][Next]_vars

(* Goroutines run, the link connects or fails to, and a handler that nobody*)
(* holds notices that its session was closed. Nothing is assumed of the    *)
(* peer, of who holds a handler, or of who cancels.                        *)
Fairness ==
  /\ WF_vars(Connected \/ ConnectFails) /\ WF_vars(ServeStep) /\ WF_vars(Watch)
  /\ WF_vars(cancelled /\ ProviderEnds)
  /\ \A t \in Callers : WF_vars(CallbackStep(t))
  /\ WF_vars(\E n \in (handlers \cap closed) \ Held : HandlerEnds(n))
FairSpec == Spec /\ Fairness

-----------------------------------------------------------------------------
(* Whatever callbacks, failures of AcceptStream and the watcher do at once,*)
(* a session is never abandoned open: one that is not closed is the        *)
(* installed one, the only one onData feeds and closeSession reaches. (A   *)
(* callback before bringUpLink installed breaks it, see EarlyCallers.)     *)
LiveIsInstalled == Alive \subseteq {session}

(* One death costs one session: when the link's callback and serve both    *)
(* find the same session dead, only the first reinstalls.                  *)
ReinstallsAreCaused == created <= 1 + Cardinality(broken) + callbacks

(* "The loop tolerates session bounces (reconnects) by waiting until a     *)
(* fresh session is installed instead of terminating the server": after    *)
(* every bounce serve is again in AcceptStream on a session that works,    *)
(* unless the server is stopped.                                           *)
Serving == pc[Main] = "accept" /\ ~Failing(seen[Main])
ServeRecovers == (created > 0 /\ ~cancelled /\ ~Serving) ~> (Serving \/ cancelled)

(* Once its context is done Run returns, or is in wg.Wait for handlers that*)
(* a target or a proxy holds, all others having ended; unless a session was*)
(* installed after the cancellation.                                       *)
OnlyHeldLeft == pc[Main] = "wait" /\ handlers # {} /\ handlers \subseteq Held
StopsUnlessRevived == cancelled ~> (pc[Main] = "returned" \/ revived \/ OnlyHeldLeft)

(* Run returns once its context is done (internal/e2e/tunnel_test.go,      *)
(* TestEndedCallbackStopsClientAndServer).                                 *)
RunReturns == cancelled ~> pc[Main] = "returned"

=============================================================================
