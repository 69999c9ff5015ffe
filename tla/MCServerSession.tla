-------------------------- MODULE MCServerSession ---------------------------
(* Instances of ServerSession for TLC.                                     *)
EXTENDS ServerSession

(* What calls the reconnect callback: the provider's WatchConnection and,  *)
(* over vp8channel, the goroutine that reads the remote track.             *)
TwoCallers == {"provider", "vp8reader"}
OneCaller == {"provider"}
NoCaller == {}
=============================================================================
