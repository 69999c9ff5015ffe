-------------------------- MODULE MCMobileRuntime ---------------------------
(* An instance of MobileRuntime for TLC: one thread of the application.    *)
EXTENDS MobileRuntime

OneThread == {"ui"}
=============================================================================
