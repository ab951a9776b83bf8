---------------------------- MODULE MCClientApi ----------------------------
(***************************************************************************)
(* Two API threads, one package and two tasks: enough for a loader         *)
(* operation to race an enqueue, a removal or a queued install, and for    *)
(* the window to be closed, twice, in the middle of any of them.           *)
(***************************************************************************)
EXTENDS ClientApi

CONSTANTS p1, a1, a2

MCPackage == {p1}
MCCaller  == {a1, a2}
MCCloser  == {"closing", "closed", "finish_close", "self_update"}
MCPatient == {"finish_close"}
MCWaiter  == {}
MCOperation == Gated \cup {"enqueue", "toggle", "verify"}

MCLivenessOperation == {"enqueue", "remove", "install_modloader"}

=============================================================================
