------------------------ MODULE MCEnvironmentMonitor ------------------------
(***************************************************************************)
(* The guard, the hub's worker and, for safety, an API thread that asks on *)
(* its own; one polling thread or the two that two askers may start at     *)
(* once; one change of each kind.                                          *)
(***************************************************************************)
EXTENDS EnvironmentMonitor

CONSTANTS guard, hub, api, loop1, loop2

GuardAndHub == {guard, hub}
ThreeAskers == {guard, hub, api}
MCGuard     == guard
MCHub       == hub
TwoLoops    == {loop1, loop2}
OneLoop     == {loop1}

=============================================================================
