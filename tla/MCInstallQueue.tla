--------------------------- MODULE MCInstallQueue ---------------------------
(***************************************************************************)
(* InstallQueue on a small instance: two packages, so that a batch and a   *)
(* single request can compete for the same row; four tasks, so that every  *)
(* package can be requested again while it waits, runs and has ended; one  *)
(* caller of wait_until_idle; one close(timeout) and one close(None).      *)
(***************************************************************************)
EXTENDS InstallQueue

CONSTANTS modA, modB, poller, closing, finish_close

MCPackage == {modA, modB}
MCWaiter  == {poller}
MCCloser  == {closing, finish_close}
MCPatient == {finish_close}

=============================================================================
