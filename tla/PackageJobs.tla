---------------------------- MODULE PackageJobs ----------------------------
(***************************************************************************)
(* What the install queue promises to the pages that show it: every        *)
(* package has at most one job, at most one job runs at a time, a running  *)
(* job is never replaced or withdrawn, a finished job only changes by a    *)
(* new request or by being cleared, and once the queue is shut nothing is  *)
(* queued any more.  No list, no lock and no thread: InstallQueue is shown *)
(* to implement this module.                                               *)
(***************************************************************************)

CONSTANT Package

VARIABLES
    job,   \* job[p]: what the page shows for package p
    open   \* the queue still takes requests

jobVars == <<job, open>>

Quiet  == {"none", "completed", "failed", "canceled"}
Status == Quiet \cup {"waiting", "installing"}

JobsTypeOK == job \in [Package -> Status] /\ open \in BOOLEAN

JobsInit == job = [p \in Package |-> "none"] /\ open = TRUE

\* A batch of requests takes effect at once; running jobs are not in it.
Request(S) ==
    /\ open
    /\ \A p \in S : job[p] # "installing"
    /\ job' = [p \in Package |-> IF p \in S THEN "waiting" ELSE job[p]]
    /\ UNCHANGED open

Withdraw(p) ==
    /\ job[p] = "waiting"
    /\ job' = [job EXCEPT ![p] = "canceled"]
    /\ UNCHANGED open

Start(p) ==
    /\ job[p] = "waiting"
    /\ \A q \in Package : job[q] # "installing"
    /\ job' = [job EXCEPT ![p] = "installing"]
    /\ UNCHANGED open

End(p) ==
    /\ job[p] = "installing"
    /\ \E result \in {"completed", "failed"} : job' = [job EXCEPT ![p] = result]
    /\ UNCHANGED open

Forget ==
    /\ job' = [p \in Package |-> IF job[p] = "completed" THEN "none" ELSE job[p]]
    /\ UNCHANGED open

Shut ==
    /\ open' = FALSE
    /\ job' = [p \in Package |-> IF job[p] = "waiting" THEN "canceled" ELSE job[p]]

JobsNext ==
    \/ \E S \in SUBSET Package : Request(S)
    \/ \E p \in Package : Withdraw(p) \/ Start(p) \/ End(p)
    \/ Forget
    \/ Shut

JobsSpec == JobsInit /\ [][JobsNext]_jobVars

=============================================================================
