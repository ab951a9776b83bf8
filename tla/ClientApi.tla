----------------------------- MODULE ClientApi -----------------------------
(***************************************************************************)
(* presentation/web_gui.py and presentation/controllers/: who may change   *)
(* the game directory, and how the client closes.                          *)
(*                                                                         *)
(* pywebview runs every API call in a thread of its own.  The threads, the *)
(* queue's worker and the two closing paths share four things: the install *)
(* queue (module InstallQueue, composed here), `_state_lock`,              *)
(* `_mutation_lock` and the event `_loader_idle`.  Each take, test and     *)
(* release of these is a step; what is done to the files between           *)
(* `_mutation_lock`'s acquire and release is one "inside".                 *)
(***************************************************************************)
EXTENDS InstallQueue

CONSTANTS
    Caller,     \* API threads: each makes one call at a time, any number of times
    Operation,  \* the operations they call
    Packaged    \* runs as the packaged executable, which can replace itself

Nobody == "nobody"

Gated == {"remove", "remove_modloader", "install_modloader"}

\* "enqueue" stands for enqueue_install and update_all; "toggle" and "verify", which
\* only take `_mutation_lock`, for toggle_mod and adopt_existing, and verify_installed.
ASSUME CallerAssumption ==
    /\ Operation \subseteq Gated \cup {"enqueue", "toggle", "verify"}
    /\ Closer = {"closing", "closed", "finish_close", "self_update"}
    /\ Patient = {"finish_close"}
    /\ Caller \cap {Nobody, "runner"} = {}
    /\ Packaged \in BOOLEAN

VARIABLES
    stateLock,   \* holder of `_state_lock`
    mutation,    \* holder of `_mutation_lock`
    loaderIdle,  \* the event `_loader_idle`
    call,        \* per API thread: the operation and how far it is
    runner,      \* where _run_queued_install is
    ui,          \* the window and its thread: on_closing, on_closed
    finisher,    \* the thread of on_closing's finish_close
    update,      \* the thread of _exit_for_self_update's finish
    scheduled    \* `_destroy_scheduled`

locks   == <<stateLock, mutation, loaderIdle>>
threads == <<call, runner, ui, finisher, update, scheduled>>
allVars == <<vars, locks, threads>>

Place     == {"out", "service", "gate", "gated", "quiet", "try", "clearing",
              "inside", "leaving"}
UiState   == {"open", "closing", "idle?", "free?", "busy",
              "gone", "draining", "over"}

NoCall    == [op |-> "none", at |-> "out"]

ClientTypeOK ==
    /\ stateLock \in Caller \cup {Nobody}
    /\ mutation \in Caller \cup {Nobody, "runner"}
    /\ loaderIdle \in BOOLEAN
    /\ call \in [Caller -> [op : Operation \cup {"none"}, at : Place]]
    /\ runner \in {"none", "service", "inside", "done"}
    /\ ui \in UiState
    /\ finisher \in {"none", "start", "joining", "idle?", "free?", "destroying", "done"}
    /\ update \in {"none", "start", "joining", "destroying", "exiting", "exited"}
    /\ scheduled \in BOOLEAN

\* os._exit(0), or webview.start() has returned and on_closed with it; the
\* queue's worker is a daemon thread and does not outlive either.
Exited == update = "exited" \/ ui = "over"

ClientInit ==
    /\ Init
    /\ stateLock = Nobody
    /\ mutation = Nobody
    /\ loaderIdle = TRUE
    /\ call = [a \in Caller |-> NoCall]
    /\ runner = "none"
    /\ ui = "open"
    /\ finisher = "none"
    /\ update = "none"
    /\ scheduled = FALSE

-----------------------------------------------------------------------------
(* API calls                                                               *)

At(a, op, at)  == call[a].op \in op /\ call[a].at = at
Go(a, at)      == call' = [call EXCEPT ![a] = IF at = "out" THEN NoCall
                                              ELSE [op |-> @.op, at |-> at]]
Release(a)     == stateLock' = IF stateLock = a THEN Nobody ELSE stateLock
OtherThreads   == <<runner, ui, finisher, update, scheduled>>

\* Bound: an enqueue is only begun when all the tasks it and the enqueues under
\* way may create are within MaxTask.
RoomForTasks ==
    LET enqueuers == {a \in Caller : call[a].op = "enqueue"}
    IN  issued + Cardinality(Package) * (Cardinality(enqueuers) + 1) <= MaxTask

\* enqueue_install refuses early while a loader is being installed.
Begin(a, op) ==
    /\ call[a].at = "out"
    /\ ui \notin {"gone", "draining", "over"}
    /\ op = "enqueue" => loaderIdle /\ RoomForTasks
    /\ call' = [call EXCEPT ![a] =
                  [op |-> op, at |-> CASE op = "remove" -> "gate"
                                       [] op = "verify" -> "try"
                                       [] OTHER         -> "service"]]
    /\ UNCHANGED <<vars, locks, OtherThreads>>

\* _current_service(): `_state_lock` is held to read one attribute.
Service(a) ==
    /\ call[a].at = "service"
    /\ stateLock = Nobody
    /\ Go(a, CASE mutation = a             -> "inside"
               [] call[a].op = "toggle"    -> "try"
               [] OTHER                    -> "gate")
    /\ UNCHANGED <<vars, locks, OtherThreads>>

Gate(a) ==
    /\ call[a].at = "gate"
    /\ stateLock = Nobody
    /\ IF loaderIdle THEN Go(a, "gated") /\ stateLock' = a
                     ELSE Go(a, "out") /\ UNCHANGED stateLock
    /\ UNCHANGED <<vars, mutation, loaderIdle, OtherThreads>>

\* A closed queue raises, and the call fails.
EnqueueGated(a) ==
    /\ At(a, {"enqueue"}, "gated")
    /\ \/ closed /\ UNCHANGED vars
       \/ \E P \in SUBSET Package : Enqueue(P)
    /\ Go(a, "out")
    /\ Release(a)
    /\ UNCHANGED <<mutation, loaderIdle, OtherThreads>>

QueueUnchecked(a) ==    \* faulty variant: does not look at the queue
    /\ At(a, Gated, "gated")
    /\ Go(a, "quiet") /\ UNCHANGED stateLock
    /\ UNCHANGED <<vars, mutation, loaderIdle, OtherThreads>>

QueueQuiet(a) ==
    /\ At(a, Gated, "gated")
    /\ IF Idle THEN Go(a, "quiet") /\ UNCHANGED stateLock
               ELSE Go(a, "out") /\ Release(a)
    /\ UNCHANGED <<vars, mutation, loaderIdle, OtherThreads>>

TryMutationBlocking(a) ==    \* faulty variant: waits for `_mutation_lock` under `_state_lock`
    /\ call[a].at \in {"quiet", "try"}
    /\ mutation = Nobody
    /\ mutation' = a
    /\ Go(a, CASE call[a].op = "install_modloader"    -> "clearing"
               [] call[a].op \in {"remove", "verify"} -> "service"
               [] OTHER                               -> "inside")
    /\ IF call[a].op = "install_modloader" THEN UNCHANGED stateLock ELSE Release(a)
    /\ UNCHANGED <<vars, loaderIdle, OtherThreads>>

\* acquire(blocking=False); only install_modloader has more to do under
\* `_state_lock`, and `remove` and `verify` ask for the service once inside.
TryMutation(a) ==
    /\ call[a].at \in {"quiet", "try"}
    /\ IF mutation = Nobody
       THEN /\ mutation' = a
            /\ Go(a, CASE call[a].op = "install_modloader"    -> "clearing"
                       [] call[a].op \in {"remove", "verify"} -> "service"
                       [] OTHER                               -> "inside")
            /\ IF call[a].op = "install_modloader" THEN UNCHANGED stateLock ELSE Release(a)
       ELSE /\ Go(a, "out")
            /\ Release(a)
            /\ UNCHANGED mutation
    /\ UNCHANGED <<vars, loaderIdle, OtherThreads>>

ClearLoaderIdle(a) ==
    /\ call[a].at = "clearing"
    /\ loaderIdle' = FALSE
    /\ Go(a, "inside")
    /\ Release(a)
    /\ UNCHANGED <<vars, mutation, OtherThreads>>

WorkDoneUnlessFailed(a) ==    \* faulty variant: `_loader_idle` stays clear when the install raises
    /\ call[a].at = "inside"
    /\ loaderIdle' \in {loaderIdle, TRUE}
    /\ Go(a, "leaving")
    /\ UNCHANGED <<vars, stateLock, mutation, OtherThreads>>

\* The work ends, or fails: the `finally` of every operation.
WorkDone(a) ==
    /\ call[a].at = "inside"
    /\ loaderIdle' = (call[a].op = "install_modloader" \/ loaderIdle)
    /\ Go(a, "leaving")
    /\ UNCHANGED <<vars, stateLock, mutation, OtherThreads>>

Leave(a) ==
    /\ call[a].at = "leaving"
    /\ mutation' = Nobody
    /\ Go(a, "out")
    /\ UNCHANGED <<vars, stateLock, loaderIdle, OtherThreads>>

CallStep(a) ==
    \/ Service(a) \/ Gate(a) \/ EnqueueGated(a) \/ QueueQuiet(a)
    \/ TryMutation(a) \/ ClearLoaderIdle(a) \/ WorkDone(a) \/ Leave(a)

\* The queue's two operations that are under no lock but its own.
CancelCall(t) == Cancel(t) /\ UNCHANGED <<locks, threads>>
ClearCall     == ClearCompleted /\ UNCHANGED <<locks, threads>>

-----------------------------------------------------------------------------
(* The queue's worker and its runner                                       *)

Worker ==
    /\ WorkerTake \/ WorkerSleep \/ WorkerExit
    /\ UNCHANGED <<locks, threads>>

RunnerUnlocked ==    \* faulty variant: the private path is not under `_mutation_lock`
    /\ worker = "running"
    /\ runner = "none"
    /\ \/ runner' = "service" /\ UNCHANGED mutation
       \/ runner' = "inside" /\ mutation = Nobody /\ mutation' = "runner"
    /\ UNCHANGED <<vars, stateLock, loaderIdle, call, ui, finisher, update, scheduled>>

\* The runner blocks on `_mutation_lock`; a private package asks for the service
\* while it holds it.
RunnerLock ==
    /\ worker = "running"
    /\ runner = "none"
    /\ mutation = Nobody
    /\ mutation' = "runner"
    /\ runner' \in {"service", "inside"}
    /\ UNCHANGED <<vars, stateLock, loaderIdle, call, ui, finisher, update, scheduled>>

RunnerService ==
    /\ runner = "service"
    /\ stateLock = Nobody
    /\ runner' = "inside"
    /\ UNCHANGED <<vars, locks, call, ui, finisher, update, scheduled>>

RunnerProgress ==
    /\ runner = "inside"
    /\ Progress
    /\ UNCHANGED <<locks, threads>>

RunnerUnlock ==
    /\ runner = "inside"
    /\ mutation' = Nobody
    /\ runner' = "done"
    /\ UNCHANGED <<vars, stateLock, loaderIdle, call, ui, finisher, update, scheduled>>

RunnerReturn ==
    /\ runner = "done"
    /\ Finish
    /\ runner' = "none"
    /\ UNCHANGED <<locks, call, ui, finisher, update, scheduled>>

-----------------------------------------------------------------------------
(* on_closing, in the window's thread                                      *)

Ui(from, to) == ui = from /\ ui' = to
UiOnly       == UNCHANGED <<locks, call, runner, finisher, update, scheduled>>

OnClosing        == Ui("open", "closing") /\ Close("closing") /\ UiOnly
ClosingJoined    == Ui("closing", "idle?") /\ Joined("closing") /\ UiOnly
ClosingTimeout   == Ui("closing", "busy") /\ JoinTimeout("closing") /\ UiOnly

ClosingLoaderIdle ==
    /\ \/ Ui("idle?", "free?") /\ loaderIdle
       \/ Ui("idle?", "busy") /\ ~loaderIdle
    /\ UiOnly /\ UNCHANGED vars

\* `_mutation_lock` is taken and given back at once: the window may go.
ClosingProbe ==
    /\ \/ Ui("free?", "gone") /\ mutation = Nobody
       \/ Ui("free?", "busy") /\ mutation # Nobody
    /\ UiOnly /\ UNCHANGED vars

\* The window stays; the first time, a thread is left to destroy it later.
ClosingSchedule ==
    /\ Ui("busy", "open")
    /\ stateLock = Nobody
    /\ scheduled' = TRUE
    /\ finisher' = IF scheduled THEN finisher ELSE "start"
    /\ UNCHANGED <<vars, locks, call, runner, update>>

-----------------------------------------------------------------------------
(* finish_close and the self-update's finish; window.destroy() closes the  *)
(* window once its thread is free.                                         *)

Finisher(from, to) == finisher = from /\ finisher' = to
FinisherOnly       == UNCHANGED <<locks, call, runner, update, scheduled>>

FinisherClose  == Finisher("start", "joining") /\ Close("finish_close")
                  /\ FinisherOnly /\ UNCHANGED ui
FinisherJoined == Finisher("joining", "idle?") /\ Joined("finish_close")
                  /\ FinisherOnly /\ UNCHANGED ui
FinisherIdle   == Finisher("idle?", "free?") /\ loaderIdle
                  /\ FinisherOnly /\ UNCHANGED <<vars, ui>>
FinisherLock   == Finisher("free?", "destroying") /\ mutation = Nobody
                  /\ FinisherOnly /\ UNCHANGED <<vars, ui>>

DestroyWindow ==
    \/ Ui("open", "gone")
    \/ ui \in {"gone", "draining"} /\ UNCHANGED ui

FinisherDestroysEarly ==    \* faulty variant: finish_close does not wait for the worker
    /\ finisher \in {"joining", "destroying"} /\ finisher' = "done"
    /\ DestroyWindow /\ FinisherOnly /\ UNCHANGED vars

FinisherDestroy == Finisher("destroying", "done") /\ DestroyWindow
                   /\ FinisherOnly /\ UNCHANGED vars

Update(from, to) == update = from /\ update' = to
UpdateOnly       == UNCHANGED <<locks, call, runner, finisher>>

\* apply_manager_update has launched the new version and schedules the exit.
UpdateAsked ==
    /\ Packaged
    /\ Update("none", "start")
    /\ ui \in {"open", "closing", "idle?", "free?", "busy"}
    /\ stateLock = Nobody
    /\ ~scheduled
    /\ scheduled' = TRUE
    /\ UpdateOnly /\ UNCHANGED <<vars, ui>>

UpdateClose   == Update("start", "joining") /\ Close("self_update")
                 /\ UpdateOnly /\ UNCHANGED <<ui, scheduled>>
UpdateJoined  == Update("joining", "destroying")
                 /\ (Joined("self_update") \/ JoinTimeout("self_update"))
                 /\ UpdateOnly /\ UNCHANGED <<ui, scheduled>>
UpdateDestroy == Update("destroying", "exiting") /\ DestroyWindow
                 /\ UpdateOnly /\ UNCHANGED <<vars, scheduled>>
UpdateExit    == Update("exiting", "exited")
                 /\ UpdateOnly /\ UNCHANGED <<vars, ui, scheduled>>

-----------------------------------------------------------------------------
(* on_closed: every wait of it has a timeout; then webview.start() returns. *)

OnClosed      == Ui("gone", "draining") /\ Close("closed") /\ UiOnly

\* The waits for `_loader_idle` and `_mutation_lock` give up or give back what they got.
ClosedReturns == Ui("draining", "over")
                 /\ (Joined("closed") \/ JoinTimeout("closed")) /\ UiOnly

-----------------------------------------------------------------------------

UiStep ==
    \/ ClosingJoined \/ ClosingTimeout \/ ClosingLoaderIdle \/ ClosingProbe
    \/ ClosingSchedule \/ OnClosed \/ ClosedReturns

FinisherStep ==
    FinisherClose \/ FinisherJoined \/ FinisherIdle \/ FinisherLock \/ FinisherDestroy

UpdateStep == UpdateClose \/ UpdateJoined \/ UpdateDestroy \/ UpdateExit

RunnerStep == RunnerLock \/ RunnerService \/ RunnerUnlock \/ RunnerReturn

Running ==
    \/ \E a \in Caller : \E op \in Operation : Begin(a, op)
    \/ \E a \in Caller : CallStep(a)
    \/ \E t \in Task : CancelCall(t)
    \/ ClearCall
    \/ Worker \/ RunnerStep \/ RunnerProgress
    \/ OnClosing \/ UiStep \/ FinisherStep
    \/ UpdateAsked \/ UpdateStep

ClientNext ==
    \/ ~Exited /\ Running
    \/ Exited /\ UNCHANGED allVars    \* the process is gone

ClientSpec == ClientInit /\ [][ClientNext]_allVars

Alive(A) == ~Exited /\ A

\* Threads run.  A thread blocked on a lock or on `_loader_idle` competes each
\* time it is released, hence strong fairness for the steps that take them.
ClientFairness ==
    /\ \A a \in Caller : SF_allVars(Alive(CallStep(a)))
    /\ WF_allVars(Alive(Worker))
    /\ SF_allVars(Alive(RunnerStep))
    /\ SF_allVars(Alive(UiStep))
    /\ SF_allVars(Alive(FinisherStep))
    /\ SF_allVars(Alive(UpdateStep))

FairClientSpec == ClientSpec /\ ClientFairness

-----------------------------------------------------------------------------
(* Properties                                                              *)

ClientTypes == TypeOK /\ ClientTypeOK

InDirectory == {a \in Caller : call[a].at \in {"inside", "leaving"} \/ mutation = a}

\* While a loader is being installed it is alone: the queue holds no task that is
\* waiting or installing, none can be added, and no other operation is in the
\* game directory (installation_controller.py:233-250, 548-557).
LoaderIsAlone ==
    ~loaderIdle =>
        /\ Idle
        /\ runner = "none"
        /\ Cardinality(InDirectory) = 1

\* A queued install and an operation of an API thread are never in the game
\* directory together, nor two operations of API threads: what the records say of
\* a file is not changed by two threads at once.
OneAtATime ==
    Cardinality(InDirectory) + (IF runner \in {"service", "inside"} THEN 1 ELSE 0) <= 1

\* The window only goes by itself or by finish_close when the queue is closed,
\* drained and its worker has ended: no install is cut short by closing the client
\* (web_gui.py:756-780).  (The self-update's exit is another matter.)
WindowGoesDrained ==
    [][ui # "gone" /\ ui' = "gone" /\ update' = update
         => closed /\ worker = "exited" /\ Idle /\ runner = "none"]_allVars

\* Once the user has asked to close and was told to wait, the window goes: a busy
\* loader, a long install or calls still made meanwhile do not hold it for ever.
ClosingEnds ==
    (ui = "busy") ~> (ui = "gone" \/ Exited)

\* No call waits for ever on a lock another thread holds while it waits itself:
\* `_current_service` takes `_state_lock` under `_mutation_lock`, the gates take
\* them the other way round (installation_controller.py:233-239, 619-628, 726).
CallsComeBack ==
    \A a \in Caller : call[a].at # "out" ~> (call[a].at = "out" \/ Exited)

\* The client waits for the install transaction under way before it exits, as the
\* README says; no process exit leaves one half done.
NoInstallIsCutShort ==
    Exited => runner \notin {"service", "inside"}

=============================================================================
