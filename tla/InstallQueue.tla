---------------------------- MODULE InstallQueue ----------------------------
(***************************************************************************)
(* application/install_queue.py: the list of install tasks, its condition  *)
(* variable, its single worker thread, and the threads that call           *)
(* wait_until_idle() and close().                                          *)
(*                                                                         *)
(* Every operation runs under the condition's lock, so each is one step;   *)
(* the runner runs outside the lock, between WorkerTake and Finish.        *)
(* `_entries` is a list to which rows are only ever appended, each with a  *)
(* fresh task id: a task id is here the number of the task in creation     *)
(* order, so the list is the function `entries` and its order is the order *)
(* of the numbers.  What an entry carries for the runner (game path,       *)
(* version range, context) is data no property tells apart.                *)
(***************************************************************************)
EXTENDS Integers, FiniteSets, Functions

CONSTANTS
    Package,    \* the package ids that may be enqueued
    MaxTask,    \* bound: how many tasks are ever created
    Waiter,     \* threads that call wait_until_idle(timeout)
    Closer,     \* threads that call close(timeout)
    Patient     \* the closers that pass timeout=None

ASSUME QueueAssumption ==
    /\ IsFiniteSet(Package)
    /\ MaxTask \in Nat
    /\ Patient \subseteq Closer

VARIABLES
    entries,    \* task -> row, for the tasks in `_entries`
    issued,     \* number of tasks created so far
    closed,     \* `_closed`
    worker,     \* what the worker thread is doing
    current,    \* the worker's local `entry`; 0 when it has none
    waiter,     \* per thread: where it is in wait_until_idle
    closer      \* per thread: where it is in close

vars == <<entries, issued, closed, worker, current, waiter, closer>>

Task      == 1..MaxTask
Active    == {"waiting", "installing"}
Terminal  == {"completed", "failed", "canceled"}
Row       == [pkg : Package, state : Active \cup Terminal,
              message : {"", "progress", "error"}]

NewRowUnset(p) ==    \* faulty variant: no default for the message
    [pkg |-> p, state |-> "waiting", message |-> "None"]

NewRow(p) == [pkg |-> p, state |-> "waiting", message |-> ""]

\* "looking": holds or is about to take the lock; "asleep": in condition.wait().
WorkerState == {"looking", "asleep", "running", "exited"}
WaiterState == {"out", "asleep", "woken", "idle", "timeout"}
CloserState == {"out", "joining", "joined", "gave_up"}

TypeOK ==
    /\ DOMAIN entries \subseteq Task
    /\ entries \in [DOMAIN entries -> Row]
    /\ issued \in 0..MaxTask
    /\ \A t \in DOMAIN entries : t <= issued
    /\ closed \in BOOLEAN
    /\ worker \in WorkerState
    /\ current \in {0} \cup Task
    /\ waiter \in [Waiter -> WaiterState]
    /\ closer \in [Closer -> CloserState]

-----------------------------------------------------------------------------

Rows(states) == {t \in DOMAIN entries : entries[t].state \in states}
Waiting      == Rows({"waiting"})
Busy(p)      == \E t \in Rows({"installing"}) : entries[t].pkg = p
Idle         == Rows(Active) = {}

\* condition.notify_all(): every thread asleep on the condition looks again.
NotifyAll ==
    /\ worker' = IF worker = "asleep" THEN "looking" ELSE worker
    /\ waiter' = [w \in Waiter |-> IF waiter[w] = "asleep" THEN "woken" ELSE waiter[w]]

Init ==
    /\ entries = [t \in {} |-> NewRow(t)]
    /\ issued = 0
    /\ closed = FALSE
    /\ worker = "looking"
    /\ current = 0
    /\ waiter = [w \in Waiter |-> "out"]
    /\ closer = [c \in Closer |-> "out"]

-----------------------------------------------------------------------------
(* enqueue, cancel, clear_completed                                        *)

AcceptedEvenIfBusy(P) == P    \* faulty variant: replaces the running row too

\* The packages of a batch that get a row: not those being installed.
Accepted(P) == {p \in P : ~Busy(p)}

ReplacedIfWaiting(S) ==    \* faulty variant: keeps the rows of finished tasks
    {t \in Waiting : entries[t].pkg \in S}

\* The rows a batch replaces: whatever rows its packages had.
Replaced(S) == {t \in DOMAIN entries : entries[t].pkg \in S}

Enqueue(P) ==
    LET added == Accepted(P)
        fresh == (issued + 1)..(issued + Cardinality(added))
        kept  == DOMAIN entries \ Replaced(added)
    IN  /\ ~closed
        /\ issued + Cardinality(added) <= MaxTask
        /\ \E batch \in Bijection(fresh, added) :    \* in the order of the batch
              entries' = [t \in kept \cup fresh |->
                            IF t \in fresh THEN NewRow(batch[t]) ELSE entries[t]]
        /\ issued' = issued + Cardinality(added)
        /\ NotifyAll
        /\ UNCHANGED <<closed, current, closer>>

Cancel(t) ==
    /\ t \in Waiting
    /\ entries' = [entries EXCEPT ![t].state = "canceled", ![t].message = ""]
    /\ NotifyAll
    /\ UNCHANGED <<issued, closed, current, closer>>

ClearTerminal ==    \* faulty variant: drops failed and canceled rows too
    /\ entries' = [t \in DOMAIN entries \ Rows(Terminal) |-> entries[t]]
    /\ UNCHANGED <<issued, closed, worker, current, waiter, closer>>

ClearCompleted ==
    /\ entries' = [t \in DOMAIN entries \ Rows({"completed"}) |-> entries[t]]
    /\ UNCHANGED <<issued, closed, worker, current, waiter, closer>>

-----------------------------------------------------------------------------
(* wait_until_idle: a thread may call it again after it returned.          *)

WaitCall(w) ==
    /\ waiter[w] \notin {"asleep", "woken"}
    /\ waiter' = [waiter EXCEPT ![w] = IF Idle THEN "idle" ELSE "asleep"]
    /\ UNCHANGED <<entries, issued, closed, worker, current, closer>>

\* Woken by a notification, or by the end of its own timeout.
WaitRecheck(w) ==
    /\ waiter[w] \in {"asleep", "woken"}
    /\ \/ /\ Idle
          /\ waiter' = [waiter EXCEPT ![w] = "idle"]
       \/ /\ ~Idle
          /\ waiter' = [waiter EXCEPT ![w] = "timeout"]
       \/ /\ ~Idle /\ waiter[w] = "woken"
          /\ waiter' = [waiter EXCEPT ![w] = "asleep"]
    /\ UNCHANGED <<entries, issued, closed, worker, current, closer>>

-----------------------------------------------------------------------------
(* close: mark, cancel what waits, then join the worker outside the lock.  *)

CloseQuietly(c) ==    \* faulty variant: forgets notify_all()
    /\ closer[c] # "joining"
    /\ closed' = TRUE
    /\ entries' = [t \in DOMAIN entries |->
                     IF t \in Waiting THEN [entries[t] EXCEPT !.state = "canceled"]
                                      ELSE entries[t]]
    /\ closer' = [closer EXCEPT ![c] = "joining"]
    /\ UNCHANGED <<issued, worker, current, waiter>>

Close(c) ==
    /\ closer[c] # "joining"
    /\ closed' = TRUE
    /\ entries' = [t \in DOMAIN entries |->
                     IF t \in Waiting THEN [entries[t] EXCEPT !.state = "canceled"]
                                      ELSE entries[t]]
    /\ NotifyAll
    /\ closer' = [closer EXCEPT ![c] = "joining"]
    /\ UNCHANGED <<issued, current>>

Joined(c) ==
    /\ closer[c] = "joining"
    /\ worker = "exited"
    /\ closer' = [closer EXCEPT ![c] = "joined"]
    /\ UNCHANGED <<entries, issued, closed, worker, current, waiter>>

JoinTimeoutUnchecked(c) ==    \* faulty variant: does not ask is_alive() after join
    /\ closer[c] = "joining"
    /\ c \notin Patient
    /\ closer' = [closer EXCEPT ![c] = "joined"]
    /\ UNCHANGED <<entries, issued, closed, worker, current, waiter>>

JoinTimeout(c) ==
    /\ closer[c] = "joining"
    /\ worker # "exited"
    /\ c \notin Patient
    /\ closer' = [closer EXCEPT ![c] = "gave_up"]
    /\ UNCHANGED <<entries, issued, closed, worker, current, waiter>>

-----------------------------------------------------------------------------
(* The worker thread.                                                      *)

WorkerTake ==
    /\ worker = "looking"
    /\ \E t \in Waiting :
          /\ \A u \in Waiting : t <= u
          /\ entries' = [entries EXCEPT ![t].state = "installing", ![t].message = ""]
          /\ current' = t
    /\ worker' = "running"
    /\ UNCHANGED <<issued, closed, waiter, closer>>

WorkerSleep ==
    /\ worker = "looking"
    /\ Waiting = {}
    /\ ~closed
    /\ worker' = "asleep"
    /\ UNCHANGED <<entries, issued, closed, current, waiter, closer>>

WorkerExit ==
    /\ worker = "looking"
    /\ Waiting = {}
    /\ closed
    /\ worker' = "exited"
    /\ UNCHANGED <<entries, issued, closed, current, waiter, closer>>

\* The worker writes to its row through its own reference: a row that is no
\* longer in the list changes nothing anyone can see.
SetCurrent(state, message) ==
    entries' = IF current \in DOMAIN entries
               THEN [entries EXCEPT ![current].state = state, ![current].message = message]
               ELSE entries

Progress ==
    /\ worker = "running"
    /\ current \in Rows({"installing"})
    /\ SetCurrent("installing", "progress")
    /\ UNCHANGED <<issued, closed, worker, current, waiter, closer>>

FinishOrDie ==    \* faulty variant: a failed install ends the worker thread
    /\ worker = "running"
    /\ \/ SetCurrent("completed", "") /\ worker' = "looking"
       \/ SetCurrent("failed", "error") /\ worker' = "exited"
    /\ current' = 0
    /\ waiter' = [w \in Waiter |-> IF waiter[w] = "asleep" THEN "woken" ELSE waiter[w]]
    /\ UNCHANGED <<issued, closed, closer>>

Finish ==
    /\ worker = "running"
    /\ SetCurrent("completed", "") \/ SetCurrent("failed", "error")
    /\ current' = 0
    /\ worker' = "looking"
    /\ waiter' = [w \in Waiter |-> IF waiter[w] = "asleep" THEN "woken" ELSE waiter[w]]
    /\ UNCHANGED <<issued, closed, closer>>

-----------------------------------------------------------------------------

WorkerStep == WorkerTake \/ WorkerSleep \/ WorkerExit \/ Finish

Next ==
    \/ \E P \in SUBSET Package : Enqueue(P)
    \/ \E t \in Task : Cancel(t)
    \/ ClearCompleted
    \/ \E w \in Waiter : WaitCall(w) \/ WaitRecheck(w)
    \/ \E c \in Closer : Close(c) \/ Joined(c) \/ JoinTimeout(c)
    \/ WorkerTake \/ WorkerSleep \/ WorkerExit \/ Progress \/ Finish

\* The worker is a running thread and every runner call returns (its network
\* calls have timeouts); a join ends once the worker has.
Fairness ==
    /\ WF_vars(WorkerStep)
    /\ \A c \in Closer : WF_vars(Joined(c))

Spec     == Init /\ [][Next]_vars
FairSpec == Spec /\ Fairness

-----------------------------------------------------------------------------
(* Properties.                                                             *)

\* One package, one row: the pages key their rows by package, and a second
\* request for a package takes over its row (install_queue.py:64-70).
OneRowPerPackage ==
    \A t, u \in DOMAIN entries : entries[t].pkg = entries[u].pkg => t = u

\* While the runner works, its row is in the list and says so, and no other row
\* does: what the table shows agrees with what happens on disk
\* (install_queue.py:65-67, 141-182), whatever is enqueued, canceled or cleared
\* meanwhile.
RunnerHasItsRow ==
    /\ worker = "running" => current \in DOMAIN entries
    /\ \A t \in DOMAIN entries :
          entries[t].state = "installing" <=> (worker = "running" /\ t = current)

\* No lost wakeup: the worker sleeps only while there is nothing for it to do and
\* the queue is open, a caller of wait_until_idle only while a task is active
\* (the wait loops of install_queue.py:112-120 and 143-149).
NoLostWakeup ==
    /\ worker = "asleep" => Waiting = {} /\ ~closed
    /\ \A w \in Waiter : waiter[w] = "asleep" => ~Idle

\* close() answers True only when nothing is installing and nothing will be:
\* on_closing lets the window go on that answer (install_queue.py:126-139).
CloseIsFinal ==
    \A c \in Closer : closer[c] = "joined" =>
        /\ closed
        /\ worker = "exited"
        /\ Idle

\* Every waiting task is eventually installed, canceled or replaced: a failed
\* task, a burst of requests or a close in between does not strand it.
WaitingIsServed ==
    \A t \in Task : t \in Waiting ~> t \notin Waiting

\* close(timeout=None) comes back, and says that the queue is drained.
CloseComesBack ==
    \A c \in Patient : closer[c] = "joining" ~> closer[c] = "joined"

\* What a list of rows shows of each package.
Shown(rows) ==
    [p \in Package |->
       IF \E t \in DOMAIN rows : rows[t].pkg = p
       THEN rows[CHOOSE t \in DOMAIN rows : rows[t].pkg = p].state
       ELSE "none"]

\* The list of rows implements one job per package.
Jobs == INSTANCE PackageJobs WITH job <- Shown(entries), open <- ~closed

\* Each operation of the queue is one step of PackageJobs or invisible to it.
ImplementsPackageJobs == Jobs!JobsSpec

=============================================================================
