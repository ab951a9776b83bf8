-------------------------- MODULE ClientApiProofs --------------------------
(***************************************************************************)
(* Theorems about InstallQueue, for every set of packages, every bound on  *)
(* the number of tasks and every set of calling threads, and about         *)
(* ClientApi, for any callers as well: who is in the game directory, and   *)
(* when the window goes.  A step of the client is a step of the queue or   *)
(* leaves it alone, so the queue's invariant holds for the client too.     *)
(***************************************************************************)
EXTENDS ClientApi, FiniteSetTheorems, TLAPS

(* ------------------------------ the queue ------------------------------ *)
\* The worker ends only after close, and leaves nothing active behind; a thread
\* inside or past close() has marked the queue closed.
ExitedIsDrained == worker = "exited" => closed /\ Idle
CloserHasClosed == \A c \in Closer : closer[c] # "out" => closed

IInv ==
    /\ TypeOK
    /\ OneRowPerPackage
    /\ RunnerHasItsRow
    /\ NoLostWakeup
    /\ ExitedIsDrained
    /\ CloserHasClosed
    /\ CloseIsFinal

-----------------------------------------------------------------------------
(* What the helpers return.                                                *)

\* A batch is finite, so the number of tasks it creates is a number.
LEMMA AcceptedIsFinite ==
    ASSUME NEW P \in SUBSET Package
    PROVE  /\ Accepted(P) \in SUBSET Package
           /\ Cardinality(Accepted(P)) \in Nat
<1>1. IsFiniteSet(Package) BY QueueAssumption
<1>2. Accepted(P) \subseteq Package BY DEF Accepted
<1>3. IsFiniteSet(Accepted(P)) BY <1>1, <1>2, FS_Subset
<1> QED BY <1>2, <1>3, FS_CardinalityType

LEMMA NewRowIsWaiting ==
    ASSUME NEW p \in Package
    PROVE  /\ NewRow(p) \in Row
           /\ NewRow(p).pkg = p
           /\ NewRow(p).state = "waiting"
BY DEF NewRow, Row, Active, Terminal

\* What one enqueue does to the list: every row is a row that stays, of a package
\* outside the batch, or a fresh waiting one; no two fresh ones share a package.
LEMMA EnqueueRows ==
    ASSUME NEW P \in SUBSET Package, TypeOK, Enqueue(P)
    PROVE  LET added == Accepted(P)
               fresh == (issued + 1)..(issued + Cardinality(added))
               kept  == DOMAIN entries \ Replaced(added)
           IN  /\ DOMAIN entries' = kept \cup fresh
               /\ issued' \in issued..MaxTask
               /\ fresh \subseteq Task
               /\ fresh \cap DOMAIN entries = {}
               /\ \A t \in fresh : t <= issued'
               /\ \A t \in kept : entries'[t] = entries[t]
               /\ \A t \in fresh : entries'[t].pkg \in added /\ entries'[t] = NewRow(entries'[t].pkg)
               /\ \A t, u \in fresh : entries'[t].pkg = entries'[u].pkg => t = u
               /\ \A p \in added : \E t \in fresh : entries'[t].pkg = p
<1> DEFINE added == Accepted(P)
           fresh == (issued + 1)..(issued + Cardinality(added))
           kept  == DOMAIN entries \ Replaced(added)
<1>1. Cardinality(added) \in Nat BY AcceptedIsFinite
<1>2. issued \in Nat /\ MaxTask \in Nat /\ DOMAIN entries \subseteq Task
      BY QueueAssumption DEF TypeOK
<1>3. issued' = issued + Cardinality(added) /\ issued' <= MaxTask
      BY DEF Enqueue
<1>4. PICK batch \in Bijection(fresh, added) :
         entries' = [t \in kept \cup fresh |->
                       IF t \in fresh THEN NewRow(batch[t]) ELSE entries[t]]
      BY DEF Enqueue
<1>5. /\ batch \in [fresh -> added]
      /\ \A t, u \in fresh : batch[t] = batch[u] => t = u
      /\ \A p \in added : \E t \in fresh : batch[t] = p
      BY <1>4 DEF Bijection, Injection, Surjection, IsInjective
<1>6. fresh \cap DOMAIN entries = {}
      BY <1>1, <1>2 DEF TypeOK
<1>7. fresh \subseteq Task /\ \A t \in fresh : t <= issued'
      BY <1>1, <1>2, <1>3 DEF Task
<1>8. \A t \in fresh : entries'[t] = NewRow(batch[t])
      BY <1>4
<1>9. \A t \in fresh : entries'[t].pkg = batch[t]
  <2> TAKE t \in fresh
  <2>1. batch[t] \in Package BY <1>5, AcceptedIsFinite
  <2> QED BY <2>1, <1>8, NewRowIsWaiting
<1>10. \A t \in kept : entries'[t] = entries[t]
      BY <1>4, <1>6
<1>11. issued' \in issued..MaxTask
      BY <1>1, <1>2, <1>3
<1>12. DOMAIN entries' = kept \cup fresh
      BY <1>4
<1> QED BY <1>5, <1>6, <1>7, <1>8, <1>9, <1>10, <1>11, <1>12

-----------------------------------------------------------------------------
(* Preservation of the inductive invariant, one lemma per kind of step.    *)

LEMMA InitEstablishes == Init => IInv
<1> SUFFICES ASSUME Init PROVE IInv OBVIOUS
<1>1. DOMAIN entries = {} BY DEF Init
<1>2. TypeOK
  <2>1. entries \in [DOMAIN entries -> Row] BY <1>1 DEF Init
  <2>2. issued = 0 /\ current = 0 /\ closed \in BOOLEAN BY DEF Init
  <2>3. worker \in WorkerState BY DEF Init, WorkerState
  <2>4. waiter \in [Waiter -> WaiterState] BY DEF Init, WaiterState
  <2>5. closer \in [Closer -> CloserState] BY DEF Init, CloserState
  <2>6. issued \in 0..MaxTask BY <2>2, QueueAssumption
  <2> QED BY <1>1, <2>1, <2>2, <2>3, <2>4, <2>5, <2>6 DEF TypeOK
<1>3. OneRowPerPackage /\ RunnerHasItsRow
      BY <1>1 DEF Init, OneRowPerPackage, RunnerHasItsRow
<1>4. NoLostWakeup /\ ExitedIsDrained /\ CloserHasClosed /\ CloseIsFinal
      BY DEF Init, NoLostWakeup, ExitedIsDrained, CloserHasClosed, CloseIsFinal
<1> QED BY <1>2, <1>3, <1>4 DEF IInv

\* A new batch: the rows of what is being installed stay, closed queues take
\* nothing, and every sleeper is woken.
LEMMA EnqueuePreserves ==
    ASSUME NEW P \in SUBSET Package, IInv, Enqueue(P)
    PROVE  IInv'
<1> DEFINE added == Accepted(P)
           fresh == (issued + 1)..(issued + Cardinality(added))
           kept  == DOMAIN entries \ Replaced(added)
<1> USE DEF IInv
<1>1. /\ DOMAIN entries' = kept \cup fresh
      /\ issued' \in issued..MaxTask
      /\ fresh \subseteq Task
      /\ fresh \cap DOMAIN entries = {}
      /\ \A t \in fresh : t <= issued'
      /\ \A t \in kept : entries'[t] = entries[t]
      /\ \A t \in fresh : entries'[t].pkg \in added /\ entries'[t] = NewRow(entries'[t].pkg)
      /\ \A t, u \in fresh : entries'[t].pkg = entries'[u].pkg => t = u
      BY EnqueueRows
<1>2. kept \subseteq DOMAIN entries /\ \A t \in kept : entries[t].pkg \notin added
      BY DEF Replaced
<1>3. ~closed /\ UNCHANGED <<closed, current, closer>> /\ NotifyAll
      BY DEF Enqueue
<1>4. \A t \in fresh : entries'[t] \in Row /\ entries'[t].state = "waiting"
  <2> TAKE t \in fresh
  <2>1. entries'[t].pkg \in Package /\ entries'[t] = NewRow(entries'[t].pkg)
        BY <1>1, AcceptedIsFinite
  <2> QED BY <2>1, NewRowIsWaiting
<1> HIDE DEF added, fresh, kept
<1>5. TypeOK'
  <2>1. entries' \in [DOMAIN entries' -> Row]
    <3>1. \A t \in DOMAIN entries' : entries'[t] \in Row
          BY <1>1, <1>2, <1>4 DEF TypeOK
    <3>2. \E f : entries' = [t \in DOMAIN entries' |-> f[t]]
          BY DEF Enqueue
    <3> QED BY <3>1, <3>2
  <2>2. DOMAIN entries' \subseteq Task /\ issued' \in 0..MaxTask
        BY <1>1, <1>2, QueueAssumption DEF TypeOK
  <2>3. \A t \in DOMAIN entries' : t <= issued'
        BY <1>1, <1>2, QueueAssumption DEF TypeOK, Task
  <2>4. worker' \in WorkerState /\ waiter' \in [Waiter -> WaiterState]
        BY <1>3 DEF TypeOK, NotifyAll, WorkerState, WaiterState
  <2> QED BY <2>1, <2>2, <2>3, <2>4, <1>3 DEF TypeOK
<1>6. OneRowPerPackage'
      BY <1>1, <1>2 DEF OneRowPerPackage
<1>7. RunnerHasItsRow'
  <2>1. worker' = "running" <=> worker = "running"
        BY <1>3 DEF NotifyAll
  <2>2. worker = "running" => current \in kept
    <3> SUFFICES ASSUME worker = "running" PROVE current \notin Replaced(added)
        BY DEF RunnerHasItsRow, kept
    <3>1. current \in DOMAIN entries /\ entries[current].state = "installing"
          BY DEF RunnerHasItsRow
    <3>2. Busy(entries[current].pkg) BY <3>1 DEF Busy, Rows
    <3> QED BY <3>2 DEF Replaced, added, Accepted
  <2> QED BY <1>1, <1>2, <1>3, <1>4, <2>1, <2>2 DEF RunnerHasItsRow, TypeOK
<1>8. NoLostWakeup'
      BY <1>3 DEF NotifyAll, NoLostWakeup, TypeOK
<1>9. ExitedIsDrained' /\ CloserHasClosed' /\ CloseIsFinal'
      BY <1>3 DEF NotifyAll, ExitedIsDrained, CloserHasClosed, CloseIsFinal, TypeOK, CloserState
<1> QED BY <1>5, <1>6, <1>7, <1>8, <1>9

\* The steps that change the state of rows in place, or drop completed ones: the
\* list keeps its packages, and no row is active that was not.
LEMMA CancelPreserves ==
    ASSUME NEW t \in Task, IInv, Cancel(t)
    PROVE  IInv'
<1> USE DEF IInv
<1>1. t \in DOMAIN entries /\ entries[t].state = "waiting" /\ entries[t] \in Row
      BY DEF Cancel, Waiting, Rows, TypeOK
<1>2. /\ DOMAIN entries' = DOMAIN entries
      /\ \A u \in DOMAIN entries : u # t => entries'[u] = entries[u]
      /\ entries'[t] \in Row /\ entries'[t].pkg = entries[t].pkg /\ entries'[t].state = "canceled"
      BY <1>1 DEF Cancel, TypeOK, Row, Active, Terminal
<1>3. UNCHANGED <<issued, closed, current, closer>> /\ NotifyAll
      BY DEF Cancel
<1>4. TypeOK'
  <2>1. entries' \in [DOMAIN entries' -> Row]
        BY <1>1, <1>2 DEF Cancel, TypeOK
  <2> QED BY <1>2, <1>3, <2>1 DEF TypeOK, NotifyAll, WorkerState, WaiterState
<1>5. OneRowPerPackage'
      BY <1>1, <1>2 DEF OneRowPerPackage
<1>6. RunnerHasItsRow'
      BY <1>1, <1>2, <1>3 DEF RunnerHasItsRow, NotifyAll
<1>7. NoLostWakeup'
      BY <1>3 DEF NotifyAll, NoLostWakeup, TypeOK
<1>8. ExitedIsDrained'
      BY <1>1, <1>3 DEF NotifyAll, ExitedIsDrained, Idle, Rows, Active
<1>9. CloserHasClosed' /\ CloseIsFinal'
  <2>1. worker # "exited" /\ \A c \in Closer : closer[c] # "joined"
        BY <1>1 DEF ExitedIsDrained, CloseIsFinal, Idle, Rows, Active
  <2> QED BY <1>3, <2>1 DEF CloserHasClosed, CloseIsFinal
<1> QED BY <1>4, <1>5, <1>6, <1>7, <1>8, <1>9

LEMMA ClearCompletedPreserves ==
    ASSUME IInv, ClearCompleted
    PROVE  IInv'
<1> USE DEF IInv
<1>1. /\ DOMAIN entries' = DOMAIN entries \ Rows({"completed"})
      /\ \A t \in DOMAIN entries' : entries'[t] = entries[t]
      /\ UNCHANGED <<issued, closed, worker, current, waiter, closer>>
      BY DEF ClearCompleted
<1>2. TypeOK'
  <2>1. entries' \in [DOMAIN entries' -> Row]
        BY <1>1 DEF ClearCompleted, TypeOK
  <2> QED BY <1>1, <2>1 DEF TypeOK
<1>3. OneRowPerPackage'
      BY <1>1 DEF OneRowPerPackage
<1>4. \A t \in DOMAIN entries : entries[t].state \in Active => t \in DOMAIN entries'
      BY <1>1 DEF Rows, Active
<1>5. RunnerHasItsRow'
      BY <1>1, <1>4 DEF RunnerHasItsRow, Active
<1>6. Idle' <=> Idle
      BY <1>1, <1>4 DEF Idle, Rows
<1>7. Waiting = {} => Waiting' = {}
      BY <1>1 DEF Waiting, Rows
<1> QED BY <1>1, <1>2, <1>3, <1>5, <1>6, <1>7
        DEF NoLostWakeup, ExitedIsDrained, CloserHasClosed, CloseIsFinal

LEMMA ClosePreserves ==
    ASSUME NEW c \in Closer, IInv, Close(c)
    PROVE  IInv'
<1> USE DEF IInv
<1>1. /\ DOMAIN entries' = DOMAIN entries
      /\ \A t \in DOMAIN entries :
            entries'[t] = IF t \in Waiting THEN [entries[t] EXCEPT !.state = "canceled"]
                                           ELSE entries[t]
      BY DEF Close
<1>2. closed' /\ UNCHANGED <<issued, current>> /\ NotifyAll
      /\ closer' = [closer EXCEPT ![c] = "joining"]
      BY DEF Close
<1>3. \A t \in DOMAIN entries :
        /\ entries'[t] \in Row /\ entries'[t].pkg = entries[t].pkg
        /\ entries'[t].state # "waiting"
        /\ entries'[t].state = "installing" <=> entries[t].state = "installing"
  <2> TAKE t \in DOMAIN entries
  <2>1. entries[t] \in Row BY DEF TypeOK
  <2>2. CASE t \in Waiting
    <3>1. entries'[t] = [entries[t] EXCEPT !.state = "canceled"] BY <1>1, <2>2
    <3> QED BY <2>1, <2>2, <3>1 DEF Waiting, Rows, Row, Terminal
  <2>3. CASE t \notin Waiting
        BY <1>1, <2>1, <2>3 DEF Waiting, Rows
  <2> QED BY <2>2, <2>3
<1>4. TypeOK'
  <2>1. entries' \in [DOMAIN entries' -> Row]
        BY <1>1, <1>3 DEF Close
  <2> QED BY <1>1, <1>2, <2>1 DEF TypeOK, NotifyAll, WorkerState, WaiterState, CloserState
<1>5. OneRowPerPackage'
      BY <1>1, <1>3 DEF OneRowPerPackage
<1>6. RunnerHasItsRow'
      BY <1>1, <1>2, <1>3 DEF RunnerHasItsRow, NotifyAll
<1>7. NoLostWakeup'
      BY <1>2 DEF NotifyAll, NoLostWakeup, TypeOK
<1>8. Idle => Idle'
      BY <1>1, <1>3 DEF Idle, Rows, Active
<1>9. ExitedIsDrained' /\ CloserHasClosed' /\ CloseIsFinal'
      BY <1>2, <1>8 DEF NotifyAll, ExitedIsDrained, CloserHasClosed, CloseIsFinal, TypeOK
<1> QED BY <1>4, <1>5, <1>6, <1>7, <1>9

\* wait_until_idle, join and the sleeping worker do not touch the list.
LEMMA WaitPreserves ==
    ASSUME NEW w \in Waiter, IInv, WaitCall(w) \/ WaitRecheck(w)
    PROVE  IInv'
<1> USE DEF IInv
<1>1. UNCHANGED <<entries, issued, closed, worker, current, closer>>
      BY DEF WaitCall, WaitRecheck
<1>2. \E s \in WaiterState : /\ waiter' = [waiter EXCEPT ![w] = s]
                             /\ s = "asleep" => ~Idle
      BY DEF WaitCall, WaitRecheck, WaiterState
<1>3. TypeOK' BY <1>1, <1>2 DEF TypeOK
<1>4. Idle' = Idle /\ Waiting' = Waiting
      BY <1>1 DEF Idle, Waiting, Rows
<1>5. NoLostWakeup' BY <1>1, <1>2, <1>4 DEF NoLostWakeup, TypeOK
<1>6. OneRowPerPackage' /\ RunnerHasItsRow'
      BY <1>1 DEF OneRowPerPackage, RunnerHasItsRow
<1>7. ExitedIsDrained' /\ CloserHasClosed' /\ CloseIsFinal'
      BY <1>1, <1>4 DEF ExitedIsDrained, CloserHasClosed, CloseIsFinal
<1> QED BY <1>3, <1>5, <1>6, <1>7

LEMMA JoinPreserves ==
    ASSUME NEW c \in Closer, IInv, Joined(c) \/ JoinTimeout(c)
    PROVE  IInv'
<1> USE DEF IInv
<1>1. UNCHANGED <<entries, issued, closed, worker, current, waiter>>
      BY DEF Joined, JoinTimeout
<1>2. \E s \in CloserState : /\ closer[c] = "joining"
                             /\ closer' = [closer EXCEPT ![c] = s]
                             /\ s = "joined" => worker = "exited"
      BY DEF Joined, JoinTimeout, CloserState
<1>3. TypeOK' BY <1>1, <1>2 DEF TypeOK
<1>4. Idle' = Idle /\ Waiting' = Waiting
      BY <1>1 DEF Idle, Waiting, Rows
<1>5. CloserHasClosed' BY <1>1, <1>2 DEF CloserHasClosed, TypeOK
<1>6. CloseIsFinal'
      BY <1>1, <1>2, <1>4 DEF CloseIsFinal, ExitedIsDrained, TypeOK
<1>7. OneRowPerPackage' /\ RunnerHasItsRow' /\ NoLostWakeup' /\ ExitedIsDrained'
      BY <1>1, <1>4 DEF OneRowPerPackage, RunnerHasItsRow, NoLostWakeup, ExitedIsDrained
<1> QED BY <1>3, <1>5, <1>6, <1>7

LEMMA WorkerRestPreserves ==
    ASSUME IInv, WorkerSleep \/ WorkerExit
    PROVE  IInv'
<1> USE DEF IInv
<1>1. /\ UNCHANGED <<entries, issued, closed, current, waiter, closer>>
      /\ worker = "looking" /\ Waiting = {}
      /\ \/ worker' = "asleep" /\ ~closed
         \/ worker' = "exited" /\ closed
      BY DEF WorkerSleep, WorkerExit
<1>2. Idle' = Idle /\ Waiting' = Waiting
      BY <1>1 DEF Idle, Waiting, Rows
<1>3. Idle
      BY <1>1 DEF Idle, Waiting, Rows, Active, RunnerHasItsRow
<1>4. TypeOK' BY <1>1 DEF TypeOK, WorkerState
<1>5. OneRowPerPackage' /\ CloserHasClosed'
      BY <1>1 DEF OneRowPerPackage, CloserHasClosed
<1>6. RunnerHasItsRow' BY <1>1 DEF RunnerHasItsRow
<1>7. NoLostWakeup' /\ ExitedIsDrained' /\ CloseIsFinal'
      BY <1>1, <1>2, <1>3 DEF NoLostWakeup, ExitedIsDrained, CloseIsFinal
<1> QED BY <1>4, <1>5, <1>6, <1>7

LEMMA WorkerTakePreserves ==
    ASSUME IInv, WorkerTake
    PROVE  IInv'
<1> USE DEF IInv
<1>1. PICK t \in Waiting :
         /\ entries' = [entries EXCEPT ![t].state = "installing", ![t].message = ""]
         /\ current' = t
      BY DEF WorkerTake
<1>2. /\ UNCHANGED <<issued, closed, waiter, closer>>
      /\ worker = "looking" /\ worker' = "running"
      BY DEF WorkerTake
<1>3. t \in DOMAIN entries /\ entries[t] \in Row /\ entries[t].state = "waiting" /\ t \in Task
      BY DEF Waiting, Rows, TypeOK
<1>4. /\ DOMAIN entries' = DOMAIN entries
      /\ \A u \in DOMAIN entries : u # t => entries'[u] = entries[u]
      /\ entries'[t] \in Row /\ entries'[t].pkg = entries[t].pkg
      /\ entries'[t].state = "installing"
      BY <1>1, <1>3 DEF TypeOK, Row, Active, Terminal
<1>5. TypeOK'
  <2>1. entries' \in [DOMAIN entries' -> Row]
        BY <1>1, <1>3, <1>4 DEF TypeOK
  <2> QED BY <1>1, <1>2, <1>3, <1>4, <2>1 DEF TypeOK, WorkerState
<1>6. OneRowPerPackage' BY <1>3, <1>4 DEF OneRowPerPackage
<1>7. RunnerHasItsRow' BY <1>1, <1>2, <1>3, <1>4 DEF RunnerHasItsRow
<1>8. ~Idle' BY <1>3, <1>4 DEF Idle, Rows, Active
<1>9. NoLostWakeup' /\ ExitedIsDrained' /\ CloserHasClosed'
      BY <1>2, <1>8 DEF NoLostWakeup, ExitedIsDrained, CloserHasClosed
<1>10. CloseIsFinal' BY <1>2 DEF CloseIsFinal
<1> QED BY <1>5, <1>6, <1>7, <1>9, <1>10

\* What the worker writes to the row it is installing.
LEMMA RunnerStepPreserves ==
    ASSUME IInv, Progress \/ Finish
    PROVE  IInv'
<1> USE DEF IInv
<1>1. /\ worker = "running" /\ UNCHANGED <<issued, closed, closer>>
      /\ \/ worker' = "running" /\ UNCHANGED <<current, waiter>>
         \/ /\ worker' = "looking" /\ current' = 0
            /\ waiter' = [w \in Waiter |-> IF waiter[w] = "asleep" THEN "woken" ELSE waiter[w]]
      BY DEF Progress, Finish
<1>2. /\ current \in DOMAIN entries /\ current \in Task
      /\ entries[current] \in Row /\ entries[current].state = "installing"
      BY <1>1 DEF RunnerHasItsRow, TypeOK
<1>3. PICK s \in {"installing", "completed", "failed"}, m \in {"", "progress", "error"} :
         /\ entries' = [entries EXCEPT ![current].state = s, ![current].message = m]
         /\ s = "installing" <=> worker' = "running"
      BY <1>1, <1>2 DEF Progress, Finish, SetCurrent
<1>4. /\ DOMAIN entries' = DOMAIN entries
      /\ \A u \in DOMAIN entries : u # current => entries'[u] = entries[u]
      /\ entries'[current] \in Row /\ entries'[current].pkg = entries[current].pkg
      /\ entries'[current].state = s
      BY <1>2, <1>3 DEF TypeOK, Row, Active, Terminal
<1>5. TypeOK'
  <2>1. entries' \in [DOMAIN entries' -> Row]
        BY <1>2, <1>3, <1>4 DEF TypeOK
  <2>2. waiter' \in [Waiter -> WaiterState]
        BY <1>1 DEF TypeOK, WaiterState
  <2> QED BY <1>1, <1>2, <1>4, <2>1, <2>2 DEF TypeOK, WorkerState
<1>6. OneRowPerPackage' BY <1>2, <1>4 DEF OneRowPerPackage
<1>7. RunnerHasItsRow' BY <1>1, <1>2, <1>3, <1>4 DEF RunnerHasItsRow
<1>8. s = "installing" => ~Idle'
      BY <1>2, <1>4 DEF Idle, Rows, Active
<1>9. NoLostWakeup' BY <1>1, <1>3, <1>8 DEF NoLostWakeup, TypeOK
<1>10. ExitedIsDrained' /\ CloserHasClosed' /\ CloseIsFinal'
      BY <1>1 DEF ExitedIsDrained, CloserHasClosed, CloseIsFinal
<1> QED BY <1>5, <1>6, <1>7, <1>9, <1>10

-----------------------------------------------------------------------------
(* The invariants of InstallQueue, for every instance.                     *)

LEMMA StepPreserves == IInv /\ [Next]_vars => IInv'
<1> SUFFICES ASSUME IInv, [Next]_vars PROVE IInv' OBVIOUS
<1>1. ASSUME NEW P \in SUBSET Package, Enqueue(P) PROVE IInv'
      BY <1>1, EnqueuePreserves
<1>2. ASSUME NEW t \in Task, Cancel(t) PROVE IInv'
      BY <1>2, CancelPreserves
<1>3. CASE ClearCompleted BY <1>3, ClearCompletedPreserves
<1>4. ASSUME NEW w \in Waiter, WaitCall(w) \/ WaitRecheck(w) PROVE IInv'
      BY <1>4, WaitPreserves
<1>5. ASSUME NEW c \in Closer, Close(c) PROVE IInv'
      BY <1>5, ClosePreserves
<1>6. ASSUME NEW c \in Closer, Joined(c) \/ JoinTimeout(c) PROVE IInv'
      BY <1>6, JoinPreserves
<1>7. CASE WorkerTake BY <1>7, WorkerTakePreserves
<1>8. CASE WorkerSleep \/ WorkerExit BY <1>8, WorkerRestPreserves
<1>9. CASE Progress \/ Finish BY <1>9, RunnerStepPreserves
<1>10. CASE UNCHANGED vars
      BY <1>10 DEF vars, IInv, TypeOK, OneRowPerPackage, RunnerHasItsRow, NoLostWakeup,
                   ExitedIsDrained, CloserHasClosed, CloseIsFinal, Idle, Waiting, Rows
<1> QED BY <1>1, <1>2, <1>3, <1>4, <1>5, <1>6, <1>7, <1>8, <1>9, <1>10 DEF Next

LEMMA Invariance == Spec => []IInv
<1> QED BY InitEstablishes, StepPreserves, PTL DEF Spec

\* The rows, the worker and the callers only take the values they are meant to.
THEOREM TypeCorrect == Spec => []TypeOK
<1>1. IInv => TypeOK BY DEF IInv
<1> QED BY <1>1, Invariance, PTL

\* However requests, cancellations and completions interleave, a package has one row.
THEOREM RowsAreUnique == Spec => []OneRowPerPackage
<1>1. IInv => OneRowPerPackage BY DEF IInv
<1> QED BY <1>1, Invariance, PTL

\* The row the runner works on stays in the list as the only installing one.
THEOREM RunnerKeepsItsRow == Spec => []RunnerHasItsRow
<1>1. IInv => RunnerHasItsRow BY DEF IInv
<1> QED BY <1>1, Invariance, PTL

\* Nobody sleeps on the condition while there is something to do.
THEOREM WakeupsAreNotLost == Spec => []NoLostWakeup
<1>1. IInv => NoLostWakeup BY DEF IInv
<1> QED BY <1>1, Invariance, PTL

\* When close() says the worker is gone, nothing is or will be installing.
THEOREM CloseIsTrustworthy == Spec => []CloseIsFinal
<1>1. IInv => CloseIsFinal BY DEF IInv
<1> QED BY <1>1, Invariance, PTL

-----------------------------------------------------------------------------
(* The refinement: the list of rows implements one job per package.        *)

Unique(rows) == \A t, u \in DOMAIN rows : rows[t].pkg = rows[u].pkg => t = u

\* With one row per package, a package is shown as its row says.
LEMMA ShownIsRow ==
    ASSUME NEW rows, Unique(rows),
           NEW t \in DOMAIN rows, rows[t].pkg \in Package
    PROVE  Shown(rows)[rows[t].pkg] = rows[t].state
<1> DEFINE p == rows[t].pkg
           c == CHOOSE u \in DOMAIN rows : rows[u].pkg = p
<1>1. c \in DOMAIN rows /\ rows[c].pkg = p OBVIOUS
<1>2. c = t BY <1>1 DEF Unique
<1> QED BY <1>2 DEF Shown

LEMMA ShownIsNone ==
    ASSUME NEW rows, NEW p \in Package, \A t \in DOMAIN rows : rows[t].pkg # p
    PROVE  Shown(rows)[p] = "none"
BY DEF Shown

\* A package whose row stays what it is is shown as before.
LEMMA ShownStays ==
    ASSUME NEW rows, NEW others, Unique(rows), Unique(others), NEW p \in Package,
           \A t \in DOMAIN rows : rows[t].pkg = p =>
               t \in DOMAIN others /\ others[t].pkg = p /\ others[t].state = rows[t].state,
           \A t \in DOMAIN others : others[t].pkg = p => t \in DOMAIN rows /\ rows[t].pkg = p
    PROVE  Shown(others)[p] = Shown(rows)[p]
<1>1. CASE \E t \in DOMAIN rows : rows[t].pkg = p
  <2>1. PICK t \in DOMAIN rows : rows[t].pkg = p BY <1>1
  <2>2. t \in DOMAIN others /\ others[t].pkg = p /\ others[t].state = rows[t].state BY <2>1
  <2>3. Shown(rows)[p] = rows[t].state BY <2>1, ShownIsRow
  <2>4. Shown(others)[p] = others[t].state BY <2>2, ShownIsRow
  <2> QED BY <2>2, <2>3, <2>4
<1>2. CASE ~ \E t \in DOMAIN rows : rows[t].pkg = p
  <2>1. Shown(rows)[p] = "none" BY <1>2, ShownIsNone
  <2>2. \A t \in DOMAIN others : others[t].pkg # p BY <1>2
  <2>3. Shown(others)[p] = "none" BY <2>2, ShownIsNone
  <2> QED BY <2>1, <2>3
<1> QED BY <1>1, <1>2

LEMMA ShownIsFunction ==
    ASSUME NEW rows
    PROVE  Shown(rows) = [p \in Package |-> Shown(rows)[p]]
BY DEF Shown

\* One row changes its state: so does what is shown of its package, and nothing else.
LEMMA ShownChanges ==
    ASSUME NEW rows, NEW others, Unique(rows), NEW t \in DOMAIN rows,
           \A u \in DOMAIN rows : rows[u].pkg \in Package,
           DOMAIN others = DOMAIN rows, others[t].pkg = rows[t].pkg,
           \A u \in DOMAIN rows : u # t => others[u] = rows[u]
    PROVE  /\ Shown(rows)[rows[t].pkg] = rows[t].state
           /\ Shown(others) = [Shown(rows) EXCEPT ![rows[t].pkg] = others[t].state]
<1> DEFINE p == rows[t].pkg
<1>1. Unique(others) BY DEF Unique
<1>2. Shown(rows)[p] = rows[t].state /\ Shown(others)[p] = others[t].state
      BY <1>1, ShownIsRow
<1>3. \A q \in Package \ {p} : Shown(others)[q] = Shown(rows)[q]
  <2> TAKE q \in Package \ {p}
  <2>1. \A u \in DOMAIN rows : rows[u].pkg = q => others[u] = rows[u] OBVIOUS
  <2>2. \A u \in DOMAIN others : others[u].pkg = q => rows[u].pkg = q OBVIOUS
  <2> QED BY <1>1, <2>1, <2>2, ShownStays
<1>4. [Shown(rows) EXCEPT ![p] = others[t].state] =
        [q \in Package |-> IF q = p THEN others[t].state ELSE Shown(rows)[q]]
      BY ShownIsFunction
<1> QED BY <1>2, <1>3, <1>4, ShownIsFunction

\* Rows are unique before and after a step, and name packages.
LEMMA RowsOfInvariant ==
    ASSUME IInv
    PROVE  Unique(entries) /\ \A t \in DOMAIN entries : entries[t].pkg \in Package
BY DEF IInv, OneRowPerPackage, Unique, TypeOK, Row

LEMMA EnqueueIsRequest ==
    ASSUME NEW P \in SUBSET Package, IInv, IInv', Enqueue(P)
    PROVE  Jobs!Request(Accepted(P))
<1> DEFINE S == Accepted(P)
           fresh == (issued + 1)..(issued + Cardinality(S))
           kept  == DOMAIN entries \ Replaced(S)
<1> USE RowsOfInvariant
<1>0. Unique(entries') /\ \A t \in DOMAIN entries' : entries'[t].pkg \in Package
      BY DEF IInv, OneRowPerPackage, Unique, TypeOK, Row
<1>1. /\ DOMAIN entries' = kept \cup fresh
      /\ fresh \cap DOMAIN entries = {}
      /\ \A t \in kept : entries'[t] = entries[t]
      /\ \A t \in fresh : entries'[t].pkg \in S /\ entries'[t] = NewRow(entries'[t].pkg)
      /\ \A p \in S : \E t \in fresh : entries'[t].pkg = p
      BY EnqueueRows DEF IInv
<1>2. ~closed /\ closed' = closed BY DEF Enqueue
<1>3. \A p \in S : Shown(entries)[p] # "installing"
  <2> TAKE p \in S
  <2>1. p \in Package /\ ~Busy(p) BY DEF Accepted
  <2>2. CASE \E t \in DOMAIN entries : entries[t].pkg = p
    <3>1. PICK t \in DOMAIN entries : entries[t].pkg = p BY <2>2
    <3>2. entries[t].state # "installing" BY <2>1, <3>1 DEF Busy, Rows
    <3> QED BY <3>1, <3>2, ShownIsRow
  <2>3. CASE \A t \in DOMAIN entries : entries[t].pkg # p
        BY <2>1, <2>3, ShownIsNone
  <2> QED BY <2>2, <2>3
<1>4. \A p \in Package :
        Shown(entries')[p] = IF p \in S THEN "waiting" ELSE Shown(entries)[p]
  <2> TAKE p \in Package
  <2>1. CASE p \in S
    <3>1. PICK t \in fresh : entries'[t].pkg = p BY <1>1, <2>1
    <3>2. entries'[t].state = "waiting" BY <1>1, <3>1, NewRowIsWaiting
    <3> QED BY <1>0, <1>1, <2>1, <3>1, <3>2, ShownIsRow
  <2>2. CASE p \notin S
    <3>1. \A t \in DOMAIN entries : entries[t].pkg = p =>
            t \in DOMAIN entries' /\ entries'[t] = entries[t]
          BY <1>1, <2>2 DEF Replaced
    <3>2. \A t \in DOMAIN entries' : entries'[t].pkg = p =>
            t \in DOMAIN entries /\ entries[t].pkg = p
          BY <1>1, <2>2
    <3> QED BY <1>0, <2>2, <3>1, <3>2, ShownStays
  <2> QED BY <2>1, <2>2
<1>5. Shown(entries') = [p \in Package |-> IF p \in S THEN "waiting" ELSE Shown(entries)[p]]
      BY <1>4, ShownIsFunction
<1> QED BY <1>2, <1>3, <1>5 DEF Jobs!Request

LEMMA CancelIsWithdraw ==
    ASSUME NEW t \in Task, IInv, Cancel(t)
    PROVE  Jobs!Withdraw(entries[t].pkg)
<1>1. t \in DOMAIN entries /\ entries[t].state = "waiting" /\ closed' = closed
      BY DEF Cancel, Waiting, Rows
<1>2. /\ DOMAIN entries' = DOMAIN entries
      /\ entries'[t].pkg = entries[t].pkg /\ entries'[t].state = "canceled"
      /\ \A u \in DOMAIN entries : u # t => entries'[u] = entries[u]
      BY <1>1 DEF Cancel, IInv, TypeOK, Row
<1>3. /\ Shown(entries)[entries[t].pkg] = "waiting"
      /\ Shown(entries') = [Shown(entries) EXCEPT ![entries[t].pkg] = "canceled"]
      BY <1>1, <1>2, RowsOfInvariant, ShownChanges
<1> QED BY <1>1, <1>3 DEF Jobs!Withdraw

LEMMA ClearIsForget ==
    ASSUME IInv, IInv', ClearCompleted
    PROVE  Jobs!Forget
<1>0. Unique(entries) /\ Unique(entries') /\ \A u \in DOMAIN entries : entries[u].pkg \in Package
      BY DEF IInv, OneRowPerPackage, Unique, TypeOK, Row
<1>1. /\ DOMAIN entries' = {u \in DOMAIN entries : entries[u].state # "completed"}
      /\ \A u \in DOMAIN entries' : entries'[u] = entries[u]
      /\ closed' = closed
      BY DEF ClearCompleted, Rows
<1>2. \A p \in Package : Shown(entries')[p] =
        IF Shown(entries)[p] = "completed" THEN "none" ELSE Shown(entries)[p]
  <2> TAKE p \in Package
  <2>1. CASE \E t \in DOMAIN entries : entries[t].pkg = p
    <3>1. PICK t \in DOMAIN entries : entries[t].pkg = p BY <2>1
    <3>2. Shown(entries)[p] = entries[t].state BY <1>0, <3>1, ShownIsRow
    <3>3. CASE entries[t].state = "completed"
      <4>1. \A u \in DOMAIN entries' : entries'[u].pkg # p BY <1>0, <1>1, <3>1, <3>3 DEF Unique
      <4> QED BY <3>2, <3>3, <4>1, ShownIsNone
    <3>4. CASE entries[t].state # "completed"
          BY <1>0, <1>1, <3>1, <3>2, <3>4, ShownIsRow
    <3> QED BY <3>3, <3>4
  <2>2. CASE \A t \in DOMAIN entries : entries[t].pkg # p
    <3>1. \A u \in DOMAIN entries' : entries'[u].pkg # p BY <1>1, <2>2
    <3> QED BY <2>2, <3>1, ShownIsNone
  <2> QED BY <2>1, <2>2
<1>3. Shown(entries') = [p \in Package |->
        IF Shown(entries)[p] = "completed" THEN "none" ELSE Shown(entries)[p]]
      BY <1>2, ShownIsFunction
<1> QED BY <1>1, <1>3 DEF Jobs!Forget

LEMMA CloseIsShut ==
    ASSUME NEW c \in Closer, IInv, IInv', Close(c)
    PROVE  Jobs!Shut
<1>0. Unique(entries) /\ Unique(entries') /\ \A u \in DOMAIN entries : entries[u].pkg \in Package
      BY DEF IInv, OneRowPerPackage, Unique, TypeOK, Row
<1>1. /\ closed' = TRUE /\ DOMAIN entries' = DOMAIN entries
      /\ \A u \in DOMAIN entries :
           /\ entries'[u].pkg = entries[u].pkg
           /\ entries'[u].state = IF entries[u].state = "waiting" THEN "canceled" ELSE entries[u].state
      BY DEF Close, Waiting, Rows, IInv, TypeOK, Row
<1>2. \A p \in Package : Shown(entries')[p] =
        IF Shown(entries)[p] = "waiting" THEN "canceled" ELSE Shown(entries)[p]
  <2> TAKE p \in Package
  <2>1. CASE \E t \in DOMAIN entries : entries[t].pkg = p
        BY <1>0, <1>1, <2>1, ShownIsRow
  <2>2. CASE \A t \in DOMAIN entries : entries[t].pkg # p
        BY <1>1, <2>2, ShownIsNone
  <2> QED BY <2>1, <2>2
<1>3. Shown(entries') = [p \in Package |->
        IF Shown(entries)[p] = "waiting" THEN "canceled" ELSE Shown(entries)[p]]
      BY <1>2, ShownIsFunction
<1> QED BY <1>1, <1>3 DEF Jobs!Shut

Written(t, state, message) ==
    entries' = [entries EXCEPT ![t].state = state, ![t].message = message]

\* What a write of the worker or the runner to its row makes of what is shown.
LEMMA RowChanges ==
    ASSUME IInv, NEW t \in DOMAIN entries, NEW state, NEW message,
           Written(t, state, message)
    PROVE  /\ entries[t].pkg \in Package
           /\ Shown(entries)[entries[t].pkg] = entries[t].state
           /\ Shown(entries') = [Shown(entries) EXCEPT ![entries[t].pkg] = state]
<1>1. /\ DOMAIN entries' = DOMAIN entries
      /\ entries'[t].pkg = entries[t].pkg /\ entries'[t].state = state
      /\ \A u \in DOMAIN entries : u # t => entries'[u] = entries[u]
      BY DEF IInv, TypeOK, Row, Written
<1> QED BY <1>1, RowsOfInvariant, ShownChanges

\* One runner at a time is what makes taking a row a start of the abstract job.
LEMMA TakeIsStart ==
    ASSUME IInv, WorkerTake
    PROVE  \E p \in Package : Jobs!Start(p)
<1>1. PICK t \in Waiting :
        entries' = [entries EXCEPT ![t].state = "installing", ![t].message = ""]
      BY DEF WorkerTake
<1>2. t \in DOMAIN entries /\ entries[t].state = "waiting" BY DEF Waiting, Rows
<1>3. \A q \in Package : Shown(entries)[q] # "installing"
  <2> TAKE q \in Package
  <2>1. \A u \in DOMAIN entries : entries[u].state # "installing"
        BY DEF WorkerTake, IInv, RunnerHasItsRow
  <2>2. Unique(entries) BY RowsOfInvariant
  <2>3. CASE \E u \in DOMAIN entries : entries[u].pkg = q
        BY <2>1, <2>2, <2>3, ShownIsRow
  <2>4. CASE \A u \in DOMAIN entries : entries[u].pkg # q
        BY <2>4, ShownIsNone
  <2> QED BY <2>3, <2>4
<1>4. closed' = closed BY DEF WorkerTake
<1> QED BY <1>1, <1>2, <1>3, <1>4, RowChanges DEF Jobs!Start, Written

\* The row the runner worked on is still there when it ends.
LEMMA FinishIsEnd ==
    ASSUME IInv, Finish
    PROVE  \E p \in Package : Jobs!End(p)
<1>1. current \in DOMAIN entries /\ entries[current].state = "installing"
      BY DEF Finish, IInv, RunnerHasItsRow
<1>2. PICK result \in {"completed", "failed"}, message \in {"", "error"} :
        entries' = [entries EXCEPT ![current].state = result, ![current].message = message]
      BY <1>1 DEF Finish, SetCurrent
<1>3. closed' = closed BY DEF Finish
<1> DEFINE p == entries[current].pkg
<1>4. /\ p \in Package /\ Shown(entries)[p] = "installing"
      /\ Shown(entries') = [Shown(entries) EXCEPT ![p] = result]
      BY <1>1, <1>2, RowChanges DEF Written
<1> QED BY <1>3, <1>4 DEF Jobs!End

LEMMA ProgressIsHidden ==
    ASSUME IInv, Progress
    PROVE  UNCHANGED Jobs!jobVars
<1>1. current \in DOMAIN entries /\ entries[current].state = "installing" BY DEF Progress, Rows
<1>2. entries' = [entries EXCEPT ![current].state = "installing", ![current].message = "progress"]
      BY <1>1 DEF Progress, SetCurrent
<1> DEFINE p == entries[current].pkg
<1>3. /\ p \in Package /\ Shown(entries)[p] = "installing"
      /\ Shown(entries') = [Shown(entries) EXCEPT ![p] = "installing"]
      BY <1>1, <1>2, RowChanges DEF Written
<1>4. \A q \in Package : [Shown(entries) EXCEPT ![p] = "installing"][q] = Shown(entries)[q]
      BY <1>3 DEF Shown
<1>5. Shown(entries') = Shown(entries) BY <1>3, <1>4, ShownIsFunction
<1> QED BY <1>5 DEF Jobs!jobVars, Progress

LEMMA StepIsAJobStep == IInv /\ IInv' /\ [Next]_vars => [Jobs!JobsNext]_Jobs!jobVars
<1> SUFFICES ASSUME IInv, IInv', [Next]_vars PROVE [Jobs!JobsNext]_Jobs!jobVars OBVIOUS
<1>1. ASSUME NEW P \in SUBSET Package, Enqueue(P) PROVE Jobs!JobsNext
  <2>1. Accepted(P) \in SUBSET Package BY DEF Accepted
  <2> QED BY <1>1, <2>1, EnqueueIsRequest DEF Jobs!JobsNext
<1>2. ASSUME NEW t \in Task, Cancel(t) PROVE Jobs!JobsNext
  <2>1. entries[t].pkg \in Package BY <1>2, RowsOfInvariant DEF Cancel, Waiting, Rows
  <2> QED BY <1>2, <2>1, CancelIsWithdraw DEF Jobs!JobsNext
<1>3. CASE ClearCompleted BY <1>3, ClearIsForget DEF Jobs!JobsNext
<1>4. ASSUME NEW c \in Closer, Close(c) PROVE Jobs!JobsNext
      BY <1>4, CloseIsShut DEF Jobs!JobsNext
<1>5. CASE WorkerTake BY <1>5, TakeIsStart DEF Jobs!JobsNext
<1>6. CASE Finish BY <1>6, FinishIsEnd DEF Jobs!JobsNext
<1>7. CASE Progress BY <1>7, ProgressIsHidden
<1>8. ASSUME UNCHANGED <<entries, closed>> PROVE UNCHANGED Jobs!jobVars
      BY <1>8 DEF Jobs!jobVars
<1>9. CASE \/ \E w \in Waiter : WaitCall(w) \/ WaitRecheck(w)
           \/ \E c \in Closer : Joined(c) \/ JoinTimeout(c)
           \/ WorkerSleep \/ WorkerExit \/ UNCHANGED vars
  <2>1. UNCHANGED <<entries, closed>>
        BY <1>9 DEF WaitCall, WaitRecheck, Joined, JoinTimeout, WorkerSleep, WorkerExit, vars
  <2> QED BY <1>8, <2>1
<1> QED BY <1>1, <1>2, <1>3, <1>4, <1>5, <1>6, <1>7, <1>9 DEF Next

\* What the queue promises the pages, it keeps: whatever threads, packages and
\* tasks there are, its rows change only as one job per package may.
THEOREM QueueImplementsJobs == Spec => ImplementsPackageJobs
<1>1. Init => Jobs!JobsInit
  <2> SUFFICES ASSUME Init PROVE Jobs!JobsInit OBVIOUS
  <2>1. DOMAIN entries = {} /\ closed = FALSE BY DEF Init
  <2>2. Shown(entries) = [p \in Package |-> "none"] BY <2>1 DEF Shown
  <2> QED BY <2>1, <2>2 DEF Jobs!JobsInit
<1> QED BY <1>1, StepIsAJobStep, Invariance, PTL DEF Spec, ImplementsPackageJobs, Jobs!JobsSpec

(* ------------------------------ the client ----------------------------- *)
\* Which operation may be where, and which locks a caller holds there.
Operations ==
    \A a \in Caller :
        /\ call[a].at # "out" => call[a].op \in Operation
        /\ call[a].at = "try" => call[a].op \in {"toggle", "verify"}
        /\ call[a].at \in {"gate", "gated"} => call[a].op \in Gated \cup {"enqueue"}
        /\ call[a].at = "quiet" => call[a].op \in Gated
        /\ call[a].at = "clearing" => call[a].op = "install_modloader"
        /\ call[a].at = "service" /\ call[a].op = "verify" => mutation = a
        /\ call[a].at = "service" /\ call[a].op = "toggle" => mutation # a

HoldsState == \A a \in Caller :
    call[a].at \in {"gated", "quiet", "clearing"} => stateLock = a /\ loaderIdle

HoldsMutation == \A a \in Caller :
    /\ call[a].at \in {"clearing", "inside", "leaving"} => mutation = a
    /\ mutation = a => call[a].at \in {"clearing", "service", "inside", "leaving"}

\* Found quiet, the queue stays so: only an enqueue could change that, and it needs
\* the lock.
StaysQuiet == \A a \in Caller : call[a].at \in {"quiet", "clearing"} => Idle

LoaderInside ==
    ~loaderIdle =>
        /\ Idle
        /\ \E a \in Caller : call[a].op = "install_modloader" /\ call[a].at = "inside"

CallInv == Operations /\ HoldsState /\ HoldsMutation /\ StaysQuiet /\ LoaderInside

RunnerInv ==
    /\ runner \in {"service", "inside"} <=> mutation = "runner"
    /\ runner # "none" => worker = "running"

\* Past the join, the closing threads know that it said joined.
CloseInv ==
    /\ ui \in {"idle?", "free?"} => closer["closing"] = "joined"
    /\ finisher \in {"idle?", "free?", "destroying"} => closer["finish_close"] = "joined"

CInv == IInv /\ ClientTypeOK /\ CallInv /\ RunnerInv /\ CloseInv

-----------------------------------------------------------------------------
(* What the queue's operations leave alone                                 *)

\* Nothing but an enqueue makes a task active.
QueueWork ==
    \/ \E t \in Task : Cancel(t)
    \/ ClearCompleted
    \/ \E c \in Closer : Close(c) \/ Joined(c) \/ JoinTimeout(c)
    \/ WorkerTake \/ WorkerSleep \/ WorkerExit \/ Progress \/ Finish
    \/ UNCHANGED vars

LEMMA IdleStays ==
    ASSUME TypeOK, QueueWork, Idle
    PROVE  Idle'
<1> USE DEF Idle, Rows, Active
<1>1. \A t \in DOMAIN entries : entries[t].state \notin {"waiting", "installing"}
      OBVIOUS
<1>2. SUFFICES DOMAIN entries' \subseteq DOMAIN entries
               /\ \A t \in DOMAIN entries' :
                     entries'[t].state \notin {"waiting", "installing"}
      OBVIOUS
<1>3. CASE \E t \in Task : Cancel(t) BY <1>1, <1>3 DEF Cancel, Waiting
<1>4. CASE ClearCompleted BY <1>1, <1>4 DEF ClearCompleted
<1>5. CASE \E c \in Closer : Close(c) \/ Joined(c) \/ JoinTimeout(c)
  <2>1. CASE \E c \in Closer : Close(c)
    <3>1. entries' = [t \in DOMAIN entries |->
                        IF t \in Waiting THEN [entries[t] EXCEPT !.state = "canceled"]
                                         ELSE entries[t]]
          BY <2>1 DEF Close
    <3>2. Waiting = {} BY <1>1 DEF Waiting
    <3> QED BY <1>1, <3>1, <3>2
  <2>2. CASE \E c \in Closer : Joined(c) \/ JoinTimeout(c)
    BY <1>1, <2>2 DEF Joined, JoinTimeout
  <2> QED BY <1>5, <2>1, <2>2
<1>6. CASE WorkerTake BY <1>1, <1>6 DEF WorkerTake, Waiting
<1>7. CASE WorkerSleep \/ WorkerExit \/ UNCHANGED vars
      BY <1>1, <1>7 DEF WorkerSleep, WorkerExit, vars
<1>8. CASE Progress BY <1>1, <1>8 DEF Progress
<1>9. CASE Finish
  <2>1. PICK state \in {"completed", "failed"}, message \in {"", "error"} :
           SetCurrent(state, message)
        BY <1>9 DEF Finish
  <2>2. CASE current \in DOMAIN entries
    <3>1. entries' = [entries EXCEPT ![current].state = state, ![current].message = message]
          BY <2>1, <2>2 DEF SetCurrent
    <3>2. entries[current] \in Row BY <2>2 DEF TypeOK
    <3>3. entries'[current] = [entries[current] EXCEPT !.state = state, !.message = message]
          BY <2>2, <3>1
    <3>4. entries'[current].state = state BY <3>2, <3>3 DEF Row
    <3> QED BY <1>1, <2>2, <3>1, <3>4
  <2>3. CASE current \notin DOMAIN entries
    BY <1>1, <2>1, <2>3 DEF SetCurrent
  <2> QED BY <2>2, <2>3
<1> QED BY <1>3, <1>4, <1>5, <1>6, <1>7, <1>8, <1>9 DEF QueueWork

\* A running worker goes on running but in Finish.
LEMMA RunningStays ==
    ASSUME QueueWork \/ \E P \in SUBSET Package : Enqueue(P), ~Finish, worker = "running"
    PROVE  worker' = "running"
<1>1. CASE \E P \in SUBSET Package : Enqueue(P) BY <1>1 DEF Enqueue, NotifyAll
<1>2. CASE QueueWork
  BY <1>2 DEF QueueWork, Cancel, ClearCompleted, Close, Joined, JoinTimeout, WorkerTake,
              WorkerSleep, WorkerExit, Progress, NotifyAll, vars
<1> QED BY <1>1, <1>2

LEMMA WorkIsNext ==
    ASSUME QueueWork \/ \E P \in SUBSET Package : Enqueue(P), IInv
    PROVE  IInv'
BY StepPreserves DEF QueueWork, Next

\* The names of the closing threads, and what they are not.
LEMMA Closers ==
    /\ "closing" \in Closer /\ "finish_close" \in Closer
    /\ "closed" \in Closer /\ "self_update" \in Closer
    /\ Nobody \notin Caller /\ "runner" \notin Caller /\ Nobody # "runner"
    /\ "none" \notin Operation
BY CallerAssumption DEF Nobody, Gated

-----------------------------------------------------------------------------
(* The calls                                                               *)

CallTyped == call \in [Caller -> [op : Operation \cup {"none"}, at : Place]]

LEMMA GoMoves ==
    ASSUME NEW a \in Caller, NEW at \in Place, CallTyped, Go(a, at)
    PROVE  /\ CallTyped'
           /\ call'[a].at = at
           /\ at # "out" => call'[a].op = call[a].op
           /\ \A b \in Caller \ {a} : call'[b] = call[b]
<1> DEFINE moved == IF at = "out" THEN NoCall ELSE [op |-> call[a].op, at |-> at]
<1>1. call' = [call EXCEPT ![a] = moved] BY DEF Go
<1>2. moved \in [op : Operation \cup {"none"}, at : Place] BY DEF CallTyped, NoCall, Place
<1>3. moved.at = at /\ (at # "out" => moved.op = call[a].op) BY DEF NoCall
<1> HIDE DEF moved
<1> QED BY <1>1, <1>2, <1>3 DEF CallTyped

\* What a step of one caller, on one lock or the queue, means for the others.
LEMMA CallerKeepsTheRest ==
    ASSUME CInv, UNCHANGED OtherThreads,
           UNCHANGED vars \/ \E P \in SUBSET Package : Enqueue(P),
           mutation' = mutation \/ (mutation # "runner" /\ mutation' # "runner")
    PROVE  IInv' /\ RunnerInv' /\ CloseInv'
<1>1. IInv' BY WorkIsNext DEF CInv, QueueWork
<1>2. closer' = closer BY DEF Enqueue, vars
<1>3. worker = "running" => worker' = "running" BY DEF Enqueue, NotifyAll, vars
<1>4. RunnerInv' BY <1>3 DEF CInv, RunnerInv, OtherThreads
<1>5. CloseInv' BY <1>2 DEF CInv, CloseInv, OtherThreads
<1> QED BY <1>1, <1>4, <1>5

LEMMA BeginKeeps ==
    ASSUME CInv, NEW a \in Caller, NEW op \in Operation, Begin(a, op)
    PROVE  CInv'
<1> USE DEF CInv
<1> DEFINE at == CASE op = "remove" -> "gate" [] op = "verify" -> "try"
                   [] OTHER -> "service"
<1>1. at \in {"gate", "try", "service"} /\ (at = "gate" <=> op = "remove")
      /\ (at = "try" <=> op = "verify")
      OBVIOUS
<1> HIDE DEF at
<1>2. call' = [call EXCEPT ![a] = [op |-> op, at |-> at]] /\ call[a].at = "out"
      BY DEF Begin, at
<1>3. UNCHANGED <<vars, locks, OtherThreads>> BY DEF Begin
<1>4. CallTyped' BY <1>1, <1>2 DEF ClientTypeOK, CallTyped, Place
<1>5. call'[a].at = at /\ call'[a].op = op /\ \A b \in Caller \ {a} : call'[b] = call[b]
      BY <1>2 DEF ClientTypeOK
<1>6. ClientTypeOK' BY <1>3, <1>4 DEF ClientTypeOK, CallTyped, locks, OtherThreads
<1>7. Operations'
  <2>1. mutation # a BY <1>2 DEF CallInv, HoldsMutation
  <2> QED BY <1>1, <1>3, <1>5, <2>1 DEF CallInv, Operations, Gated, locks
<1>8. HoldsState' BY <1>1, <1>3, <1>5 DEF CallInv, HoldsState, locks
<1>9. HoldsMutation' BY <1>1, <1>2, <1>3, <1>5 DEF CallInv, HoldsMutation, locks
<1>10. Idle' = Idle BY <1>3 DEF Idle, Rows, vars
<1>11. StaysQuiet' BY <1>1, <1>5, <1>10 DEF CallInv, StaysQuiet
<1>12. LoaderInside' BY <1>2, <1>3, <1>5, <1>10 DEF CallInv, LoaderInside, locks
<1>13. IInv' /\ RunnerInv' /\ CloseInv' BY <1>3, CallerKeepsTheRest DEF locks
<1> QED BY <1>6, <1>7, <1>8, <1>9, <1>11, <1>12, <1>13 DEF CallInv

LEMMA ServiceKeeps ==
    ASSUME CInv, NEW a \in Caller, Service(a)
    PROVE  CInv'
<1> USE DEF CInv
<1>0. call[a].at = "service" BY DEF Service
<1>1. PICK at \in {"inside", "try", "gate"} :
         /\ Go(a, at)
         /\ at = "inside" <=> mutation = a
         /\ at = "try" => call[a].op = "toggle"
         /\ at = "gate" => call[a].op # "toggle"
  <2>1. CASE mutation = a
    <3>1. call[a].op # "toggle" BY <1>0, <2>1 DEF CallInv, Operations
    <3>2. Go(a, "inside") BY <2>1, <3>1 DEF Service
    <3> QED BY <2>1, <3>1, <3>2
  <2>2. CASE mutation # a /\ call[a].op = "toggle" BY <2>2 DEF Service
  <2>3. CASE mutation # a /\ call[a].op # "toggle" BY <2>3 DEF Service
  <2> QED BY <2>1, <2>2, <2>3
<1>2. call[a].at = "service" /\ UNCHANGED <<vars, locks, OtherThreads>> BY DEF Service
<1>3. CallTyped' /\ call'[a].at = at /\ call'[a].op = call[a].op
      /\ \A b \in Caller \ {a} : call'[b] = call[b]
      BY <1>1, GoMoves DEF ClientTypeOK, CallTyped, Place
<1>4. ClientTypeOK' BY <1>2, <1>3 DEF ClientTypeOK, CallTyped, locks, OtherThreads
<1>5. at = "gate" => call[a].op \in Gated \cup {"enqueue"}
      BY <1>1, <1>2, CallerAssumption DEF CallInv, Operations
<1>6. Operations' BY <1>1, <1>2, <1>3, <1>5 DEF CallInv, Operations, locks
<1>7. HoldsState' BY <1>1, <1>2, <1>3 DEF CallInv, HoldsState, locks
<1>8. HoldsMutation' BY <1>1, <1>2, <1>3 DEF CallInv, HoldsMutation, locks
<1>9. Idle' = Idle BY <1>2 DEF Idle, Rows, vars
<1>10. StaysQuiet' BY <1>1, <1>3, <1>9 DEF CallInv, StaysQuiet
<1>11. LoaderInside' BY <1>2, <1>3, <1>9 DEF CallInv, LoaderInside, locks
<1>12. IInv' /\ RunnerInv' /\ CloseInv' BY <1>2, CallerKeepsTheRest DEF locks
<1> QED BY <1>4, <1>6, <1>7, <1>8, <1>10, <1>11, <1>12 DEF CallInv

LEMMA GateKeeps ==
    ASSUME CInv, NEW a \in Caller, Gate(a)
    PROVE  CInv'
<1> USE DEF CInv
<1>1. PICK at \in {"gated", "out"} :
         /\ Go(a, at)
         /\ IF at = "gated" THEN loaderIdle /\ stateLock' = a ELSE UNCHANGED stateLock
      BY DEF Gate
<1>2. /\ call[a].at = "gate" /\ stateLock = Nobody
      /\ UNCHANGED <<vars, mutation, loaderIdle, OtherThreads>>
      BY DEF Gate
<1>3. CallTyped' /\ call'[a].at = at /\ (at # "out" => call'[a].op = call[a].op)
      /\ \A b \in Caller \ {a} : call'[b] = call[b]
      BY <1>1, GoMoves DEF ClientTypeOK, CallTyped, Place
<1>4. ClientTypeOK' BY <1>1, <1>2, <1>3 DEF ClientTypeOK, CallTyped, OtherThreads
<1>5. Operations' BY <1>1, <1>2, <1>3 DEF CallInv, Operations
<1>6. \A b \in Caller : call[b].at \notin {"gated", "quiet", "clearing"}
      BY <1>2, Closers DEF CallInv, HoldsState
<1>7. HoldsState' BY <1>1, <1>2, <1>3, <1>6 DEF HoldsState
<1>8. HoldsMutation' BY <1>1, <1>2, <1>3 DEF CallInv, HoldsMutation
<1>9. Idle' = Idle BY <1>2 DEF Idle, Rows, vars
<1>10. StaysQuiet' BY <1>1, <1>3, <1>6 DEF StaysQuiet
<1>11. LoaderInside' BY <1>2, <1>3, <1>9 DEF CallInv, LoaderInside
<1>12. IInv' /\ RunnerInv' /\ CloseInv' BY <1>2, CallerKeepsTheRest
<1> QED BY <1>4, <1>5, <1>7, <1>8, <1>10, <1>11, <1>12 DEF CallInv

LEMMA EnqueueGatedKeeps ==
    ASSUME CInv, NEW a \in Caller, EnqueueGated(a)
    PROVE  CInv'
<1> USE DEF CInv
<1>1. /\ Go(a, "out") /\ call[a].at = "gated"
      /\ UNCHANGED vars \/ \E P \in SUBSET Package : Enqueue(P)
      /\ UNCHANGED <<mutation, loaderIdle, OtherThreads>>
      BY DEF EnqueueGated, At
<1>2. stateLock' = Nobody
      BY <1>1 DEF EnqueueGated, Release, CallInv, HoldsState
<1>3. CallTyped' /\ call'[a].at = "out" /\ \A b \in Caller \ {a} : call'[b] = call[b]
      BY <1>1, GoMoves DEF ClientTypeOK, CallTyped, Place
<1>4. ClientTypeOK' BY <1>1, <1>2, <1>3 DEF ClientTypeOK, CallTyped, OtherThreads
<1>5. Operations' BY <1>1, <1>3 DEF CallInv, Operations
<1>6. /\ loaderIdle
      /\ \A b \in Caller \ {a} : call[b].at \notin {"gated", "quiet", "clearing"}
      BY <1>1 DEF CallInv, HoldsState
<1>7. HoldsState' BY <1>3, <1>6 DEF HoldsState
<1>8. HoldsMutation' BY <1>1, <1>3 DEF CallInv, HoldsMutation
<1>9. StaysQuiet' BY <1>3, <1>6 DEF StaysQuiet
<1>10. LoaderInside' BY <1>1, <1>6 DEF LoaderInside
<1>11. IInv' /\ RunnerInv' /\ CloseInv' BY <1>1, CallerKeepsTheRest
<1> QED BY <1>4, <1>5, <1>7, <1>8, <1>9, <1>10, <1>11 DEF CallInv

LEMMA QueueQuietKeeps ==
    ASSUME CInv, NEW a \in Caller, QueueQuiet(a)
    PROVE  CInv'
<1> USE DEF CInv
<1>1. PICK at \in {"quiet", "out"} :
         /\ Go(a, at)
         /\ IF at = "quiet" THEN Idle /\ UNCHANGED stateLock ELSE Release(a)
      BY DEF QueueQuiet
<1>2. /\ call[a].at = "gated" /\ call[a].op \in Gated
      /\ UNCHANGED <<vars, mutation, loaderIdle, OtherThreads>>
      BY DEF QueueQuiet, At
<1>3. CallTyped' /\ call'[a].at = at /\ (at # "out" => call'[a].op = call[a].op)
      /\ \A b \in Caller \ {a} : call'[b] = call[b]
      BY <1>1, GoMoves DEF ClientTypeOK, CallTyped, Place
<1>4. /\ stateLock = a /\ loaderIdle
      /\ \A b \in Caller \ {a} : call[b].at \notin {"gated", "quiet", "clearing"}
      BY <1>2 DEF CallInv, HoldsState
<1>5. stateLock' = IF at = "quiet" THEN a ELSE Nobody BY <1>1, <1>4 DEF Release
<1>6. ClientTypeOK' BY <1>2, <1>3, <1>5 DEF ClientTypeOK, CallTyped, OtherThreads
<1>7. Operations' BY <1>1, <1>2, <1>3 DEF CallInv, Operations
<1>8. HoldsState' BY <1>1, <1>2, <1>3, <1>4, <1>5 DEF HoldsState
<1>9. HoldsMutation' BY <1>1, <1>2, <1>3 DEF CallInv, HoldsMutation
<1>10. Idle' = Idle BY <1>2 DEF Idle, Rows, vars
<1>11. StaysQuiet' BY <1>1, <1>3, <1>4, <1>10 DEF StaysQuiet
<1>12. LoaderInside' BY <1>2, <1>4 DEF LoaderInside
<1>13. IInv' /\ RunnerInv' /\ CloseInv' BY <1>2, CallerKeepsTheRest
<1> QED BY <1>6, <1>7, <1>8, <1>9, <1>11, <1>12, <1>13 DEF CallInv

\* The step that takes `_mutation_lock`, where it gets it and where it does not.
LEMMA TryMutationTurns ==
    ASSUME NEW a \in Caller, TryMutation(a)
    PROVE  \E at \in {"clearing", "service", "inside", "out"} :
             /\ Go(a, at)
             /\ at = "out" <=> mutation # Nobody
             /\ mutation' = IF at = "out" THEN mutation ELSE a
             /\ at = "clearing" => call[a].op = "install_modloader" /\ UNCHANGED stateLock
             /\ at # "clearing" => Release(a)
             /\ at = "service" => call[a].op \in {"remove", "verify"}
             /\ at = "inside" => call[a].op # "verify"
<1>1. CASE mutation # Nobody BY <1>1 DEF TryMutation
<1>2. CASE mutation = Nobody
  <2>1. CASE call[a].op = "install_modloader" BY <1>2, <2>1 DEF TryMutation
  <2>2. CASE call[a].op \in {"remove", "verify"} BY <1>2, <2>2 DEF TryMutation
  <2>3. CASE call[a].op \notin {"install_modloader", "remove", "verify"}
        BY <1>2, <2>3 DEF TryMutation
  <2> QED BY <2>1, <2>2, <2>3
<1> QED BY <1>1, <1>2

LEMMA TryMutationKeeps ==
    ASSUME CInv, NEW a \in Caller, TryMutation(a)
    PROVE  CInv'
<1> USE DEF CInv
<1>1. PICK at \in {"clearing", "service", "inside", "out"} :
         /\ Go(a, at)
         /\ at = "out" <=> mutation # Nobody
         /\ mutation' = IF at = "out" THEN mutation ELSE a
         /\ at = "clearing" => call[a].op = "install_modloader" /\ UNCHANGED stateLock
         /\ at # "clearing" => Release(a)
         /\ at = "service" => call[a].op \in {"remove", "verify"}
      BY TryMutationTurns
<1>2. call[a].at \in {"quiet", "try"} /\ UNCHANGED <<vars, loaderIdle, OtherThreads>>
      BY DEF TryMutation
<1>3. CallTyped' /\ call'[a].at = at /\ (at # "out" => call'[a].op = call[a].op)
      /\ \A b \in Caller \ {a} : call'[b] = call[b]
      BY <1>1, GoMoves DEF ClientTypeOK, CallTyped, Place
<1>4. stateLock' = IF stateLock = a /\ at # "clearing" THEN Nobody ELSE stateLock
      BY <1>1 DEF Release
<1>5. mutation' = mutation \/ (mutation = Nobody /\ mutation' = a) BY <1>1
<1>6. ClientTypeOK' BY <1>2, <1>3, <1>4, <1>5 DEF ClientTypeOK, CallTyped, OtherThreads
<1>7. at # "out" => \A b \in Caller : mutation # b BY <1>1, Closers
<1>8. Operations' BY <1>1, <1>2, <1>3, <1>7 DEF CallInv, Operations
<1>9. at = "clearing" => call[a].at = "quiet"
      BY <1>1, <1>2 DEF CallInv, Operations
<1>10. HoldsState' BY <1>1, <1>2, <1>3, <1>4, <1>9 DEF CallInv, HoldsState
<1>11. HoldsMutation' BY <1>1, <1>2, <1>3, <1>7 DEF CallInv, HoldsMutation
<1>12. Idle' = Idle BY <1>2 DEF Idle, Rows, vars
<1>13. StaysQuiet' BY <1>3, <1>9, <1>12 DEF CallInv, StaysQuiet
<1>14. LoaderInside' BY <1>2, <1>3, <1>12 DEF CallInv, LoaderInside
<1>15. mutation' = mutation \/ (mutation # "runner" /\ mutation' # "runner")
      BY <1>5, Closers
<1>16. IInv' /\ RunnerInv' /\ CloseInv' BY <1>2, <1>15, CallerKeepsTheRest
<1> QED BY <1>6, <1>8, <1>10, <1>11, <1>13, <1>14, <1>16 DEF CallInv

LEMMA ClearLoaderIdleKeeps ==
    ASSUME CInv, NEW a \in Caller, ClearLoaderIdle(a)
    PROVE  CInv'
<1> USE DEF CInv
<1>1. /\ call[a].at = "clearing" /\ loaderIdle' = FALSE /\ Go(a, "inside") /\ Release(a)
      /\ UNCHANGED <<vars, mutation, OtherThreads>>
      BY DEF ClearLoaderIdle
<1>2. /\ stateLock = a /\ Idle /\ mutation = a /\ call[a].op = "install_modloader"
      /\ \A b \in Caller \ {a} : call[b].at \notin {"gated", "quiet", "clearing"}
      BY <1>1 DEF CallInv, HoldsState, StaysQuiet, HoldsMutation, Operations
<1>3. CallTyped' /\ call'[a].at = "inside" /\ call'[a].op = call[a].op
      /\ \A b \in Caller \ {a} : call'[b] = call[b]
      BY <1>1, GoMoves DEF ClientTypeOK, CallTyped, Place
<1>4. stateLock' = Nobody BY <1>1, <1>2 DEF Release
<1>5. ClientTypeOK' BY <1>1, <1>3, <1>4 DEF ClientTypeOK, CallTyped, OtherThreads
<1>6. Operations' BY <1>1, <1>2, <1>3 DEF CallInv, Operations
<1>7. HoldsState' BY <1>2, <1>3 DEF HoldsState
<1>8. HoldsMutation' BY <1>1, <1>2, <1>3 DEF CallInv, HoldsMutation
<1>9. Idle' = Idle BY <1>1 DEF Idle, Rows, vars
<1>10. StaysQuiet' BY <1>2, <1>3 DEF StaysQuiet
<1>11. LoaderInside' BY <1>2, <1>3, <1>9 DEF LoaderInside
<1>12. IInv' /\ RunnerInv' /\ CloseInv' BY <1>1, CallerKeepsTheRest
<1> QED BY <1>5, <1>6, <1>7, <1>8, <1>10, <1>11, <1>12 DEF CallInv

LEMMA WorkDoneKeeps ==
    ASSUME CInv, NEW a \in Caller, WorkDone(a)
    PROVE  CInv'
<1> USE DEF CInv
<1>1. /\ call[a].at = "inside" /\ Go(a, "leaving") /\ UNCHANGED <<vars, stateLock, mutation, OtherThreads>>
      /\ loaderIdle' = (call[a].op = "install_modloader" \/ loaderIdle)
      BY DEF WorkDone
<1>2. CallTyped' /\ call'[a].at = "leaving" /\ call'[a].op = call[a].op
      /\ \A b \in Caller \ {a} : call'[b] = call[b]
      BY <1>1, GoMoves DEF ClientTypeOK, CallTyped, Place
<1>3. loaderIdle' \in BOOLEAN /\ (loaderIdle => loaderIdle') BY <1>1
<1>4. ClientTypeOK' BY <1>1, <1>2, <1>3 DEF ClientTypeOK, CallTyped, OtherThreads
<1>5. Operations' BY <1>1, <1>2 DEF CallInv, Operations
<1>6. HoldsState' BY <1>1, <1>2, <1>3 DEF CallInv, HoldsState
<1>7. HoldsMutation' BY <1>1, <1>2 DEF CallInv, HoldsMutation
<1>8. Idle' = Idle BY <1>1 DEF Idle, Rows, vars
<1>9. StaysQuiet' BY <1>2, <1>8 DEF CallInv, StaysQuiet
<1>10. mutation = a BY <1>1 DEF CallInv, HoldsMutation
<1>11. ~loaderIdle => call[a].op = "install_modloader"
      BY <1>10 DEF CallInv, LoaderInside, HoldsMutation
<1>12. LoaderInside' BY <1>1, <1>11 DEF LoaderInside
<1>13. IInv' /\ RunnerInv' /\ CloseInv' BY <1>1, CallerKeepsTheRest
<1> QED BY <1>4, <1>5, <1>6, <1>7, <1>9, <1>12, <1>13 DEF CallInv

LEMMA LeaveKeeps ==
    ASSUME CInv, NEW a \in Caller, Leave(a)
    PROVE  CInv'
<1> USE DEF CInv
<1>1. /\ call[a].at = "leaving" /\ mutation' = Nobody /\ Go(a, "out")
      /\ UNCHANGED <<vars, stateLock, loaderIdle, OtherThreads>>
      BY DEF Leave
<1>2. CallTyped' /\ call'[a].at = "out" /\ \A b \in Caller \ {a} : call'[b] = call[b]
      BY <1>1, GoMoves DEF ClientTypeOK, CallTyped, Place
<1>3. mutation = a BY <1>1 DEF CallInv, HoldsMutation
<1>4. ClientTypeOK' BY <1>1, <1>2 DEF ClientTypeOK, CallTyped, OtherThreads
<1>5. Operations' BY <1>1, <1>2, <1>3, Closers DEF CallInv, Operations
<1>6. HoldsState' BY <1>1, <1>2 DEF CallInv, HoldsState
<1>7. HoldsMutation' BY <1>1, <1>2, <1>3, Closers DEF CallInv, HoldsMutation
<1>8. Idle' = Idle BY <1>1 DEF Idle, Rows, vars
<1>9. StaysQuiet' BY <1>2, <1>8 DEF CallInv, StaysQuiet
<1>10. LoaderInside' BY <1>1, <1>2, <1>8 DEF CallInv, LoaderInside
<1>11. mutation # "runner" /\ mutation' # "runner" BY <1>1, <1>3, Closers
<1>12. IInv' /\ RunnerInv' /\ CloseInv' BY <1>1, <1>11, CallerKeepsTheRest
<1> QED BY <1>4, <1>5, <1>6, <1>7, <1>9, <1>10, <1>12 DEF CallInv

-----------------------------------------------------------------------------
(* The worker, the runner and the closing threads                          *)

\* A step of another thread: it makes no call, takes no `_state_lock`, and gives
\* `_mutation_lock` to no caller.
LEMMA CallsAreKept ==
    ASSUME CInv, QueueWork, UNCHANGED <<call, stateLock, loaderIdle>>,
           mutation' = mutation \/ (mutation \notin Caller /\ mutation' \notin Caller)
    PROVE  CallInv'
<1> USE DEF CInv
<1>1. Idle => Idle' BY IdleStays DEF IInv
<1>2. \A a \in Caller : mutation' = a <=> mutation = a OBVIOUS
<1>3. Operations' BY <1>2 DEF CallInv, Operations
<1>4. HoldsState' BY DEF CallInv, HoldsState
<1>5. HoldsMutation' BY <1>2 DEF CallInv, HoldsMutation
<1>6. StaysQuiet' BY <1>1 DEF CallInv, StaysQuiet
<1>7. LoaderInside' BY <1>1 DEF CallInv, LoaderInside
<1> QED BY <1>3, <1>4, <1>5, <1>6, <1>7 DEF CallInv

LEMMA QueueCallsKeep ==
    ASSUME CInv, (\E t \in Task : CancelCall(t)) \/ ClearCall \/ Worker \/ RunnerProgress
    PROVE  CInv'
<1> USE DEF CInv
<1>1. /\ UNCHANGED <<locks, threads>>
      /\ \/ \E t \in Task : Cancel(t)
         \/ ClearCompleted \/ WorkerTake \/ WorkerSleep \/ WorkerExit \/ Progress
      BY DEF CancelCall, ClearCall, Worker, RunnerProgress
<1>2. QueueWork BY <1>1 DEF QueueWork
<1>3. IInv' BY <1>2, WorkIsNext
<1>4. ClientTypeOK' BY <1>1 DEF ClientTypeOK, locks, threads
<1>5. CallInv' BY <1>1, <1>2, CallsAreKept DEF locks, threads
<1>6. closer' = closer
      BY <1>1 DEF Cancel, ClearCompleted, WorkerTake, WorkerSleep, WorkerExit, Progress
<1>7. CloseInv' BY <1>1, <1>6 DEF CloseInv, locks, threads
<1>8. worker = "running" => worker' = "running"
      BY <1>1 DEF Cancel, NotifyAll, ClearCompleted, WorkerTake, WorkerSleep, WorkerExit, Progress
<1>9. RunnerInv' BY <1>1, <1>8 DEF RunnerInv, locks, threads
<1> QED BY <1>3, <1>4, <1>5, <1>7, <1>9

LEMMA RunnerKeeps ==
    ASSUME CInv, RunnerStep
    PROVE  CInv'
<1> USE DEF CInv
<1>1. UNCHANGED <<stateLock, loaderIdle, call, ui, finisher, update, scheduled>>
      BY DEF RunnerStep, RunnerLock, RunnerService, RunnerUnlock, RunnerReturn, locks
<1>2. QueueWork
      BY DEF RunnerStep, RunnerLock, RunnerService, RunnerUnlock, RunnerReturn, QueueWork
<1>3. closer' = closer
      BY DEF RunnerStep, RunnerLock, RunnerService, RunnerUnlock, RunnerReturn, Finish, vars
<1>4. /\ mutation' \in {mutation, Nobody, "runner"}
      /\ runner' \in {"none", "service", "inside", "done"}
      /\ mutation' # mutation => mutation \in {Nobody, "runner"}
      /\ RunnerInv'
  <2>1. CASE RunnerLock BY <2>1, Closers DEF RunnerLock, RunnerInv, vars
  <2>2. CASE RunnerService BY <2>2 DEF RunnerService, RunnerInv, locks, vars
  <2>3. CASE RunnerUnlock BY <2>3, Closers DEF RunnerUnlock, RunnerInv, vars
  <2>4. CASE RunnerReturn BY <2>4 DEF RunnerReturn, RunnerInv, locks
  <2> QED BY <2>1, <2>2, <2>3, <2>4 DEF RunnerStep
<1>5. mutation' = mutation \/ (mutation \notin Caller /\ mutation' \notin Caller)
      BY <1>4, Closers
<1>6. IInv' BY <1>2, WorkIsNext
<1>7. ClientTypeOK' BY <1>1, <1>4 DEF ClientTypeOK
<1>8. CallInv' BY <1>1, <1>2, <1>5, CallsAreKept
<1>9. CloseInv' BY <1>1, <1>3 DEF CloseInv
<1> QED BY <1>4, <1>6, <1>7, <1>8, <1>9

Closing ==
    OnClosing \/ UiStep \/ FinisherStep \/ UpdateAsked \/ UpdateStep

\* The closing threads work on the queue by close and its join only.
LEMMA ClosingWork ==
    ASSUME Closing
    PROVE  /\ UNCHANGED <<locks, call, runner>>
           /\ \/ UNCHANGED vars
              \/ \E c \in {"closing", "closed", "finish_close", "self_update"} :
                   Close(c) \/ Joined(c) \/ JoinTimeout(c)
<1>1. CASE OnClosing BY <1>1 DEF OnClosing, UiOnly
<1>2. CASE UiStep
  BY <1>2 DEF UiStep, ClosingJoined, ClosingTimeout, ClosingLoaderIdle, ClosingProbe,
              ClosingSchedule, OnClosed, ClosedReturns, UiOnly
<1>3. CASE FinisherStep
  BY <1>3 DEF FinisherStep, FinisherClose, FinisherJoined, FinisherIdle, FinisherLock,
              FinisherDestroy, FinisherOnly
<1>4. CASE UpdateAsked \/ UpdateStep
  BY <1>4 DEF UpdateAsked, UpdateStep, UpdateClose, UpdateJoined, UpdateDestroy, UpdateExit,
              UpdateOnly
<1> QED BY <1>1, <1>2, <1>3, <1>4 DEF Closing

\* A join asked for by one closing thread says nothing to another.
LEMMA CloserFrame ==
    ASSUME TypeOK, NEW c \in Closer, Close(c) \/ Joined(c) \/ JoinTimeout(c)
    PROVE  /\ \A other \in Closer \ {c} : closer'[other] = closer[other]
           /\ Joined(c) => closer'[c] = "joined"
           /\ worker = "running" => worker' = "running"
BY DEF Close, Joined, JoinTimeout, NotifyAll, TypeOK

LEMMA UiTypes ==
    ASSUME CInv, Closing
    PROVE  ui' \in UiState /\ scheduled' \in BOOLEAN
           /\ finisher' \in {"none", "start", "joining", "idle?", "free?", "destroying", "done"}
           /\ update' \in {"none", "start", "joining", "destroying", "exiting", "exited"}
<1> USE DEF CInv, ClientTypeOK, UiState
<1>1. CASE OnClosing BY <1>1 DEF OnClosing, Ui, UiOnly
<1>2. CASE UiStep
  BY <1>2 DEF UiStep, ClosingJoined, ClosingTimeout, ClosingLoaderIdle, ClosingProbe,
              ClosingSchedule, OnClosed, ClosedReturns, Ui, UiOnly
<1>3. CASE FinisherStep
  BY <1>3 DEF FinisherStep, FinisherClose, FinisherJoined, FinisherIdle, FinisherLock,
              FinisherDestroy, DestroyWindow, Finisher, FinisherOnly, Ui
<1>4. CASE UpdateAsked \/ UpdateStep
  BY <1>4 DEF UpdateAsked, UpdateStep, UpdateClose, UpdateJoined, UpdateDestroy, UpdateExit,
              DestroyWindow, Update, UpdateOnly, Ui
<1> QED BY <1>1, <1>2, <1>3, <1>4 DEF Closing

LEMMA ClosingKeepsTheirs ==
    ASSUME CInv, Closing
    PROVE  CloseInv'
<1> USE DEF CInv, CloseInv
<1>1. "closing" \in Closer /\ "finish_close" \in Closer /\ "closed" \in Closer
      /\ "self_update" \in Closer
      BY Closers
<1>2. CASE OnClosing
  BY <1>1, <1>2, CloserFrame DEF OnClosing, Ui, UiOnly, IInv
<1>3. CASE ClosingJoined
  BY <1>1, <1>3, CloserFrame DEF ClosingJoined, Ui, UiOnly, IInv
<1>4. CASE ClosingTimeout
  BY <1>1, <1>4, CloserFrame DEF ClosingTimeout, Ui, UiOnly, IInv
<1>5. CASE ClosingLoaderIdle \/ ClosingProbe
  BY <1>5 DEF ClosingLoaderIdle, ClosingProbe, Ui, UiOnly, vars
<1>6. CASE ClosingSchedule
  BY <1>6 DEF ClosingSchedule, Ui, vars
<1>7. CASE OnClosed \/ ClosedReturns
  BY <1>1, <1>7, CloserFrame DEF OnClosed, ClosedReturns, Ui, UiOnly, IInv
<1>8. CASE FinisherClose \/ FinisherJoined
  BY <1>1, <1>8, CloserFrame DEF FinisherClose, FinisherJoined, Finisher, FinisherOnly, IInv
<1>9. CASE FinisherIdle \/ FinisherLock \/ FinisherDestroy
  BY <1>9 DEF FinisherIdle, FinisherLock, FinisherDestroy, DestroyWindow, Ui, Finisher,
              FinisherOnly, vars
<1>10. CASE UpdateAsked \/ UpdateDestroy \/ UpdateExit
  BY <1>10 DEF UpdateAsked, UpdateDestroy, UpdateExit, DestroyWindow, Ui, UpdateOnly, vars
<1>11. CASE UpdateClose \/ UpdateJoined
  BY <1>1, <1>11, CloserFrame DEF UpdateClose, UpdateJoined, UpdateOnly, IInv
<1> QED BY <1>2, <1>3, <1>4, <1>5, <1>6, <1>7, <1>8, <1>9, <1>10, <1>11
        DEF Closing, UiStep, FinisherStep, UpdateStep

LEMMA ClosingKeeps ==
    ASSUME CInv, Closing
    PROVE  CInv'
<1> USE DEF CInv
<1>1. UNCHANGED <<locks, call, runner>> BY ClosingWork
<1>2. QueueWork BY ClosingWork, Closers DEF QueueWork
<1>3. IInv' BY <1>2, WorkIsNext
<1>4. ClientTypeOK' BY <1>1, UiTypes DEF ClientTypeOK, locks
<1>5. CallInv' BY <1>1, <1>2, CallsAreKept DEF locks
<1>6. worker = "running" => worker' = "running"
      BY ClosingWork, CloserFrame, Closers DEF IInv, vars
<1>7. RunnerInv' BY <1>1, <1>6 DEF RunnerInv, locks
<1>8. CloseInv' BY ClosingKeepsTheirs
<1> QED BY <1>3, <1>4, <1>5, <1>7, <1>8

LEMMA CallStepKeeps ==
    ASSUME CInv, NEW a \in Caller, CallStep(a)
    PROVE  CInv'
BY ServiceKeeps, GateKeeps, EnqueueGatedKeeps, QueueQuietKeeps, TryMutationKeeps,
   ClearLoaderIdleKeeps, WorkDoneKeeps, LeaveKeeps DEF CallStep

-----------------------------------------------------------------------------
(* The invariant, and what it says                                         *)

LEMMA ClientInitHolds == ClientInit => CInv
<1> SUFFICES ASSUME ClientInit PROVE CInv OBVIOUS
<1> USE DEF ClientInit
<1>1. IInv BY InitEstablishes
<1>2. \A a \in Caller : call[a] = NoCall OBVIOUS
<1>3. ClientTypeOK BY DEF ClientTypeOK, NoCall, Place, UiState
<1>4. CallInv
  BY <1>2, Closers DEF CallInv, Operations, HoldsState, HoldsMutation, StaysQuiet, LoaderInside, NoCall
<1>5. RunnerInv /\ CloseInv BY Closers DEF RunnerInv, CloseInv
<1> QED BY <1>1, <1>3, <1>4, <1>5 DEF CInv

LEMMA StutterKeeps == CInv /\ UNCHANGED allVars => CInv'
<1> SUFFICES ASSUME CInv, UNCHANGED allVars PROVE CInv' OBVIOUS
<1> USE DEF CInv, allVars, locks, threads
<1>1. QueueWork BY DEF QueueWork
<1>2. IInv' BY <1>1, WorkIsNext
<1>3. ClientTypeOK' BY DEF ClientTypeOK
<1>4. CallInv' BY <1>1, CallsAreKept
<1>5. RunnerInv' /\ CloseInv' BY DEF RunnerInv, CloseInv, vars
<1> QED BY <1>2, <1>3, <1>4, <1>5

LEMMA ClientStepKeeps == CInv /\ [ClientNext]_allVars => CInv'
<1> SUFFICES ASSUME CInv, [ClientNext]_allVars PROVE CInv' OBVIOUS
<1>1. CASE UNCHANGED allVars BY <1>1, StutterKeeps
<1>2. CASE Running
  <2>1. CASE \E a \in Caller : \E op \in Operation : Begin(a, op) BY <2>1, BeginKeeps
  <2>2. CASE \E a \in Caller : CallStep(a) BY <2>2, CallStepKeeps
  <2>3. CASE (\E t \in Task : CancelCall(t)) \/ ClearCall \/ Worker \/ RunnerProgress
        BY <2>3, QueueCallsKeep
  <2>4. CASE RunnerStep BY <2>4, RunnerKeeps
  <2>5. CASE Closing BY <2>5, ClosingKeeps
  <2> QED BY <1>2, <2>1, <2>2, <2>3, <2>4, <2>5 DEF Running, Closing
<1> QED BY <1>1, <1>2 DEF ClientNext

LEMMA ClientInvariance == ClientSpec => []CInv
BY ClientInitHolds, ClientStepKeeps, PTL DEF ClientSpec

\* The locks, the calls and the closing threads only take the values they are meant to,
\* and so does the queue between them.
THEOREM ClientTypesHold == ClientSpec => []ClientTypes
<1>1. CInv => ClientTypes BY DEF CInv, IInv, ClientTypes
<1> QED BY <1>1, ClientInvariance, PTL

\* Whoever is in the game directory holds `_mutation_lock`, so nobody else is there.
LEMMA InsideHolds ==
    ASSUME CInv
    PROVE  InDirectory = {a \in Caller : mutation = a}
BY DEF CInv, CallInv, HoldsMutation, InDirectory

\* A queued install and the operations of the API threads are never in the game
\* directory together (installation_controller.py:233-250, web_gui.py's runner).
THEOREM NeverTwoInside == ClientSpec => []OneAtATime
<1>1. CInv => OneAtATime
  <2> SUFFICES ASSUME CInv PROVE OneAtATime OBVIOUS
  <2>1. InDirectory = {a \in Caller : mutation = a} BY InsideHolds
  <2>2. CASE mutation \in Caller
    <3>1. InDirectory = {mutation} BY <2>1, <2>2
    <3>2. Cardinality(InDirectory) = 1 BY <3>1, FS_Singleton
    <3>3. runner \notin {"service", "inside"} BY <2>2, Closers DEF CInv, RunnerInv
    <3> QED BY <3>2, <3>3 DEF OneAtATime
  <2>3. CASE mutation \notin Caller
    <3>1. Cardinality(InDirectory) = 0 BY <2>1, <2>3, FS_EmptySet
    <3> QED BY <3>1 DEF OneAtATime
  <2> QED BY <2>2, <2>3
<1> QED BY <1>1, ClientInvariance, PTL

\* While a loader is being installed nothing is queued, nothing can be, and no other
\* operation is in the game directory (installation_controller.py:233-250, 548-557).
THEOREM LoaderWorksAlone == ClientSpec => []LoaderIsAlone
<1>1. CInv => LoaderIsAlone
  <2> SUFFICES ASSUME CInv, ~loaderIdle PROVE Idle /\ runner = "none" /\ Cardinality(InDirectory) = 1
      BY DEF LoaderIsAlone
  <2>1. PICK a \in Caller : call[a].at = "inside" BY DEF CInv, CallInv, LoaderInside
  <2>2. Idle BY DEF CInv, CallInv, LoaderInside
  <2>3. worker # "running"
    BY <2>2 DEF CInv, IInv, RunnerHasItsRow, Idle, Rows, Active
  <2>4. runner = "none" BY <2>3 DEF CInv, RunnerInv
  <2>5. mutation = a BY <2>1 DEF CInv, CallInv, HoldsMutation
  <2>6. InDirectory = {a} BY <2>5, InsideHolds
  <2> QED BY <2>2, <2>4, <2>6, FS_Singleton
<1> QED BY <1>1, ClientInvariance, PTL

\* The window only goes by itself or by finish_close when the queue is closed and
\* drained and its worker has ended (web_gui.py:756-780).
THEOREM WindowWaitsForTheQueue == ClientSpec => WindowGoesDrained
<1> DEFINE Drained == closed /\ worker = "exited" /\ Idle /\ runner = "none"
           Going == ui # "gone" /\ ui' = "gone" /\ update' = update
<1>1. CInv /\ [ClientNext]_allVars => [Going => Drained]_allVars
  <2> SUFFICES ASSUME CInv, ClientNext, Going PROVE Drained OBVIOUS
  <2>1. ~(UNCHANGED ui) OBVIOUS
  <2>2. Running BY <2>1 DEF ClientNext, allVars, threads
  <2>3. ClosingProbe \/ FinisherDestroy
    <3>1. ASSUME NEW a \in Caller, NEW op \in Operation, Begin(a, op) PROVE FALSE
      BY <2>1, <3>1 DEF Begin, OtherThreads
    <3>2. ASSUME NEW a \in Caller, CallStep(a) PROVE FALSE
      BY <2>1, <3>2 DEF CallStep, Service, Gate, EnqueueGated, QueueQuiet, TryMutation,
                        ClearLoaderIdle, WorkDone, Leave, OtherThreads
    <3>3. ~((\E t \in Task : CancelCall(t)) \/ ClearCall \/ Worker \/ RunnerProgress)
      BY <2>1 DEF CancelCall, ClearCall, Worker, RunnerProgress, threads
    <3>4. ~RunnerStep
      BY <2>1 DEF RunnerStep, RunnerLock, RunnerService, RunnerUnlock, RunnerReturn
    <3>5. ~OnClosing /\ (UiStep => ClosingProbe)
      BY <2>1 DEF OnClosing, UiStep, ClosingJoined, ClosingTimeout, ClosingLoaderIdle,
                  ClosingSchedule, OnClosed, ClosedReturns, Ui
    <3>6. FinisherStep => FinisherDestroy
      BY <2>1 DEF FinisherStep, FinisherClose, FinisherJoined, FinisherIdle, FinisherLock
    <3>7. ~UpdateAsked /\ ~UpdateStep
      BY <2>1 DEF UpdateAsked, UpdateStep, UpdateClose, UpdateJoined, UpdateDestroy,
                  UpdateExit, Update
    <3> QED BY <2>2, <3>1, <3>2, <3>3, <3>4, <3>5, <3>6, <3>7 DEF Running
  <2>4. \E c \in Closer : closer[c] = "joined"
    <3>1. CASE ClosingProbe
      BY <2>1, <3>1, Closers DEF ClosingProbe, Ui, CInv, CloseInv
    <3>2. CASE FinisherDestroy
      BY <3>2, Closers DEF FinisherDestroy, Finisher, CInv, CloseInv
    <3> QED BY <2>3, <3>1, <3>2
  <2>5. closed /\ worker = "exited" /\ Idle BY <2>4 DEF CInv, IInv, CloseIsFinal
  <2>6. runner = "none" BY <2>5 DEF CInv, RunnerInv
  <2> QED BY <2>5, <2>6
<1> QED BY <1>1, ClientInvariance, PTL DEF ClientSpec, WindowGoesDrained
=============================================================================
