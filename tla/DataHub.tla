------------------------------ MODULE DataHub ------------------------------
(***************************************************************************)
(* application/data_hub.py with the two ends of it: the API threads that   *)
(* write (presentation/web_gui.py, settings_controller.py,                 *)
(* catalog_controller.py) and the mirror the page keeps                    *)
(* (client_ui/js/data.js).                                                 *)
(*                                                                         *)
(* What a refresher computes is abstracted to when it looked: the number   *)
(* of changes, of the disk or of the configured game directory, up to      *)
(* then.  Every operation of the hub holds its lock for one step; a push   *)
(* is a step of its own, in the thread that published, so pushes of        *)
(* several threads reach the page in any order.                            *)
(***************************************************************************)
EXTENDS Integers, FiniteSets

CONSTANTS
    Key,          \* the keys of the hub
    Catalog,      \* the key whose refresher is under `_catalog_lock`
    Loader,       \* API threads that call load_catalog
    Faulty,       \* keys whose refresher may raise
    Lossy,        \* evaluate_js may raise: a push is lost
    MaxChange,    \* bound: changes to the disk and of the directory
    MaxMove       \* bound: changes of the directory

ASSUME HubAssumption ==
    /\ IsFiniteSet(Key)
    /\ Faulty \subseteq Key
    /\ Lossy \in BOOLEAN
    /\ MaxChange \in Nat /\ MaxMove \in Nat
    /\ Loader \cap {"worker", "settings", "change", "page", "free"} = {}
    /\ Loader # {} => Catalog \in Key

VARIABLES
    changes, moved,   \* changes so far; the one that last moved the game directory
    value, revision,  \* per key; `known` is value # None
    epoch, pending,   \* the refresh epoch; per key the epoch of the request, or -1
    wake, closing,    \* the event `_wake`, the flag `_closing`
    worker,           \* the hub's thread: control, and its locals
    catalogLock,      \* holder of `_catalog_lock`
    thread,           \* per API thread: where it is
    reading,          \* per API thread: the catalog it has built
    outbox,           \* per thread: the events it has still to push
    subscribed,       \* whether the page has subscribed
    mirror            \* per key: what the page shows, and its revision

world   == <<changes, moved>>
hub     == <<value, revision, epoch>>
queue   == <<pending, wake>>
hubVars == <<world, hub, queue, closing, worker, catalogLock, thread, reading,
             outbox, subscribed, mirror>>

Thread   == Loader \cup {"settings", "change"}
Pusher   == Thread \cup {"worker", "page"}
None     == -1          \* a key the hub does not know
Free     == "free"
Shown    == 0..MaxChange \cup {None}
Event    == [key : Key, value : Shown, revision : Nat]
Place    == {"idle", "saved", "announce", "load", "build", "built"}
Control  == {"unborn", "waiting", "woken", "cleared", "next", "reading", "building",
             "read", "fresh", "dead"}
Worker   == [at : Control, batch : SUBSET (Key \X Nat), key : Key \cup {Catalog},
             epoch : Nat, got : Shown]

HubTypeOK ==
    /\ changes \in 0..MaxChange /\ moved \in 0..changes
    /\ value \in [Key -> Shown]
    /\ revision \in [Key -> Nat]
    /\ epoch \in Nat
    /\ pending \in [Key -> Nat \cup {-1}]
    /\ wake \in BOOLEAN /\ closing \in BOOLEAN /\ subscribed \in BOOLEAN
    /\ worker \in Worker
    /\ catalogLock \in Thread \cup {"worker", Free}
    /\ thread \in [Thread -> Place]
    /\ reading \in [Thread -> Shown]
    /\ outbox \in [Pusher -> SUBSET Event]
    /\ mirror \in [Key -> [value : Shown, revision : Nat]]
    /\ \A t \in Thread : catalogLock = t <=> thread[t] = "build"
    /\ catalogLock = "worker" <=> worker.at = "building"
    /\ worker.at \in {"reading", "building", "read", "fresh"} => worker.key \in Key
    /\ \A t \in Thread : thread[t] \in {"load", "build", "built"} => Catalog \in Key

HubInit ==
    /\ changes = 0 /\ moved = 0
    /\ value = [k \in Key |-> None]
    /\ revision = [k \in Key |-> 0]
    /\ epoch = 0
    /\ pending = [k \in Key |-> -1]
    /\ wake = FALSE /\ closing = FALSE /\ subscribed = FALSE
    /\ worker = [at |-> "unborn", batch |-> {}, key |-> Catalog, epoch |-> 0, got |-> None]
    /\ catalogLock = Free
    /\ thread = [t \in Thread |-> "idle"]
    /\ reading = [t \in Thread |-> None]
    /\ outbox = [t \in Pusher |-> {}]
    /\ mirror = [k \in Key |-> [value |-> None, revision |-> 0]]

-----------------------------------------------------------------------------
(* Operations of the hub, as the threads use them                          *)

\* _enqueue: a second request for a key overwrites the first; the first request
\* of all starts the worker.
Enqueue(keys) ==
    /\ pending' = [k \in Key |-> IF k \in keys THEN epoch ELSE pending[k]]
    /\ wake' = TRUE

Born(w) == IF w.at = "unborn" THEN [w EXCEPT !.at = "waiting"] ELSE w

Request(keys) == Enqueue(keys) /\ worker' = Born(worker)

PublishSameRevision(t, k, v) ==    \* faulty variant: the revision is counted per request
    IF value[k] = v
    THEN UNCHANGED <<value, revision, outbox>>
    ELSE /\ value' = [value EXCEPT ![k] = v]
         /\ revision' = [revision EXCEPT ![k] = IF @ = 0 THEN 1 ELSE @]
         /\ outbox' = [outbox EXCEPT ![t] =
                         @ \cup {[key |-> k, value |-> v, revision |-> revision'[k]]}]

\* publish: a value that did not change is no event.
Publish(t, k, v) ==
    IF value[k] = v
    THEN UNCHANGED <<value, revision, outbox>>
    ELSE /\ value' = [value EXCEPT ![k] = v]
         /\ revision' = [revision EXCEPT ![k] = @ + 1]
         /\ outbox' = [outbox EXCEPT ![t] =
                         @ \cup {[key |-> k, value |-> v, revision |-> revision[k] + 1]}]

Invalidate(t, keys) ==
    /\ epoch' = epoch + 1
    /\ value' = [k \in Key |-> IF k \in keys THEN None ELSE value[k]]
    /\ revision' = [k \in Key |-> IF k \in keys THEN revision[k] + 1 ELSE revision[k]]
    /\ outbox' = [outbox EXCEPT ![t] =
                    @ \cup {[key |-> k, value |-> None, revision |-> revision[k] + 1] : k \in keys}]

Stale(e) == e # epoch

-----------------------------------------------------------------------------
(* Pushing, and the page: dataDeliver, dataApplySnapshot                   *)

DeliverAny(e) ==    \* faulty variant: shows whatever comes last
    mirror' = [mirror EXCEPT ![e.key] = [value |-> e.value, revision |-> e.revision]]

\* A late event does not overwrite a newer reading.
Deliver(e) ==
    mirror' = IF e.revision <= mirror[e.key].revision THEN mirror
              ELSE [mirror EXCEPT ![e.key] = [value |-> e.value, revision |-> e.revision]]

\* Pushed only if the page has subscribed by now.
Push(t) ==
    \E e \in outbox[t] :
        /\ outbox' = [outbox EXCEPT ![t] = @ \ {e}]
        /\ \/ subscribed /\ Deliver(e)
           \/ (~subscribed \/ (Lossy /\ t # "page")) /\ UNCHANGED mirror
        /\ UNCHANGED <<world, hub, queue, closing, worker, catalogLock, thread,
                       reading, subscribed>>

SubscribeLate ==    \* faulty variant: answers without the snapshot
    /\ ~subscribed
    /\ subscribed' = TRUE
    /\ LET known == {k \in Key : value[k] # None}
       IN  IF known = Key THEN UNCHANGED <<queue, worker>> ELSE Request(Key \ known)
    /\ UNCHANGED <<world, hub, closing, catalogLock, thread, reading, outbox, mirror>>

\* data_subscribe: the snapshot of the known keys is the answer of the call, the
\* others are requested.
Subscribe ==
    /\ ~subscribed
    /\ subscribed' = TRUE
    /\ LET known == {k \in Key : value[k] # None}
       IN  /\ outbox' = [outbox EXCEPT !["page"] =
                   {[key |-> k, value |-> value[k], revision |-> revision[k]] : k \in known}]
           /\ IF known = Key THEN UNCHANGED <<queue, worker>> ELSE Request(Key \ known)
    /\ UNCHANGED <<world, hub, closing, catalogLock, thread, reading, mirror>>

\* data_request, and the periodic tasks of the hub.
DataRequest(k) ==
    /\ Request({k})
    /\ UNCHANGED <<world, hub, closing, catalogLock, thread, reading, outbox,
                   subscribed, mirror>>

-----------------------------------------------------------------------------
(* The hub's worker thread                                                 *)

WorkerGoes(from, to) == worker.at = from /\ worker' = [worker EXCEPT !.at = to]
WorkerDrops(from, to) ==    \* the locals of the refresh are done with
    /\ worker.at = from
    /\ worker' = [worker EXCEPT !.at = to, !.key = Catalog, !.epoch = 0, !.got = None]
WorkerOnly           == UNCHANGED <<world, closing, thread, reading, subscribed, mirror>>

\* The event is set; the flag is looked at before the event is cleared.
Woken ==
    /\ wake
    /\ WorkerGoes("waiting", IF closing THEN "dead" ELSE "woken")
    /\ WorkerOnly /\ UNCHANGED <<hub, queue, catalogLock, outbox>>

WakeClear ==
    /\ WorkerGoes("woken", "cleared")
    /\ wake' = FALSE
    /\ WorkerOnly /\ UNCHANGED <<hub, pending, catalogLock, outbox>>

TakePending ==
    /\ worker.at = "cleared"
    /\ worker' = [worker EXCEPT !.at = "next",
                                !.batch = {<<k, pending[k]>> : k \in {j \in Key : pending[j] # -1}}]
    /\ pending' = [k \in Key |-> -1]
    /\ WorkerOnly /\ UNCHANGED <<hub, wake, catalogLock, outbox>>

\* The next request of the batch, once the last reading has been pushed; one from
\* before an invalidation is skipped.
NextRequest ==
    /\ outbox["worker"] = {}
    /\ \/ worker.batch = {} /\ WorkerGoes("next", "waiting")
       \/ worker.batch # {} /\ closing /\ WorkerGoes("next", "dead")
       \/ /\ worker.at = "next" /\ ~closing
          /\ \E r \in worker.batch :
                worker' = IF Stale(r[2])
                          THEN [worker EXCEPT !.batch = @ \ {r}]
                          ELSE [worker EXCEPT !.batch = @ \ {r}, !.at = "reading",
                                              !.key = r[1], !.epoch = r[2]]
    /\ WorkerOnly /\ UNCHANGED <<hub, queue, catalogLock, outbox>>

Read ==
    /\ worker.at = "reading" /\ worker.key # Catalog
    /\ worker' = [worker EXCEPT !.at = "read", !.got = changes]
    /\ WorkerOnly /\ UNCHANGED <<hub, queue, catalogLock, outbox>>

ReadCatalog ==
    /\ worker.at = "reading" /\ worker.key = Catalog
    /\ catalogLock = Free /\ catalogLock' = "worker"
    /\ worker' = [worker EXCEPT !.at = "building", !.got = changes]
    /\ WorkerOnly /\ UNCHANGED <<hub, queue, outbox>>

\* A refresher that raises leaves the value as it is; the catalog's raises when a
\* load is under way.
ReadFails ==
    /\ worker.key \in Faulty \/ (worker.key = Catalog /\ catalogLock # Free)
    /\ WorkerDrops("reading", "next")
    /\ WorkerOnly /\ UNCHANGED <<hub, queue, catalogLock, outbox>>

\* Having built a catalog, _build_catalog has the readings that depend on it refreshed.
BuiltCatalog ==
    /\ worker.at = "building"
    /\ worker' = [worker EXCEPT !.at = "read"]
    /\ Enqueue(Key \ {Catalog})
    /\ catalogLock' = Free
    /\ WorkerOnly /\ UNCHANGED <<hub, outbox>>

\* The epoch is looked at once more; `_stale` gives the lock back before publish.
Recheck ==
    /\ IF Stale(worker.epoch) THEN WorkerDrops("read", "next") ELSE WorkerGoes("read", "fresh")
    /\ WorkerOnly /\ UNCHANGED <<hub, queue, catalogLock, outbox>>

PublishRead ==
    /\ WorkerDrops("fresh", "next")
    /\ Publish("worker", worker.key, worker.got)
    /\ WorkerOnly /\ UNCHANGED <<epoch, queue, catalogLock>>

-----------------------------------------------------------------------------
(* API threads                                                             *)

Goes(t, from, to) == thread[t] = from /\ thread' = [thread EXCEPT ![t] = to]
ThreadOnly        == UNCHANGED <<closing, subscribed, mirror>>

\* An install, a removal, a toggle has changed the disk; then data_changed.
ChangeDisk ==
    /\ Goes("change", "idle", "announce")
    /\ changes < MaxChange /\ changes' = changes + 1
    /\ ThreadOnly
    /\ UNCHANGED <<moved, hub, queue, worker, catalogLock, reading, outbox>>

DataChangedIfIdle ==    \* faulty variant: relies on the refresh that is under way
    /\ Goes("change", "announce", "idle")
    /\ IF worker.at \in {"unborn", "waiting"} THEN Request(Key \ {Catalog})
                                             ELSE UNCHANGED <<queue, worker>>
    /\ ThreadOnly /\ UNCHANGED <<world, hub, catalogLock, reading, outbox>>

DataChanged ==
    /\ Goes("change", "announce", "idle")
    /\ Request(Key \ {Catalog})
    /\ ThreadOnly /\ UNCHANGED <<world, hub, catalogLock, reading, outbox>>

\* save_settings with a new game path: the setting, the invalidation, the requests;
\* then the page loads the catalog.
SaveSettings ==
    /\ Goes("settings", "idle", "saved")
    /\ outbox["settings"] = {}
    /\ epoch < MaxMove /\ changes < MaxChange
    /\ changes' = changes + 1 /\ moved' = changes + 1
    /\ ThreadOnly
    /\ UNCHANGED <<hub, queue, worker, catalogLock, reading, outbox>>

InvalidateAll ==
    /\ Goes("settings", "saved", "announce")
    /\ Invalidate("settings", Key)
    /\ ThreadOnly /\ UNCHANGED <<world, queue, worker, catalogLock, reading>>

SettingsUnrequested ==    \* faulty variant: invalidates and leaves it at that
    /\ outbox["settings"] = {}
    /\ Goes("settings", "announce", IF Catalog \in Key THEN "load" ELSE "idle")
    /\ ThreadOnly
    /\ UNCHANGED <<world, hub, queue, worker, catalogLock, reading, outbox>>

SettingsChanged ==
    /\ outbox["settings"] = {}
    /\ Goes("settings", "announce", IF Catalog \in Key THEN "load" ELSE "idle")
    /\ Request(Key \ {Catalog})
    /\ ThreadOnly /\ UNCHANGED <<world, hub, catalogLock, reading, outbox>>

\* load_catalog: refused when the catalog is being built; published once the lock
\* has been given back, whatever has been invalidated meanwhile.
BeginLoad(t) ==
    /\ catalogLock = Free
    /\ Goes(t, IF t = "settings" THEN "load" ELSE "idle", "build")
    /\ outbox[t] = {}
    /\ catalogLock' = t
    /\ reading' = [reading EXCEPT ![t] = changes]
    /\ ThreadOnly /\ UNCHANGED <<world, hub, queue, worker, outbox>>

LoadRefused(t) ==
    /\ catalogLock # Free
    /\ Goes(t, "load", "idle")
    /\ ThreadOnly /\ UNCHANGED <<world, hub, queue, worker, catalogLock, reading, outbox>>

EndLoad(t) ==
    /\ Goes(t, "build", "built")
    /\ catalogLock' = Free
    /\ Request(Key \ {Catalog})
    /\ ThreadOnly /\ UNCHANGED <<world, hub, reading, outbox>>

LoadFailsHolding(t) ==    \* faulty variant: the lock is not released when the load raises
    /\ Catalog \in Faulty
    /\ Goes(t, "build", "idle")
    /\ reading' = [reading EXCEPT ![t] = None]
    /\ ThreadOnly /\ UNCHANGED <<world, hub, queue, worker, catalogLock, outbox>>

LoadFails(t) ==
    /\ Catalog \in Faulty
    /\ Goes(t, "build", "idle")
    /\ catalogLock' = Free
    /\ reading' = [reading EXCEPT ![t] = None]
    /\ ThreadOnly /\ UNCHANGED <<world, hub, queue, worker, outbox>>

PublishLoad(t) ==
    /\ Goes(t, "built", "idle")
    /\ Publish(t, Catalog, reading[t])
    /\ reading' = [reading EXCEPT ![t] = None]
    /\ ThreadOnly /\ UNCHANGED <<world, epoch, queue, worker, catalogLock>>

\* close: the flag and the two events; it then waits for the worker, with a timeout.
Close ==
    /\ ~closing
    /\ closing' = TRUE
    /\ wake' = TRUE
    /\ UNCHANGED <<world, hub, pending, worker, catalogLock, thread, reading,
                   outbox, subscribed, mirror>>

-----------------------------------------------------------------------------

WorkerStep ==
    \/ Woken \/ WakeClear \/ TakePending \/ NextRequest
    \/ Read \/ ReadCatalog \/ ReadFails \/ BuiltCatalog \/ Recheck \/ PublishRead

ThreadStep(t) ==
    \/ t = "change" /\ DataChanged
    \/ t = "settings" /\ (InvalidateAll \/ SettingsChanged \/ BeginLoad(t) \/ LoadRefused(t))
    \/ EndLoad(t) \/ LoadFails(t) \/ PublishLoad(t)

HubNext ==
    \/ WorkerStep
    \/ \E t \in Pusher : Push(t)
    \/ \E t \in Thread : ThreadStep(t)
    \/ \E t \in Loader : BeginLoad(t)
    \/ ChangeDisk \/ SaveSettings \/ Subscribe \/ Close
    \/ \E k \in Key : DataRequest(k)

HubSpec == HubInit /\ [][HubNext]_hubVars

\* Threads run, refreshers return (their I/O has timeouts), evaluate_js comes back,
\* and the page subscribes once it is up.
HubFairness ==
    /\ WF_hubVars(WorkerStep)
    /\ \A t \in Pusher : WF_hubVars(Push(t))
    /\ \A t \in Thread : WF_hubVars(ThreadStep(t))
    /\ WF_hubVars(Subscribe)

FairHubSpec == HubSpec /\ HubFairness

-----------------------------------------------------------------------------
(* Properties                                                              *)

\* The page never runs ahead of the hub, and what it shows under the hub's current
\* revision is the hub's value: a late, doubled or lost push leaves it behind but
\* never with two readings mixed up (data.js:30-44, data_hub.py:135-169).
MirrorAgrees ==
    \A k \in Key :
        /\ mirror[k].revision <= revision[k]
        /\ mirror[k].revision > 0 /\ mirror[k].revision = revision[k]
              => mirror[k].value = value[k]

\* A push that comes late, after a newer one of another thread, does not bring an
\* older reading back to the page (data.js:34).
PageNeverGoesBack ==
    [][\A k \in Key :
          /\ mirror'[k].revision >= mirror[k].revision
          /\ mirror'[k].revision = mirror[k].revision => mirror'[k] = mirror[k]]_hubVars

\* When pushes arrive, the page comes to show what the hub holds: also when it
\* subscribes while a push is under way, whose key was invalidated since.
PageCatchesUp ==
    \A k \in Key : \A v \in Shown :
        (subscribed /\ value[k] = v) ~> (closing \/ mirror[k].value = v \/ value[k] # v)

\* What an operation changed on disk and announced comes to be shown, whatever is
\* refreshed, invalidated or loaded meanwhile.  (For the keys only the worker
\* publishes.)
ChangeIsShown ==
    \A k \in Key \ {Catalog} : \A n \in 1..MaxChange :
        (changes >= n /\ thread["change"] = "announce") ~> (closing \/ value[k] >= n)

\* After a change of the game directory, a reading of the old directory does not
\* stay (the same keys).
OldDirectoryGoes ==
    \A k \in Key \ {Catalog} : \A n \in 1..MaxChange :
        (moved = n) ~> (closing \/ moved # n \/ value[k] >= n)

\* As the docstring of invalidate() and its test have it: what a refresh begun
\* before an invalidation read is dropped, it never comes back into the hub.
StaleReadingIsDropped ==
    [][worker.at = "fresh" /\ worker'.at = "next" /\ Stale(worker.epoch)
         => value' = value]_hubVars

\* As catalog.js has it: a load refused because another one is under way leaves it
\* to that one to show the catalog.
CatalogComesBack ==
    (thread["settings"] = "load") ~> (closing \/ value[Catalog] # None)

=============================================================================
