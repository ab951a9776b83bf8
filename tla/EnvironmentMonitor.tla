------------------------- MODULE EnvironmentMonitor -------------------------
(***************************************************************************)
(* infrastructure/environment_monitor.py and those who ask it: the guard   *)
(* task of the hub (data_hub.py:245-266, started by web_gui.py:353-358),   *)
(* the refresher of the environment key on the hub's worker, and any other *)
(* API thread that wants the environment.                                  *)
(*                                                                         *)
(* What a reading says is abstracted to what it has seen: how many changes *)
(* of the game directory (`disk`, which the fingerprint covers) and of the *)
(* registry (`registry`, which it does not: the manager announces these).  *)
(* A fingerprint is the number of changes of the directory it has seen.    *)
(***************************************************************************)
EXTENDS Integers, FiniteSets

CONSTANTS
    Asker,        \* threads that call environment_snapshot
    Guard, Hub,   \* two of them: the guard task and the hub's worker
    Loop,         \* bound: polling threads alive at a time
    MaxDisk,      \* bound: changes of the game directory
    MaxRegistry,  \* bound: registries built
    MaxLatest     \* bound: lookups that find new loader versions

ASSUME MonitorAssumption ==
    /\ Guard \in Asker /\ Hub \in Asker /\ Guard # Hub
    /\ IsFiniteSet(Loop) /\ Loop \cap {"none"} = {}
    /\ Asker \cap {"free"} = {}
    /\ {MaxDisk, MaxRegistry, MaxLatest} \subseteq Nat

VARIABLES
    disk, registry,   \* the world
    announced,        \* registries whose invalidation has been made
    payload, latest, revision, lock,    \* fields of the monitor; the holder of `_lock`
    thread, stopped,  \* `_thread`, `_stop`
    loop,             \* per polling thread: where it is, its fingerprint `previous`
    asker,            \* per asking thread: where it is, what it has looked at
    answer,           \* per asking thread: the last snapshot it got
    token,            \* the guard's `token`, or -1
    requested,        \* the environment key is pending in the hub
    published         \* the reading the hub holds

world    == <<disk, registry, announced>>
fields   == <<payload, latest, revision, lock>>
runs     == <<thread, stopped, loop>>
asking   == <<asker, answer>>
watching == <<token, requested, published>>
envVars  == <<world, fields, runs, asking, watching>>

Reading == [disk : 0..MaxDisk, registry : 0..MaxRegistry]
Failed  == [disk |-> -1, registry |-> -1]    \* the empty reading cached when `read` raises
Unread  == [disk |-> -2, registry |-> -2]    \* `_payload` is None
NoThread == "none"
Answer  == [payload : Reading \cup {Failed, Unread}, latest : 0..MaxLatest, revision : Nat \cup {-1}]

EnvTypeOK ==
    /\ disk \in 0..MaxDisk /\ registry \in 0..MaxRegistry /\ announced \in 0..registry
    /\ payload \in Reading \cup {Failed, Unread}
    /\ latest \in 0..MaxLatest /\ revision \in Nat
    /\ lock \in Asker \cup {"free"}
    /\ thread \in Loop \cup {NoThread} /\ stopped \in BOOLEAN
    /\ loop \in [Loop -> [at : {"unborn", "first", "waiting", "silence", "tell", "ended"},
                          previous : -1..MaxDisk]]
    /\ asker \in [Asker -> [at : {"idle", "starting", "asking", "reading", "answered"},
                            got : Reading \cup {Failed, Unread}]]
    /\ answer \in [Asker -> Answer]
    /\ token \in Nat \cup {-1} /\ requested \in BOOLEAN
    /\ published \in Reading \cup {Failed, Unread}
    /\ \A a \in Asker : lock = a <=> asker[a].at = "reading"

EnvInit ==
    /\ disk = 0 /\ registry = 0 /\ announced = 0
    /\ payload = Unread /\ latest = 0 /\ revision = 0 /\ lock = "free"
    /\ thread = NoThread /\ stopped = FALSE
    /\ loop = [l \in Loop |-> [at |-> "unborn", previous |-> -1]]
    /\ asker = [a \in Asker |-> [at |-> "idle", got |-> Unread]]
    /\ answer = [a \in Asker |-> [payload |-> Unread, latest |-> 0, revision |-> -1]]
    /\ token = -1 /\ requested = TRUE /\ published = Unread    \* as data_subscribe leaves it

-----------------------------------------------------------------------------
(* The world                                                               *)

GameDirectoryChanges ==
    /\ disk < MaxDisk /\ disk' = disk + 1
    /\ UNCHANGED <<registry, announced, fields, runs, asking, watching>>

\* _build_catalog swaps the service, then invalidates and has the key refreshed.
RegistrySwapped ==
    /\ registry = announced
    /\ registry < MaxRegistry /\ registry' = registry + 1
    /\ UNCHANGED <<disk, announced, fields, runs, asking, watching>>

Invalidate ==
    /\ lock = "free"
    /\ payload' = Unread
    /\ revision' = revision + 1
    /\ UNCHANGED <<latest, lock>>

RegistryAnnounced ==
    /\ announced < registry
    /\ Invalidate
    /\ announced' = registry
    /\ requested' = TRUE
    /\ UNCHANGED <<disk, registry, runs, asking, token, published>>

NoteSilently ==    \* faulty variant: new versions do not count as a change
    /\ lock = "free"
    /\ latest < MaxLatest /\ latest' = latest + 1
    /\ UNCHANGED <<world, payload, revision, lock, runs, asking, watching>>

\* note_latest_loaders with a mapping that differs from the one noted.
NoteLatestLoaders ==
    /\ lock = "free"
    /\ latest < MaxLatest /\ latest' = latest + 1
    /\ revision' = revision + 1
    /\ UNCHANGED <<world, payload, lock, runs, asking, watching>>

-----------------------------------------------------------------------------
(* environment_snapshot: start(), which looks and acts without the lock,   *)
(* then snapshot(), which reads the environment with the lock held.        *)

Ask(a) == asker' = [asker EXCEPT ![a].at = IF thread = NoThread THEN "starting" ELSE "asking"]

StartAnew(a) ==    \* faulty variant: clears the event, so as to start after a stop
    /\ asker[a].at = "starting"
    /\ \E l \in Loop :
          /\ loop[l].at \in {"unborn", "ended"}
          /\ loop' = [loop EXCEPT ![l].at = "first"]
          /\ thread' = l
    /\ stopped' = FALSE
    /\ asker' = [asker EXCEPT ![a].at = "asking"]
    /\ UNCHANGED <<world, fields, answer, watching>>

Start(a) ==
    /\ asker[a].at = "starting"
    /\ \E l \in Loop :
          /\ loop[l].at \in {"unborn", "ended"}
          /\ loop' = [loop EXCEPT ![l].at = "first"]
          /\ thread' = l
    /\ asker' = [asker EXCEPT ![a].at = "asking"]
    /\ UNCHANGED <<world, fields, stopped, answer, watching>>

Answered(a, p) ==
    /\ answer' = [answer EXCEPT ![a] = [payload |-> p, latest |-> latest, revision |-> revision]]
    /\ asker' = [asker EXCEPT ![a] = [at |-> "answered", got |-> Unread]]

Snapshot(a) ==
    /\ asker[a].at = "asking" /\ lock = "free" /\ payload # Unread
    /\ Answered(a, payload)
    /\ UNCHANGED <<world, fields, runs, watching>>

ReadUnlocked(a) ==    \* faulty variant: reads before it takes the lock
    /\ asker[a].at = "asking" /\ lock = "free" /\ payload = Unread
    /\ \E r \in {[disk |-> disk, registry |-> registry], Failed} :
          asker' = [asker EXCEPT ![a] = [at |-> "reading", got |-> r]]
    /\ UNCHANGED <<world, fields, runs, answer, watching>>

Read(a) ==
    /\ asker[a].at = "asking" /\ lock = "free" /\ payload = Unread
    /\ lock' = a
    /\ \E r \in {[disk |-> disk, registry |-> registry], Failed} :
          asker' = [asker EXCEPT ![a] = [at |-> "reading", got |-> r]]
    /\ UNCHANGED <<world, payload, latest, revision, runs, answer, watching>>

ReadDone(a) ==
    /\ asker[a].at = "reading"
    /\ lock' = "free"
    /\ payload' = asker[a].got
    /\ Answered(a, asker[a].got)
    /\ UNCHANGED <<world, latest, revision, runs, watching>>

-----------------------------------------------------------------------------
(* The polling thread                                                      *)

Moves(l, from, to) == loop[l].at = from /\ loop' = [loop EXCEPT ![l].at = to]
LoopOnly           == UNCHANGED <<world, thread, stopped, asking, watching>>

Fingerprint(l, from, to) ==
    /\ loop[l].at = from
    /\ loop' = [loop EXCEPT ![l] = [at |-> to, previous |-> disk]]
    /\ LoopOnly /\ UNCHANGED fields

FirstFingerprint(l) == Fingerprint(l, "first", "waiting")

\* A changed fingerprint is followed by a silence.
Poll(l) ==
    /\ loop[l].previous # disk /\ ~stopped
    /\ Fingerprint(l, "waiting", "silence")

\* After it, the last state is what counts.
Settle(l) == ~stopped /\ Fingerprint(l, "silence", "tell")

Tell(l) ==
    /\ Moves(l, "tell", "waiting")
    /\ Invalidate
    /\ LoopOnly

LoopEnds(l) ==
    /\ stopped
    /\ \E from \in {"waiting", "silence"} : Moves(l, from, "ended")
    /\ LoopOnly /\ UNCHANGED fields

\* stop() forgets the thread; it waits for it, with a timeout.
Stop ==
    /\ ~stopped /\ stopped' = TRUE
    /\ thread' = NoThread
    /\ UNCHANGED <<world, fields, loop, asking, watching>>

-----------------------------------------------------------------------------
(* The askers                                                              *)

AskerOnly == UNCHANGED <<world, fields, runs, answer>>
Done(a)   == asker[a].at = "answered" /\ asker' = [asker EXCEPT ![a].at = "idle"]

\* The guard asks once a second, an API thread when it likes.
Asks(a) ==
    /\ a # Hub /\ asker[a].at = "idle"
    /\ Ask(a)
    /\ AskerOnly /\ UNCHANGED watching

ApiDone(a) ==
    /\ a \notin {Guard, Hub}
    /\ Done(a)
    /\ AskerOnly /\ UNCHANGED watching

GuardDoneIfIdle ==    \* faulty variant: no request while a refresh is under way
    /\ Done(Guard)
    /\ token' = answer[Guard].revision
    /\ requested' = (requested \/ (token # -1 /\ token # answer[Guard].revision /\ asker[Hub].at = "idle"))
    /\ AskerOnly /\ UNCHANGED published

\* The first token is taken as it comes; a new one requests the key.
GuardDone ==
    /\ Done(Guard)
    /\ token' = answer[Guard].revision
    /\ requested' = (requested \/ (token # -1 /\ token # answer[Guard].revision))
    /\ AskerOnly /\ UNCHANGED published

HubTakes ==
    /\ requested /\ asker[Hub].at = "idle"
    /\ requested' = FALSE
    /\ Ask(Hub)
    /\ AskerOnly /\ UNCHANGED <<token, published>>

HubPublishes ==
    /\ Done(Hub)
    /\ published' = answer[Hub].payload
    /\ AskerOnly /\ UNCHANGED <<token, requested>>

-----------------------------------------------------------------------------

LoopStep(l)  == FirstFingerprint(l) \/ Poll(l) \/ Settle(l) \/ Tell(l) \/ LoopEnds(l)
AskerStep(a) == Start(a) \/ Snapshot(a) \/ Read(a) \/ ReadDone(a) \/ ApiDone(a)

EnvNext ==
    \/ GameDirectoryChanges \/ RegistrySwapped \/ RegistryAnnounced \/ NoteLatestLoaders
    \/ \E a \in Asker : Asks(a) \/ AskerStep(a)
    \/ \E l \in Loop : LoopStep(l)
    \/ GuardDone \/ HubTakes \/ HubPublishes
    \/ Stop

EnvSpec == EnvInit /\ [][EnvNext]_envVars

\* Threads run, reading local files ends, the guard's period comes round.  A thread
\* that waits for the lock gets it in the end.
EnvFairness ==
    /\ \A l \in Loop : SF_envVars(Tell(l)) /\ WF_envVars(LoopStep(l))
    /\ \A a \in Asker : SF_envVars(Snapshot(a) \/ Read(a)) /\ WF_envVars(AskerStep(a))
    /\ WF_envVars(Asks(Guard)) /\ WF_envVars(GuardDone)
    /\ WF_envVars(HubTakes) /\ WF_envVars(HubPublishes)
    /\ SF_envVars(RegistryAnnounced)

FairEnvSpec == EnvSpec /\ EnvFairness

-----------------------------------------------------------------------------
(* Properties                                                              *)

\* The revision is all that the guard compares: two snapshots with the same revision
\* say the same, so nothing that changed hides behind an unchanged number
\* (environment_monitor.py:95-118).
SameRevisionSameReading ==
    \A a, b \in Asker :
        answer[a].revision = answer[b].revision =>
            answer[a].payload = answer[b].payload /\ answer[a].latest = answer[b].latest

\* Once the manager has announced its own change, no reading made before it is
\* answered as current: a reading under way when the registry was swapped does not
\* outlive the invalidation (catalog_controller.py:73-79).
NoOldRegistry ==
    payload \in {Unread, Failed} \/ payload.registry >= announced

\* The loop threads end when the monitor is stopped, a second one too, which two
\* askers may have started between them (lines 120-124 take no lock).
LoopsEnd == \A l \in Loop : stopped ~> loop[l].at \in {"unborn", "ended"}

\* A change of the game directory seen by a running loop, with the guard at work,
\* reaches what the hub publishes.
ChangeReachesTheHub ==
    \A n \in 1..MaxDisk :
        (/\ disk = n /\ token # -1
         /\ \E l \in Loop : loop[l].at = "waiting" /\ loop[l].previous < n)
        ~> (stopped \/ published = Failed \/ (published # Unread /\ published.disk >= n))

\* As the module's first line has it: when the files of the game directory change,
\* the environment is read again (whoever asked first has started the loop).
ChangeIsNoticed ==
    \A n \in 1..MaxDisk :
        (disk = n /\ \E l \in Loop : loop[l].at # "unborn")
        ~> (stopped \/ payload \in {Unread, Failed} \/ payload.disk >= n)

=============================================================================
