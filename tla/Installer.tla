------------------------------- MODULE Installer -------------------------------
(***************************************************************************)
(* The installer of one game directory: the files on disk, the records in  *)
(* installed.json, and the three stores beside them that outlive an        *)
(* operation - the originals a patch displaced, the zips of a directory a  *)
(* package took over, the archives of removed loaders.  An install is      *)
(*   displaced loaders are removed / archives are restored / the plan is   *)
(*   checked and the next records computed / one transaction: clear the    *)
(*   taken directory, delete obsolete files, put the new ones, save.       *)
(* Every step that touches the disk is one action; between two of them a   *)
(* file operation may fail (the transaction rolls back) or the process may *)
(* end (it does not).  A file stands for a logical file, enabled or not; a *)
(* release is its position in the package's list, the last one the newest. *)
(***************************************************************************)
EXTENDS Naturals, Sequences, FiniteSets

CONSTANTS Package, File,
          Content,          \* what release files may hold
          UserContent,      \* what only the player writes
          Registries,       \* the indexes considered; one is chosen at the start
          BackupLimit,      \* REPLACED_BACKUP_LIMIT
          None, Blank,      \* no value; a record without a digest
          ConcurrentReader, \* does the reader run beside the operations?
          MaxTouch, MaxFaults, MaxLost, MaxCrash   \* bounds of the model, with registry.ops

Kinds == {"mod", "patch", "loader", "bridge", "replacer"}
Value == Content \cup UserContent
Slot == [File -> Value \cup {None}]
Payload == [File -> Content \cup {None}]
Digest == Value \cup {None, Blank}
PackageRecord == [release : Nat \ {0}, requested : BOOLEAN, files : SUBSET File,
                  deps : SUBSET Package]
Entry == [sha : Digest, owners : SUBSET Package]
View == [packages : [Package -> PackageRecord \cup {None}], files : [File -> Entry \cup {None}]]

(***************************************************************************)
(* An index: kind and dependencies of each package (all of them, and those *)
(* it declares itself), its releases (what each file holds), the places a  *)
(* loader occupies in the game directory (its own and those it supplies to *)
(* others, each a set of files), the loaders it cannot live beside, the    *)
(* directory a replacer takes over; and how many operations are tried.     *)
(***************************************************************************)
ASSUME InstallerAssumption ==
  /\ BackupLimit \in Nat \ {0}
  /\ Content \cap UserContent = {} /\ {None, Blank} \cap Value = {} /\ None # Blank
  /\ None \notin PackageRecord \cup Entry \cup View
  /\ IsFiniteSet(File)
  /\ ConcurrentReader \in BOOLEAN
  /\ {MaxTouch, MaxFaults, MaxLost, MaxCrash} \subseteq Nat
  /\ \A r \in Registries :
       /\ r.kind \in [Package -> Kinds]
       /\ r.deps \in [Package -> SUBSET Package]
       /\ r.declared \in [Package -> SUBSET Package]
       /\ r.conflicts \in [Package -> SUBSET Package]
       /\ r.area \subseteq File /\ r.ops \in Nat
       /\ \A p \in Package : /\ r.payload[p] \in Seq(Payload) /\ r.payload[p] # <<>>
                             /\ r.own[p] \cup r.supply[p] \subseteq SUBSET File

VARIABLES
  registry,
  disk,      \* the game directory: what each file holds
  records,   \* installed.json: the packages, and the digest kept for each file
  original,  \* backup/patched: what a patch displaced
  zips,      \* backup/replaced: snapshots of the taken directory, oldest first
  archives,  \* backup/loaders: per loader what was moved away, and its manifest
  install,   \* the install under way: its items and the loaders still to displace
  op,        \* the transaction under way
  reader,    \* reconcile, which takes no lock
  used,      \* how much of the bounds is spent
  suspect,   \* history: files somebody else changed, or a crash or lost copy tore
  mine,      \* history: what the player left in a file and was never told to give up
  asked      \* history: packages asked for and not given back

vars == <<registry, disk, records, original, zips, archives, install, op, reader,
          used, suspect, mine, asked>>
stores == <<original, zips, archives>>
history == <<suspect, mine, asked>>
--------------------------------------------------------------------------------
Present(packages) == {p \in Package : packages[p] # None}
Kind(p) == registry.kind[p]
Is(kind) == {p \in Package : Kind(p) = kind}
Homes == Is("loader") \cup Is("bridge")      \* the packages that leave through an archive
Newest(p) == Len(registry.payload[p])

Listing(packages, f) == {p \in Present(packages) : f \in packages[p].files}
Requiring(packages, p) == {q \in Present(packages) : p \in packages[q].deps}

\* StateStore.load: the file table is derived, its owners are the packages that list a file
Load ==
  [packages |-> records.packages,
   files |-> [f \in File |-> IF records.sha[f] = None THEN None
                             ELSE [sha |-> records.sha[f],
                                   owners |-> Listing(records.packages, f)]]]

\* StateStore.save: a listed file without an entry is kept with a blank digest
Stored(view) ==
  [packages |-> view.packages,
   sha |-> [f \in File |-> IF view.files[f] # None THEN view.files[f].sha
                           ELSE IF Listing(view.packages, f) # {} THEN Blank ELSE None]]

\* The packages no request reaches: what the loop of _orphan_packages peels off
Orphans(packages) ==
  Present(packages) \ UNION {S \in SUBSET Present(packages) :
      \A p \in S : packages[p].requested \/ Requiring(packages, p) \cap S # {}}

\* remove(): the package and every unrequested dependency only removed packages need
RemovingGreedy(packages, p) ==   \* faulty variant: takes what others still need
  LET Closed(S) == \A q \in S : \A d \in packages[q].deps \cap Present(packages) :
                     ~packages[d].requested => d \in S
  IN {q \in Present(packages) :
        \A S \in SUBSET Present(packages) : p \in S /\ Closed(S) => q \in S}
Removing(packages, p) ==
  LET Closed(S) == \A q \in S : \A d \in packages[q].deps \cap Present(packages) :
                     (~packages[d].requested /\ Requiring(packages, d) \subseteq S) => d \in S
  IN {q \in Present(packages) :
        \A S \in SUBSET Present(packages) : p \in S /\ Closed(S) => q \in S}

Plan(p) == {q \in Package : \A S \in SUBSET Package :
              p \in S /\ (\A x \in S : registry.deps[x] \subseteq S) => q \in S}

Disowned(view, gone) ==
  [view EXCEPT !.files = [f \in File |-> IF view.files[f] = None THEN None
                          ELSE [view.files[f] EXCEPT !.owners = @ \ gone]]]
Ownerless(view) == {f \in File : view.files[f] # None /\ view.files[f].owners = {}}
Without(view, files) ==
  [view EXCEPT !.files = [f \in File |-> IF f \in files THEN None ELSE view.files[f]]]
--------------------------------------------------------------------------------
Idle == [at |-> "idle"]
Quiet == op = Idle /\ install = None /\ (ConcurrentReader \/ reader = None)
NoSlot == [f \in File |-> None]
Unsaved == [f \in File |-> Blank]       \* the transaction has saved no file yet

InstallerInit ==
  /\ registry \in Registries
  /\ disk = NoSlot /\ original = NoSlot /\ zips = <<>>
  /\ records = [packages |-> [p \in Package |-> None], sha |-> NoSlot]
  /\ archives = [p \in Package |-> [payload |-> NoSlot, manifest |-> None]]
  /\ install = None /\ op = Idle /\ reader = None
  /\ used = [ops |-> 0, touch |-> 0, faults |-> 0, lost |-> 0, crash |-> 0]
  /\ suspect = {} /\ mine = NoSlot /\ asked = {}

Spend(what) == used' = [used EXCEPT ![what] = @ + 1]

\* FileTransaction.backup_file / backup_directory: the first copy of a file wins
SaveLast(backup, files) == [f \in File |-> IF f \in files THEN disk[f] ELSE backup[f]]   \* faulty
Save1(backup, files) == [f \in File |-> IF f \in files /\ backup[f] = Blank
                                        THEN disk[f] ELSE backup[f]]

\* the installed loaders no loader of the plan can live beside (capability_conflicts)
InTheWay(plan) == {q \in Present(records.packages) \ plan :
                     \E x \in plan : q \in registry.conflicts[x]}

\* ModManagerService.install: resolve and prepare.  A dependency whose recorded version is
\* the planned one is not prepared again; the loaders in the way are known from here on.
BeginInstall(p, release, force) ==
  /\ Quiet /\ used.ops < registry.ops
  /\ LET plan == Plan(p)
         at(q) == IF q = p THEN release
                  ELSE IF records.packages[q] # None /\ records.packages[q].release = Newest(q)
                  THEN 0 ELSE Newest(q)
     IN install' = [root |-> p, force |-> force, plan |-> plan,
                    items |-> [q \in Package |-> IF q \in plan THEN at(q) ELSE 0],
                    displaced |-> InTheWay(plan)]
  /\ Spend("ops")
  /\ UNCHANGED <<registry, disk, records, stores, op, reader, history>>

Items == {p \in Package : install.items[p] # 0}
Holds(p, f) == registry.payload[p][install.items[p]][f]
Incoming(f) == {p \in Items : Holds(p, f) # None}
Patches(f) == Incoming(f) \cap Is("patch")
Source(f) == IF Patches(f) # {} THEN Patches(f) ELSE Incoming(f)
Chosen(f) == Holds(CHOOSE p \in Source(f) : TRUE, f)
Replacers == Items \cap Is("replacer")
Taken == IF Replacers = {} THEN {} ELSE registry.area

\* _resolved_incoming, and the two replacing packages of one plan
PlanClash ==
  \/ \E f \in File : \E S \in {Patches(f), Incoming(f) \ Patches(f)} :
       Cardinality({Holds(p, f) : p \in S}) > 1
  \/ Cardinality(Replacers) > 1

ApplyBegin ==
  /\ op = Idle /\ install # None /\ install.displaced = {}
  /\ IF PlanClash THEN install' = None /\ UNCHANGED op
     ELSE /\ op' = [at |-> "restore", view |-> Load, restored |-> {},
                    loaders |-> {l \in Items \cap Homes : archives[l].manifest # None}]
          /\ UNCHANGED install
  /\ UNCHANGED <<registry, disk, records, stores, reader, used, history>>

\* restore_archive: what is on disk wins; a different file keeps its copy in the archive
Returned(d, payload) == [f \in File |-> IF d[f] = None THEN payload[f] ELSE d[f]]
Blocked(d, payload) == {f \in File : payload[f] # None /\ d[f] \notin {None, payload[f]}}
Left(d, payload) == [f \in File |-> IF f \in Blocked(d, payload) THEN payload[f] ELSE None]

\* _restore_loader_archives, one loader; the records come back only into the next records
RestoreArchive(l) ==
  /\ op.at = "restore" /\ l \in op.loaders
  /\ LET a == archives[l]
         m == a.manifest
         back == {p \in Package : m.packages[p] # None /\ op.view.packages[p] = None}
         restored == op.restored \cup back
         files == [f \in File |->
                     IF m.files[f] # None /\ f \notin Blocked(disk, a.payload)
                        /\ op.view.files[f] = None /\ Returned(disk, a.payload)[f] # None
                     THEN m.files[f] ELSE op.view.files[f]]
         packages == [p \in Package |->
                        LET r == IF p \in back THEN m.packages[p] ELSE op.view.packages[p]
                        IN IF p \in restored
                           THEN [r EXCEPT !.files = {f \in @ : files[f] # None}] ELSE r]
         owed == [files |-> [f \in File |-> IF files[f] = None THEN m.files[f] ELSE None],
                  packages |-> [p \in Package |-> None]]
         left == Left(disk, a.payload)
     IN /\ disk' = Returned(disk, a.payload)
        /\ archives' = [archives EXCEPT ![l] =
             [payload |-> left,
              manifest |-> IF left = NoSlot /\ owed.files = NoSlot THEN None ELSE owed]]
        /\ op' = [op EXCEPT !.view = [packages |-> packages, files |-> files],
                            !.restored = restored, !.loaders = @ \ {l}]
  /\ UNCHANGED <<registry, records, original, zips, install, reader, used, history>>
--------------------------------------------------------------------------------
(* The checks of apply(): what is refused, and the next records otherwise *)

Evicted == {p \in Present(op.view.packages) \ Items : Replacers # {} /\ Kind(p) = "replacer"}
OldReplacers == Present(op.view.packages) \cap Is("replacer")

Recorders(f) == Incoming(f) \ Is("loader")   \* a base runtime keeps no list of files
Targets == {f \in File : Recorders(f) # {}}

\* the records with replaced and re-laid packages giving up their files
Vacated ==
  Disowned(Without([op.view EXCEPT !.packages =
                      [p \in Package |-> IF p \in Evicted THEN None ELSE @[p]]], Taken),
           Items)

EvictionRefused ==
  \/ \E p \in Evicted : ~(Requiring(op.view.packages, p) \subseteq OldReplacers)
  \/ \E f \in Taken : op.view.files[f] # None /\ ~(op.view.files[f].owners \subseteq OldReplacers)

DiffersNever(f, expected) == FALSE   \* faulty variant: overwrites what it finds
Differs(f, expected) == disk[f] \notin {None, expected}

TargetRefused(f) ==
  LET e == Vacated.files[f]
  IN /\ Patches(f) = {}
     /\ IF e # None
        THEN \/ ~(e.owners \subseteq Items) /\ e.sha # Chosen(f)
             \/ Differs(f, e.sha) /\ ~install.force
        ELSE Differs(f, Chosen(f)) /\ f \notin Taken /\ ~install.force

Refused == EvictionRefused \/ \E f \in Targets : TargetRefused(f)

NextRecordFresh(p) ==   \* faulty variant: forgets that it was asked for
  [release |-> install.items[p],
   requested |-> p = install.root,
   files |-> IF Kind(p) = "loader" THEN {} ELSE {f \in File : Holds(p, f) # None},
   deps |-> registry.deps[p]]
NextRecord(p) ==
  [release |-> install.items[p],
   requested |-> p = install.root
                 \/ (records.packages[p] # None /\ records.packages[p].requested),
   files |-> IF Kind(p) = "loader" THEN {} ELSE {f \in File : Holds(p, f) # None},
   deps |-> registry.deps[p]]

\* the next records before and after the packages nobody wants any more are dropped
Claimed ==
  LET v == Vacated
  IN [packages |-> [p \in Package |-> IF p \in Items THEN NextRecord(p) ELSE v.packages[p]],
      files |-> [f \in File |->
        IF f \in Targets
        THEN [sha |-> Chosen(f),
              owners |-> Recorders(f) \cup (IF v.files[f] = None THEN {} ELSE v.files[f].owners)]
        ELSE v.files[f]]]
Settled ==
  LET gone == Orphans(Claimed.packages) \ op.restored
  IN [Disowned(Claimed, gone) EXCEPT !.packages =
        [p \in Package |-> IF p \in gone THEN None ELSE @[p]]]

\* apply() up to its transaction: an error here is raised outside it, so nothing is undone
CheckPlan ==
  /\ op.at = "restore" /\ op.loaders = {}
  /\ IF Refused
     THEN /\ op' = Idle /\ install' = None
          /\ asked' = asked \ {p \in op.restored : \A l \in Package :
                                 archives[l].manifest = None \/ archives[l].manifest.packages[p] = None}
     ELSE /\ LET v == Settled
             IN op' = [at |-> "apply", view |-> Without(v, Ownerless(v)),
                       clear |-> Replacers # {},
                       obsolete |-> [f \in File |-> IF f \in Ownerless(v)
                                                    THEN v.files[f].sha ELSE None],
                       put |-> {f \in File : Incoming(f) # {}},
                       backup |-> Unsaved, before |-> disk, restored |-> op.restored,
                       moved |-> <<>>, unwritten |-> {}, kept |-> {}]
          /\ asked' = asked \ (Evicted \ Present(records.packages))
          /\ UNCHANGED install
  /\ UNCHANGED <<registry, disk, records, stores, reader, used, suspect, mine>>
--------------------------------------------------------------------------------
(* The transaction of apply() *)

\* archive_replaced_directory: a directory that is not there is not archived
Zipped(held) ==
  IF held = {} THEN zips
  ELSE Append(zips, [f \in File |-> IF f \in held THEN disk[f] ELSE None])

ClearTaken ==
  /\ op.at = "apply" /\ op.clear
  /\ LET kept == Zipped({f \in registry.area : disk[f] # None})
         pushed == Len(kept) > BackupLimit
     IN /\ zips' = IF pushed THEN Tail(kept) ELSE kept
        /\ mine' = [f \in File |-> IF pushed /\ kept[1][f] = mine[f] THEN None ELSE mine[f]]
  /\ op' = [op EXCEPT !.clear = FALSE, !.backup = Save1(@, registry.area)]
  /\ disk' = [f \in File |-> IF f \in registry.area THEN None ELSE disk[f]]
  /\ UNCHANGED <<registry, records, original, archives, install, reader, used, suspect, asked>>

\* an obsolete file goes only while it still holds what was recorded
DeleteObsolete(f) ==
  /\ op.at = "apply" /\ ~op.clear /\ op.obsolete[f] # None
  /\ LET ours == disk[f] # None /\ disk[f] = op.obsolete[f]
     IN /\ disk' = IF ours THEN [disk EXCEPT ![f] = None] ELSE disk
        /\ op' = [op EXCEPT !.obsolete[f] = None,
                            !.backup = IF ours THEN Save1(@, {f}) ELSE @]
        /\ mine' = IF ours THEN [mine EXCEPT ![f] = None] ELSE mine
  /\ UNCHANGED <<registry, records, stores, install, reader, used, suspect, asked>>

Putting(f) == op.at = "apply" /\ ~op.clear /\ op.obsolete = NoSlot /\ f \in op.put
\* _claimed_by_another_package: a runtime's own payload does not undo a patch laid over it
ClaimedByAnother(f) ==
  /\ Patches(f) = {} /\ op.view.files[f] # None
  /\ ~(op.view.files[f].owners \subseteq Items) /\ op.view.files[f].sha # Chosen(f)
\* what a patch is about to displace: the file on disk, or the plan's own lower layer
Displaced(f) ==
  IF disk[f] # None THEN {disk[f]}
  ELSE {Holds(p, f) : p \in Incoming(f) \ Is("patch")} \ {Chosen(f)}
MustArchive(f) ==
  Patches(f) # {} /\ disk[f] # Chosen(f) /\ original[f] = None /\ Displaced(f) # {}

ArchiveOriginal(f) ==
  /\ Putting(f) /\ MustArchive(f)
  /\ original' = [original EXCEPT ![f] = CHOOSE c \in Displaced(f) : TRUE]
  /\ UNCHANGED <<registry, disk, records, zips, archives, install, op, reader, used, history>>

PutFile(f) ==
  /\ Putting(f) /\ ~MustArchive(f)
  /\ LET skip == disk[f] = Chosen(f) \/ ClaimedByAnother(f)
         told == install.force \/ Patches(f) # {} \/ Recorders(f) = {}
     IN /\ disk' = IF skip THEN disk ELSE [disk EXCEPT ![f] = Chosen(f)]
        /\ op' = [op EXCEPT !.put = @ \ {f}, !.backup = IF skip THEN @ ELSE Save1(@, {f})]
        /\ mine' = IF ~skip /\ told THEN [mine EXCEPT ![f] = None] ELSE mine
  /\ UNCHANGED <<registry, records, stores, install, reader, used, suspect, asked>>

\* asked for, and recorded from now on as something only others need
Demoted == {p \in Present(op.view.packages) \ Present(records.packages) :
              ~op.view.packages[p].requested}

SaveInstall ==
  /\ op.at = "apply" /\ ~op.clear /\ op.obsolete = NoSlot /\ op.put = {}
  /\ records' = Stored(op.view)
  /\ suspect' = {f \in suspect : disk[f] # Stored(op.view).sha[f]}
  /\ asked' = (asked \ (Demoted \cup {p \in Is("replacer") : op.view.packages[p] = None}))
              \cup {install.root}
  /\ op' = Idle /\ install' = None
  /\ UNCHANGED <<registry, disk, stores, reader, used, mine>>
--------------------------------------------------------------------------------
(* remove(): on its own, or for a loader the install under way displaces *)

RemoveView(gone) ==
  LET v == Disowned(Load, gone)
  IN [v EXCEPT !.packages = [p \in Package |-> IF p \in gone THEN None ELSE @[p]]]

StartRemove(p) ==
  LET gone == Removing(records.packages, p)
      restoring == gone \cap Is("replacer") # {}
      patched == UNION {records.packages[q].files : q \in gone \cap Is("patch")}
  IN op' = [at |-> "remove", root |-> p, gone |-> gone,
            view |-> RemoveView(gone), clear |-> restoring,
            unpatch |-> {f \in patched : original[f] # None
                                         /\ ~(restoring /\ f \in registry.area)},
            loaders |-> gone \cap Homes, moved |-> <<>>, unwritten |-> {}, kept |-> {},
            backup |-> Unsaved, before |-> disk, restored |-> {}]

CanRemove(p) == records.packages[p] # None /\ Requiring(records.packages, p) = {}

BeginRemove(p) ==
  /\ Quiet /\ used.ops < registry.ops
  /\ CanRemove(p) /\ StartRemove(p)
  /\ asked' = asked \ {p}
  /\ Spend("ops")
  /\ UNCHANGED <<registry, disk, records, stores, install, reader, suspect, mine>>

\* displace_conflicting_loaders: a loader that may not be removed ends the install
Displace(p) ==
  /\ op = Idle /\ install # None /\ p \in install.displaced
  /\ IF CanRemove(p)
     THEN /\ StartRemove(p) /\ asked' = asked \ {p}
          /\ install' = [install EXCEPT !.displaced = @ \ {p}]
     ELSE install' = None /\ UNCHANGED <<op, asked>>
  /\ UNCHANGED <<registry, disk, records, stores, reader, used, suspect, mine>>

Removal == op.at = "remove"

\* restore_replaced_directory: without an archive the directory stays away
LastZip == IF zips = <<>> THEN NoSlot ELSE zips[Len(zips)]

\* the taken directory: emptied, then the last zip unpacked (and kept)
RestoreTaken ==
  /\ Removal /\ op.clear
  /\ disk' = [f \in File |-> IF f \in registry.area THEN LastZip[f] ELSE disk[f]]
  /\ op' = [op EXCEPT !.clear = FALSE, !.view = Without(@, registry.area),
                      !.backup = Save1(@, registry.area)]
  /\ mine' = [f \in File |-> IF f \in registry.area THEN None ELSE mine[f]]
  /\ UNCHANGED <<registry, records, stores, install, reader, used, suspect, asked>>

\* the original goes back while the patch's content is still what is on disk and no other
\* patch owns the path; an owner left behind now owns the original's digest
OwnedAgainStale(e, f) == IF e.owners = {} THEN None ELSE e   \* faulty: keeps the patch's digest
OwnedAgain(e, f) == IF e.owners = {} THEN None ELSE [e EXCEPT !.sha = original[f]]

Unpatch(f) ==
  /\ Removal /\ ~op.clear /\ f \in op.unpatch
  /\ LET e == op.view.files[f]
         puts == /\ e # None /\ disk[f] # None
                 /\ e.owners \cap Is("patch") = {} /\ disk[f] = e.sha
         next == OwnedAgain(e, f)
     IN /\ disk' = IF puts THEN [disk EXCEPT ![f] = original[f]] ELSE disk
        /\ op' = [op EXCEPT !.unpatch = @ \ {f},
                            !.view.files[f] = IF puts THEN next ELSE @,
                            !.backup = IF puts THEN Save1(@, {f}) ELSE @]
        \* the player's own file, once a patch lay over it, is now a managed one
        /\ mine' = IF puts /\ next # None THEN [mine EXCEPT ![f] = None] ELSE mine
  /\ UNCHANGED <<registry, records, stores, install, reader, used, suspect, asked>>

Moving(l) == Removal /\ ~op.clear /\ op.unpatch = {} /\ op.unwritten = {} /\ l \in op.loaders
Places(l) == registry.own[l] \cup registry.supply[l]
Occupied(l) == {place \in Places(l) : \E f \in place : disk[f] # None}
\* the archive holds a different copy from an earlier removal: the place cannot leave whole
Clashing(l) == {place \in Occupied(l) :
                  \E f \in place : disk[f] # None
                                   /\ archives[l].payload[f] \notin {None, disk[f]}}

\* archive_location: what the archive does not hold goes in, a second copy is dropped
Gathered(l, files) == [f \in File |-> IF f \in files /\ archives[l].payload[f] = None
                                      THEN disk[f] ELSE archives[l].payload[f]]
Emptied(l, files) == [f \in File |-> IF f \in files /\ archives[l].payload[f] \in {None, disk[f]}
                                     THEN None ELSE disk[f]]

\* when the last loader is dealt with, the ones that stayed are recorded again
Dealt(l, view, kept) ==
  [op EXCEPT !.loaders = @ \ {l}, !.kept = kept, !.unwritten = {},
             !.view = IF op.loaders # {l} THEN view
                      ELSE [view EXCEPT !.packages = [p \in Package |->
                              IF p \in kept THEN records.packages[p] ELSE @[p]]]]

\* a place will not move: the places that did are brought back, the loader stays recorded
KeepLoader(l) ==
  /\ Moving(l)
  /\ \E stuck \in SUBSET Occupied(l) \ {{}} :
       /\ Clashing(l) \subseteq stuck
       /\ IF stuck = Clashing(l) THEN UNCHANGED used
          ELSE used.faults < MaxFaults /\ Spend("faults")
       /\ LET moved == Occupied(l) \ stuck
              files == UNION (moved \cup Clashing(l))
              payload == Gathered(l, files)
              d == Emptied(l, files)
          IN /\ disk' = IF moved = {} THEN d ELSE Returned(d, payload)
             /\ archives' = [archives EXCEPT ![l].payload =
                               IF moved = {} THEN payload ELSE Left(d, payload)]
             \* the halves of a place are brought back only if another place did move
             /\ suspect' = suspect \cup {f \in File : disk[f] # None /\ disk'[f] # disk[f]}
  /\ op' = Dealt(l, op.view, op.kept \cup {l})
  /\ UNCHANGED <<registry, records, original, zips, install, reader, mine, asked>>

MoveLoader(l) ==
  /\ Moving(l) /\ Clashing(l) = {}
  /\ LET files == UNION Occupied(l)
     IN /\ archives' = [archives EXCEPT ![l].payload = Gathered(l, files)]
        /\ disk' = Emptied(l, files)
        /\ op' = IF Occupied(l) = {} THEN Dealt(l, op.view, op.kept)
                 ELSE [op EXCEPT !.moved = Append(@, l),
                                 !.unwritten = {[loader |-> l, files |-> files]}]
  /\ UNCHANGED <<registry, records, original, zips, install, reader, used, history>>

\* _take_archived_records and write_manifest: the records in the places moved go along, and
\* the packages left without a file
WriteManifest(l, files) ==
  /\ Removal /\ [loader |-> l, files |-> files] \in op.unwritten
  /\ LET v == op.view
         old == IF archives[l].manifest # None THEN archives[l].manifest
                ELSE [files |-> NoSlot, packages |-> [p \in Package |-> None]]
         left == Without(v, files)
         stays(p) == {f \in v.packages[p].files : left.files[f] # None}
         goes == {p \in Present(v.packages) \ Is("loader") :
                    v.packages[p].files # {} /\ stays(p) = {}}
         taken == {f \in files : v.files[f] # None /\ v.files[f].owners # {}}
         trimmed == [p \in Package |->
                       IF v.packages[p] = None \/ p \in goes THEN None
                       ELSE [v.packages[p] EXCEPT !.files = stays(p)]]
     IN /\ archives' = [archives EXCEPT ![l].manifest =
             [files |-> [f \in File |-> IF f \in taken THEN v.files[f] ELSE old.files[f]],
              packages |-> [p \in Package |->
                IF p \in goes THEN [v.packages[p] EXCEPT !.files = stays(p)]
                ELSE old.packages[p]]]]
        /\ op' = Dealt(l, [left EXCEPT !.packages = trimmed], op.kept)
  /\ UNCHANGED <<registry, disk, records, original, zips, install, reader, used, history>>

Unlinking == Removal /\ ~op.clear /\ op.unpatch = {} /\ op.loaders = {}

\* a file nobody owns any more goes only while it still holds what was recorded
Unlink(f) ==
  /\ Unlinking /\ f \in Ownerless(op.view)
  /\ LET ours == disk[f] # None /\ disk[f] = op.view.files[f].sha
     IN /\ disk' = IF ours THEN [disk EXCEPT ![f] = None] ELSE disk
        /\ op' = [op EXCEPT !.view.files[f] = None,
                            !.backup = IF ours THEN Save1(@, {f}) ELSE @]
        /\ mine' = IF ours THEN [mine EXCEPT ![f] = None] ELSE mine
  /\ UNCHANGED <<registry, records, stores, install, reader, used, suspect, asked>>

SaveRemove ==
  /\ Unlinking /\ Ownerless(op.view) = {}
  /\ records' = Stored(op.view)
  /\ op' = [op EXCEPT !.at = "prune"]
  /\ UNCHANGED <<registry, disk, stores, install, reader, used, history>>

\* _prune_patched_archives: an original no recorded patch owns is deleted
PruneOriginals ==
  /\ op.at = "prune"
  /\ LET stays(f) == op.view.files[f] # None /\ \E p \in op.view.files[f].owners :
                       Kind(p) = "patch" /\ op.view.packages[p] # None
     IN /\ original' = [f \in File |-> IF stays(f) THEN original[f] ELSE None]
        /\ mine' = [f \in File |-> IF ~stays(f) /\ original[f] = mine[f] /\ disk[f] # mine[f]
                                   THEN None ELSE mine[f]]
  /\ op' = Idle
  /\ UNCHANGED <<registry, disk, records, zips, archives, install, reader, used, suspect, asked>>
--------------------------------------------------------------------------------
(* What goes wrong, and who else is there *)

\* packages that left an archive for records that were never saved
Forgotten == {p \in op.restored : \A l \in Package :
                archives[l].manifest = None \/ archives[l].manifest.packages[p] = None}

\* What an exception finds of the loaders moved away: remove() learns of the archives when the
\* last loader is dealt with; before that none is brought back, and what they took is adrift.
Returning == IF Removal /\ op.loaders = {} THEN op.moved ELSE <<>>
Away == {op.moved[i] : i \in 1..Len(op.moved)}
Adrift == IF Removal /\ op.loaders # {}
          THEN {f \in UNION UNION {Places(l) : l \in Away} : disk[f] = None /\ op.backup[f] = Blank}
          ELSE {}

\* An exception inside the transaction.  The archives are brought back first, in the order they
\* were filled, then each saved file; a copy that fails is passed over and the saved copies are
\* deleted all the same.
Holders(f) == {i \in 1..Len(Returning) : archives[Returning[i]].payload[f] # None}
First(f) == CHOOSE i \in Holders(f) : \A j \in Holders(f) : i <= j
Undone == [f \in File |-> IF disk[f] = None /\ Holders(f) # {}
                          THEN archives[Returning[First(f)]].payload[f] ELSE disk[f]]
\* an archive that gives back everything is discarded, with the records of earlier removals
Discarded == {p \in Package : \E i \in 1..Len(Returning) :
                LET a == archives[Returning[i]]
                IN a.manifest # None /\ a.manifest.packages[p] # None
                   /\ Left(Undone, a.payload) = NoSlot}
Fail(lost) ==
  /\ op.at = "apply" \/ Removal
  /\ used.faults < MaxFaults /\ Cardinality(lost) + used.lost <= MaxLost
  /\ lost \subseteq {f \in File : op.backup[f] \notin {Blank, Undone[f]}}
  /\ disk' = [f \in File |-> IF op.backup[f] = Blank \/ f \in lost THEN Undone[f]
                             ELSE op.backup[f]]
  /\ archives' = [l \in Package |->
       IF \E i \in 1..Len(Returning) : Returning[i] = l
       THEN LET left == Left(Undone, archives[l].payload)
            IN [payload |-> left,
                manifest |-> IF left = NoSlot THEN None ELSE archives[l].manifest]
       ELSE archives[l]]
  /\ used' = [used EXCEPT !.faults = @ + 1, !.lost = @ + Cardinality(lost)]
  /\ suspect' = suspect \cup lost \cup Adrift
                \cup {f \in File : op.kept # {} /\ disk'[f] # op.before[f]}
  \* a copy that came back when a loader stayed goes under the one saved before
  /\ mine' = [f \in File |-> IF op.kept # {} /\ Undone[f] = mine[f] /\ disk'[f] # mine[f]
                             THEN None ELSE mine[f]]
  /\ asked' = asked \ (Forgotten \cup (Discarded \ Present(records.packages)))
  /\ op' = Idle /\ install' = None
  /\ UNCHANGED <<registry, records, original, zips, reader>>

\* the process ends: nothing reads the saved copies again
Crash ==
  /\ op # Idle /\ used.crash < MaxCrash
  /\ suspect' = suspect \cup {f \in File : op.at \in {"apply", "remove"} /\ disk[f] # op.before[f]}
  /\ asked' = asked \ Forgotten
  /\ op' = Idle /\ install' = None /\ reader' = None
  /\ Spend("crash")
  /\ UNCHANGED <<registry, disk, records, stores, mine>>

\* reconcile: a record whose file is gone is dropped, then a package left without files and
\* a base runtime none of whose own places is there
Reconciled(r) ==
  LET gone == {f \in File : r.sha[f] # None /\ disk[f] = None}
      kept(p) == {f \in r.packages[p].files : r.sha[f] # None /\ f \notin gone}
      there(p) == registry.own[p] = {} \/ \E f \in UNION registry.own[p] : disk[f] # None
      lost == {p \in Present(r.packages) :
                 kept(p) = {} /\ ~(Kind(p) = "loader" /\ there(p))}
  IN Stored([packages |-> [p \in Package |-> IF r.packages[p] = None \/ p \in lost THEN None
                                             ELSE [r.packages[p] EXCEPT !.files = kept(p)]],
             files |-> [f \in File |-> IF r.sha[f] = None \/ f \in gone THEN None
                                       ELSE [sha |-> r.sha[f]]]])

ReaderLoad ==
  /\ reader = None
  /\ ConcurrentReader \/ (Quiet /\ Reconciled(records) # records)
  /\ reader' = [read |-> records]
  /\ UNCHANGED <<registry, disk, records, stores, install, op, used, history>>

\* saved only when something was dropped; whatever was saved meanwhile is overwritten
ReaderSave ==
  /\ reader # None
  /\ LET new == Reconciled(reader.read)
     IN /\ records' = IF new = reader.read THEN records ELSE new
        /\ asked' = {p \in asked : reader.read.packages[p] = None \/ new.packages[p] # None}
  /\ reader' = None
  /\ UNCHANGED <<registry, disk, stores, install, op, used, suspect, mine>>

\* adopt(): files that match a published release become a requested package's
Adopt(p, release) ==
  LET match == {f \in File : LET c == registry.payload[p][release][f]
                             IN c # None /\ disk[f] = c}
  IN /\ Quiet /\ used.ops < registry.ops
     /\ Kind(p) \in {"mod", "patch"} /\ records.packages[p] = None /\ match # {}
     /\ \A f \in match : /\ Listing(records.packages, f) = {}
                         /\ records.sha[f] \in {None, disk[f]}
     /\ records' = [packages |-> [records.packages EXCEPT ![p] =
                       [release |-> release, requested |-> TRUE, files |-> match,
                        deps |-> registry.declared[p]]],
                    sha |-> [f \in File |-> IF f \in match THEN disk[f] ELSE records.sha[f]]]
     /\ asked' = asked \cup {p}
     /\ Spend("ops")
     /\ UNCHANGED <<registry, disk, stores, install, op, reader, suspect, mine>>

\* adopt_loader(): a base runtime found on disk, with the places it was found in
AdoptLoader(p) ==
  /\ Quiet /\ used.ops < registry.ops
  /\ Kind(p) = "loader" /\ records.packages[p] = None
  /\ \A place \in registry.own[p] : \E f \in place, i \in 1..Newest(p) :
       disk[f] # None /\ registry.payload[p][i][f] = disk[f]
  /\ records' = [records EXCEPT !.packages[p] =
       [release |-> Newest(p), requested |-> TRUE, files |-> {}, deps |-> registry.declared[p]]]
  /\ asked' = asked \cup {p}
  /\ Spend("ops")
  /\ UNCHANGED <<registry, disk, stores, install, op, reader, suspect, mine>>

\* the content some record - in installed.json, in the reader's copy, in an archive - gives a file
Digests(f) == {records.sha[f]} \cup (IF reader = None THEN {} ELSE {reader.read.sha[f]})
              \cup {archives[l].manifest.files[f].sha : l \in {x \in Package :
                       archives[x].manifest # None /\ archives[x].manifest.files[f] # None}}

\* the player writes, deletes or copies in a file between two operations; what a record already
\* has for the file is managed content, whoever puts it there
Touch(f, c) ==
  /\ Quiet /\ used.touch < MaxTouch /\ disk[f] # c
  /\ c \in Content => \E p \in Package, i \in 1..2 :
                        i <= Newest(p) /\ registry.payload[p][i][f] = c
  /\ disk' = [disk EXCEPT ![f] = c]
  /\ suspect' = suspect \cup {f}
  /\ mine' = [mine EXCEPT ![f] = IF c \in UserContent \ Digests(f) THEN c ELSE None]
  /\ Spend("touch")
  /\ UNCHANGED <<registry, records, stores, install, op, reader, asked>>

Begin == \/ \E p \in Package : BeginRemove(p)
         \/ \E p \in Package, force \in BOOLEAN :
              \E release \in 1..Newest(p) : BeginInstall(p, release, force)
Applying == \/ ApplyBegin \/ CheckPlan \/ ClearTaken \/ SaveInstall
            \/ \E l \in Package : RestoreArchive(l)
            \/ \E f \in File : DeleteObsolete(f) \/ ArchiveOriginal(f) \/ PutFile(f)
RemoveSteps == \/ RestoreTaken \/ SaveRemove \/ PruneOriginals
               \/ \E p \in Package : Displace(p) \/ KeepLoader(p) \/ MoveLoader(p)
               \/ \E f \in File : Unpatch(f) \/ Unlink(f)
               \/ \E l \in Package, files \in SUBSET File : WriteManifest(l, files)
Outside == \/ \E lost \in SUBSET File : Fail(lost)
           \/ Crash \/ ReaderLoad \/ ReaderSave
           \/ \E p \in Package : AdoptLoader(p)
           \/ \E p \in Package : \E release \in 1..Newest(p) : Adopt(p, release)
           \/ \E f \in File, c \in Value \cup {None} : Touch(f, c)

InstallerNext == Begin \/ Applying \/ RemoveSteps \/ Outside
InstallerSpec == InstallerInit /\ [][InstallerNext]_vars
--------------------------------------------------------------------------------
(* Properties *)

\* The records, the disk and the stores hold what their formats allow; a base runtime is
\* recorded without files.
InstallerTypes ==
  /\ registry \in Registries
  /\ disk \in Slot /\ original \in Slot
  /\ zips \in Seq(Slot) /\ Len(zips) <= BackupLimit
  /\ records.packages \in [Package -> PackageRecord \cup {None}]
  /\ records.sha \in [File -> Digest]
  /\ \A p \in Is("loader") : records.packages[p] = None \/ records.packages[p].files = {}
  /\ \A l \in Package : archives[l].payload \in Slot
  /\ op.at \in {"idle", "restore", "apply", "remove", "prune"}

Settling == op # Idle \/ install # None \/ reader # None

\* Between operations a recorded file is on disk with the recorded content, unless the player
\* changed it or a crash or a failed copy tore it: the installer's own steps - updates, patches
\* over mods, shared files, removals, rollbacks, archives coming back - never leave a record
\* that the disk contradicts.
RecordedIsOnDisk ==
  \/ Settling
  \/ \A f \in File \ suspect :
       Listing(records.packages, f) # {} /\ records.sha[f] # Blank => disk[f] = records.sha[f]

\* A failed operation leaves the disk and the records as they were before its transaction,
\* but for copies that could not be put back, loaders that were being moved away or had to
\* stay, and files of an older archive that come back with a loader.
FailureUndone ==
  [][used'.faults > used.faults /\ op # Idle /\ op' = Idle /\ used'.lost = used.lost
         /\ op.kept = {} =>
       /\ records' = records
       /\ \A f \in File \ Adrift : \/ disk'[f] = op.before[f]
                                   \/ op.before[f] = None /\ op.moved # <<>>]_vars

\* What the player left in a file is somewhere - in place, among the originals, in a zip or in
\* a loader's archive, never only in a copy the transaction saved - until an operation that says
\* so takes it: a forced install, a patch or a base runtime laying its payload, the directory of
\* a replacing package given back, a file whose exact content is recorded, a sixth zip.
PlayerFilesSurvive ==
  \A f \in File : mine[f] # None =>
    \/ mine[f] \in {disk[f], original[f]}
    \/ \E i \in 1..Len(zips) : zips[i][f] = mine[f]
    \/ \E l \in Package : archives[l].payload[f] = mine[f]

\* A package the player asked for stays recorded until it is removed, displaced, evicted, found
\* gone from the disk, or back from an archive as what another one needs: meanwhile it is in the
\* records, in the manifest of an archive, or in the records an install that brought it back is
\* about to save.
AskedIsAccountedFor ==
  \A p \in asked :
    \/ records.packages[p] # None
    \/ \E l \in Package : archives[l].manifest # None /\ archives[l].manifest.packages[p] # None
    \/ op.at \in {"restore", "apply"} /\ op.view.packages[p] # None

\* What a package needs is recorded, or put away with a loader that was removed.
PutAway(p) == \E l \in Package : archives[l].manifest # None /\ archives[l].manifest.packages[p] # None
DependenciesMet(packages) ==
  \A p \in Present(packages) : \A d \in packages[p].deps : packages[d] # None \/ PutAway(d)
\* An install or a removal that starts from records in which every dependency is met ends in
\* such records, as long as what the plan left out as already installed still is and gives way
\* to no replacing package, no archive brought a package back, and no loader stayed.
DependenciesStay ==
  [][/\ records' # records /\ op.at \in {"apply", "remove"} /\ DependenciesMet(records.packages)
     /\ op.at = "apply" => \A p \in install.plan \ Items :
          records.packages[p] # None /\ (Replacers = {} \/ Kind(p) # "replacer")
     /\ op.restored = {} /\ op.kept = {}
     => DependenciesMet(records.packages)']_vars

\* "The packages of the plan take no part: they are what is being installed, not what is
\* displaced" (service.py, displace_conflicting_loaders).
DisplacingSparesThePlan ==
  op.at = "remove" /\ install # None => op.gone \cap install.plan = {}

\* "Reinstalling the same loader moves them back: the mods come and go with the loader,
\* neither marked installed and yet unusable nor deleted by mistake" (loader_archive.py).  An
\* install deletes no file of a package that was asked for, is recorded with that content and
\* is not itself being installed.
NoneDeletedByMistake ==
  [][\A f \in File, p \in asked :
       /\ op.at = "apply" /\ op'.at = "apply" /\ ~op.clear
       /\ records.packages[p] # None /\ p \notin Items
       /\ disk[f] # None /\ registry.payload[p][records.packages[p].release][f] = disk[f]
       => disk'[f] = disk[f]]_vars

\* A package that was asked for, and went into the archive of a loader, is still one that was
\* asked for when an install that needs it brings it back (Installer.apply, which looks for the
\* earlier request in the records alone).
RequestsAreKept ==
  [][op.at = "apply" /\ op' = Idle /\ records' # records => Demoted \cap asked = {}]_vars

\* "What cannot be moved is not removed: the record stays, the files stay" (test_installer.py):
\* when the removal is saved, the files of a loader that was kept are what they were.
KeptLoaderKeepsFiles ==
  [][op.at = "remove" /\ op'.at = "prune" =>
       \A p \in op.kept : \A f \in records.packages[p].files : disk[f] = op.before[f]]_vars

\* "One place that will not move calls the whole thing off: what was moved goes back, the records
\* stay" (installer.py, _archive_removed_loaders): a loader that is kept loses no file.
StuckIsCalledOff ==
  [][op.at = "remove" /\ op'.at = "remove" /\ op'.kept # op.kept =>
       \A f \in File : disk[f] # None => disk'[f] = disk[f]]_vars

\* The mods that go with a removed loader are "neither marked installed and yet unusable"
\* (loader_archive.py), and no package is removed that another one requires (installer.py,
\* remove): what goes into an archive is needed by nothing that stays recorded.
NoneIsLeftUnusable ==
  [][op.at = "remove" /\ op'.at = "prune" =>
       \A p \in Present(records'.packages) : \A d \in records'.packages[p].deps :
         records.packages[d] # None => records'.packages[d] # None]_vars
================================================================================
