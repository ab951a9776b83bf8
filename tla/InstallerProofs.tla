---------------------------- MODULE InstallerProofs ----------------------------
(* What an operation of the installer may do to the disk, for any index,     *)
(* files, faults, crashes and moves of the player: the types, that a failed  *)
(* operation undoes what it did (FailureUndone), what the player left in a   *)
(* file (PlayerFilesSurvive) and, without a reader beside the operations,    *)
(* what he asked for (AskedIsAccountedFor).                                  *)
EXTENDS Installer, FiniteSetTheorems, WellFoundedInduction, TLAPS

Archive == [payload : Slot, manifest : View \cup {None}]
Records == [packages : [Package -> PackageRecord \cup {None}], sha : [File -> Digest]]
Install == [root : Package, force : BOOLEAN, plan : SUBSET Package,
            items : [Package -> Nat], displaced : SUBSET Package]
Used == [ops : Nat, touch : Nat, faults : Nat, lost : Nat, crash : Nat]
Carry == [loader : Package, files : SUBSET File]
Backup == [File -> Value \cup {None, Blank}]

IdleOp == [at : {"idle"}]
RestoreOp == [at : {"restore"}, view : View, restored : SUBSET Package, loaders : SUBSET Package]
ApplyOp == [at : {"apply"}, view : View, clear : BOOLEAN, obsolete : [File -> Digest],
            put : SUBSET File, backup : Backup, before : Slot, restored : SUBSET Package,
            moved : Seq(Package), unwritten : SUBSET Carry, kept : SUBSET Package]
RemoveOp == [at : {"remove", "prune"}, root : Package, gone : SUBSET Package, view : View,
             clear : BOOLEAN, unpatch : SUBSET File, loaders : SUBSET Package,
             moved : Seq(Package), unwritten : SUBSET Carry, kept : SUBSET Package,
             backup : Backup, before : Slot, restored : SUBSET Package]

\* A base runtime is recorded without files, wherever its record is.
Bare(packages) == \A p \in Is("loader") : packages[p] = None \/ packages[p].files = {}
ReleasesExist == install # None => \A p \in Package : install.items[p] <= Newest(p)
PutsCome == op.at = "apply" => install # None /\ \A f \in op.put : Incoming(f) # {}
AllBare ==
  /\ Bare(records.packages)
  /\ reader # None => Bare(reader.read.packages)
  /\ \A l \in Package : archives[l].manifest # None => Bare(archives[l].manifest.packages)
  /\ op.at # "idle" => Bare(op.view.packages)

Types ==
  /\ registry \in Registries
  /\ disk \in Slot /\ original \in Slot
  /\ zips \in Seq(Slot) /\ Len(zips) <= BackupLimit
  /\ records \in Records
  /\ archives \in [Package -> Archive]
  /\ install \in Install \cup {None} /\ ReleasesExist
  /\ op \in IdleOp \cup RestoreOp \cup ApplyOp \cup RemoveOp
  /\ op.at = "restore" => /\ install # None
                          /\ \A l \in op.loaders : archives[l].manifest # None
                          /\ \A p \in op.restored : op.view.packages[p] # None
  /\ PutsCome
  /\ reader \in [read : Records] \cup {None}
  /\ used \in Used
  /\ suspect \subseteq File /\ asked \subseteq Package
  /\ mine \in [File -> UserContent \cup {None}]
  /\ AllBare

\* What the player left is in no record: not in what is kept, not in what is worked out.
Unrecorded ==
  \A f \in File : mine[f] # None =>
    /\ mine[f] \notin Digests(f)
    /\ op.at # "idle" => op.view.files[f] = None \/ op.view.files[f].sha # mine[f]
\* An install's own steps find nothing of the player's in their way.
PutsAreTold ==
  op.at = "apply" => \A f \in File : mine[f] # None =>
    /\ op.obsolete[f] # mine[f]
    /\ f \in op.put => \/ install.force \/ Patches(f) # {} \/ Recorders(f) = {}
                       \/ disk[f] # mine[f] \/ (op.clear /\ f \in registry.area)
    /\ op.backup[f] # Blank => disk[f] # mine[f]

\* Where a removal has taken the content of a file: into the first of the archives it filled
\* that holds the file.
Carried(a, moved, f, c) ==
  \E i \in 1..Len(moved) : /\ a[moved[i]].payload[f] = c
                           /\ \A j \in 1..Len(moved) : j < i => a[moved[j]].payload[f] = None
Lies(d, a, moved, f, c) == d[f] = c \/ (d[f] = None /\ Carried(a, moved, f, c))

\* An archive holds files of its loader's places only.
Housed == \A l \in Package : \A f \in File :
            archives[l].payload[f] # None => f \in UNION Places(l)
Swept == \A i \in 1..Len(op.moved) : \A f \in UNION Places(op.moved[i]) : disk[f] = None
MovedOnce ==
  /\ op.moved # <<>> => ~op.clear /\ op.unpatch = {}
  /\ \A u, v \in op.unwritten : u = v
  /\ \A i \in 1..Len(op.moved) :
       op.moved[i] \in op.loaders => \E u \in op.unwritten : u.loader = op.moved[i]
SavedOrSame ==
  \A f \in File :
    /\ op.backup[f] # Blank => op.backup[f] = op.before[f]
    /\ op.backup[f] = Blank => IF op.before[f] = None THEN disk[f] = None
                               ELSE Lies(disk, archives, op.moved, f, op.before[f])
OriginalsLie ==
  \A f \in File : mine[f] # None /\ op.backup[f] # Blank =>
    Lies(disk, archives, op.moved, f, original[f])
RemovalUndoable == op.at = "remove" => MovedOnce /\ (op.kept = {} => Swept /\ SavedOrSame)
OriginalsOk ==
  op.at = "remove" =>
    /\ \A f \in op.unpatch : original[f] # None
    /\ \A f \in File : mine[f] # None /\ op.backup[f] # Blank => original[f] # None
    /\ op.kept = {} => OriginalsLie
ApplyOk ==
  op.at = "apply" => \A f \in File :
    IF op.backup[f] = Blank THEN disk[f] = op.before[f] ELSE op.backup[f] = op.before[f]

\* Without the reader beside them, operations find the records as it left them.
ReaderWaits == reader # None => op = Idle /\ install = None /\ reader.read = records

\* What was asked for, from the records an operation reads to those it saves.
Archived(a, p) == \E l \in Package : a[l].manifest # None /\ a[l].manifest.packages[p] # None
RequestsRecorded == \A p \in asked : records.packages[p] # None => records.packages[p].requested
RootIsPlanned == install # None => install.items[install.root] # 0
RestoringKeeps ==
  op.at = "restore" => \A p \in Package :
    /\ op.view.packages[p] # None => records.packages[p] # None \/ p \in op.restored
    /\ records.packages[p] # None =>
         op.view.packages[p] # None
         /\ (records.packages[p].requested => op.view.packages[p].requested)
ApplyingKeeps ==
  op.at = "apply" =>
    /\ op.view.packages[install.root] # None /\ op.view.packages[install.root].requested
    /\ \A p \in asked : IF records.packages[p] = None
         THEN Archived(archives, p) \/ (p \in op.restored /\ op.view.packages[p] # None)
         ELSE IF op.view.packages[p] = None THEN p \in Is("replacer")
         ELSE op.view.packages[p].requested
RemovingKeeps ==
  op.at = "remove" => \A p \in Package :
    /\ op.view.packages[p] # None =>
         records.packages[p] # None
         /\ (records.packages[p].requested => op.view.packages[p].requested)
    /\ p \in asked /\ records.packages[p] # None =>
         op.view.packages[p] # None \/ Archived(archives, p)

(* ------------------------- what the operators return ------------------ *)
LEMMA OpIs ==
  ASSUME Types
  PROVE /\ op.at = "idle" => op \in IdleOp
        /\ op.at = "restore" => op \in RestoreOp
        /\ op.at = "apply" => op \in ApplyOp
        /\ op.at \in {"remove", "prune"} => op \in RemoveOp
        /\ op.at \in {"idle", "restore", "apply", "remove", "prune"}
        /\ op.at # "idle" => op.view \in View
BY DEF Types, IdleOp, RestoreOp, ApplyOp, RemoveOp

LEMMA IdleIsTyped == Idle \in IdleOp /\ Idle.at = "idle"
BY DEF Idle, IdleOp

LEMMA IndexTypes ==
  ASSUME registry \in Registries
  PROVE /\ registry.kind \in [Package -> Kinds]
        /\ registry.deps \in [Package -> SUBSET Package]
        /\ registry.declared \in [Package -> SUBSET Package]
        /\ registry.area \subseteq File /\ registry.ops \in Nat
        /\ \A p \in Package : /\ registry.payload[p] \in Seq(Payload)
                              /\ Newest(p) \in Nat \ {0}
                              /\ \A i \in 1..Newest(p) : registry.payload[p][i] \in Payload
                              /\ Places(p) \subseteq SUBSET File
<1>1. \A p \in Package : /\ registry.payload[p] \in Seq(Payload) /\ registry.payload[p] # <<>>
                         /\ registry.own[p] \cup registry.supply[p] \subseteq SUBSET File
  BY InstallerAssumption
<1>2. ASSUME NEW s \in Seq(Payload), s # <<>>
      PROVE Len(s) \in Nat \ {0} /\ \A i \in 1..Len(s) : s[i] \in Payload
  <2> HIDE DEF Payload
  <2> QED BY <1>2
<1>3. QED
  BY <1>1, <1>2, InstallerAssumption DEF Newest, Places

LEMMA ValuesApart ==
  /\ None \notin Value /\ Blank \notin Value /\ None # Blank
  /\ Content \cap UserContent = {} /\ Content \subseteq Value /\ UserContent \subseteq Value
  /\ None \notin PackageRecord /\ None \notin Entry /\ None \notin View
BY InstallerAssumption DEF Value

LEMMA LoadIsTyped ==
  ASSUME Types
  PROVE /\ Load \in View /\ Bare(Load.packages)
        /\ Load.packages = records.packages
        /\ \A f \in File : IF records.sha[f] = None THEN Load.files[f] = None
                           ELSE Load.files[f] # None /\ Load.files[f].sha = records.sha[f]
<1>1. \A f \in File : Listing(records.packages, f) \subseteq Package
  BY DEF Listing, Present
<1> DEFINE e(f) == [sha |-> records.sha[f], owners |-> Listing(records.packages, f)]
<1>2. \A f \in File : e(f) \in Entry /\ e(f).sha = records.sha[f]
  BY <1>1 DEF Types, Records, Entry
<1>3. \A f \in File : e(f) # None
  BY <1>2, ValuesApart
<1> HIDE DEF e
<1>4. Load = [packages |-> records.packages,
              files |-> [f \in File |-> IF records.sha[f] = None THEN None ELSE e(f)]]
  BY DEF Load, e
<1>5. QED
  BY <1>2, <1>3, <1>4 DEF View, Types, Records, AllBare

LEMMA StoredIsTyped ==
  ASSUME NEW v, DOMAIN v = {"packages", "files"},
         v.packages \in [Package -> PackageRecord \cup {None}],
         \A f \in File : v.files[f] = None \/ v.files[f].sha \in Digest
  PROVE /\ Stored(v) \in Records /\ Stored(v).packages = v.packages
        /\ \A f \in File : \/ Stored(v).sha[f] \in {None, Blank}
                           \/ v.files[f] # None /\ Stored(v).sha[f] = v.files[f].sha
BY DEF Stored, Records, Digest

LEMMA Save1IsTyped ==
  ASSUME disk \in Slot, NEW backup \in Backup, NEW files
  PROVE /\ Save1(backup, files) \in Backup
        /\ \A f \in File : Save1(backup, files)[f] = IF f \in files /\ backup[f] = Blank
                                                    THEN disk[f] ELSE backup[f]
BY DEF Save1, Backup, Slot

LEMMA WithoutIsTyped ==
  ASSUME NEW v \in View, NEW files
  PROVE /\ Without(v, files) \in View /\ Without(v, files).packages = v.packages
        /\ \A f \in File : Without(v, files).files[f] = IF f \in files THEN None ELSE v.files[f]
BY DEF Without, View

LEMMA DisownedIsTyped ==
  ASSUME NEW v \in View, NEW gone
  PROVE /\ Disowned(v, gone) \in View /\ Disowned(v, gone).packages = v.packages
        /\ \A f \in File : IF v.files[f] = None THEN Disowned(v, gone).files[f] = None
                           ELSE /\ Disowned(v, gone).files[f] # None
                                /\ Disowned(v, gone).files[f].sha = v.files[f].sha
<1> DEFINE e(f) == [v.files[f] EXCEPT !.owners = @ \ gone]
<1>1. \A f \in File : v.files[f] # None => e(f) \in Entry /\ e(f).sha = v.files[f].sha
  BY DEF View, Entry
<1>2. \A f \in File : v.files[f] # None => e(f) # None
  BY <1>1, ValuesApart
<1> HIDE DEF e
<1>3. Disowned(v, gone) = [v EXCEPT !.files = [f \in File |-> IF v.files[f] = None THEN None ELSE e(f)]]
  BY DEF Disowned, e
<1>4. QED
  BY <1>1, <1>2, <1>3 DEF View

\* Taking packages out of a view.
LEMMA DroppedIsTyped ==
  ASSUME NEW v \in View, NEW packages \in [Package -> PackageRecord \cup {None}]
  PROVE /\ [v EXCEPT !.packages = packages] \in View
        /\ [v EXCEPT !.packages = packages].packages = packages
        /\ [v EXCEPT !.packages = packages].files = v.files
BY DEF View

LEMMA ChosenIsContent ==
  ASSUME Types, install # None, NEW f \in File, Incoming(f) # {}
  PROVE /\ Chosen(f) \in Content
        /\ Recorders(f) \subseteq Package
<1>1. \A p \in Items : install.items[p] \in 1..Newest(p)
  BY IndexTypes DEF Items, Install, ReleasesExist, Types
<1>2. \A p \in Items : Holds(p, f) \in Content \cup {None}
  <2> SUFFICES ASSUME NEW p \in Items PROVE Holds(p, f) \in Content \cup {None}
    OBVIOUS
  <2>1. registry.payload[p][install.items[p]] \in Payload
    BY <1>1, IndexTypes DEF Items, Types
  <2>2. QED
    BY <2>1 DEF Holds, Payload
<1>3. Source(f) # {} /\ Source(f) \subseteq Incoming(f)
  BY DEF Source, Patches
<1>4. (CHOOSE p \in Source(f) : TRUE) \in Incoming(f)
  BY <1>3
<1>5. QED
  BY <1>2, <1>4 DEF Chosen, Incoming, Recorders, Items

LEMMA SameIncoming ==
  ASSUME registry' = registry, install' = install
  PROVE /\ Items' = Items
        /\ \A f : /\ Incoming(f)' = Incoming(f) /\ Patches(f)' = Patches(f)
                  /\ Recorders(f)' = Recorders(f) /\ Chosen(f)' = Chosen(f)
BY DEF Items, Incoming, Holds, Patches, Recorders, Is, Kind, Chosen, Source

\* What an install records as asked for.
Wanted(p) == p = install.root \/ (records.packages[p] # None /\ records.packages[p].requested)

LEMMA NextRecordIsTyped ==
  ASSUME Types, install # None, NEW p \in Items
  PROVE /\ NextRecord(p) \in PackageRecord
        /\ p \in Is("loader") => NextRecord(p).files = {}
        /\ NextRecord(p).requested = Wanted(p)
<1>1. install.items[p] \in Nat \ {0} /\ registry.deps[p] \in SUBSET Package
  BY IndexTypes DEF Types, Install, Items
<1>2. records.packages[p] # None => records.packages[p] \in PackageRecord
  BY DEF Types, Records, Items
<1> DEFINE files == IF Kind(p) = "loader" THEN {} ELSE {f \in File : Holds(p, f) # None}
<1>3. Wanted(p) \in BOOLEAN
  BY DEF Wanted
<1>4. files \in SUBSET File /\ (p \in Is("loader") => files = {})
  BY DEF Is
<1>5. NextRecord(p) = [release |-> install.items[p], requested |-> Wanted(p), files |-> files,
                       deps |-> registry.deps[p]]
  BY DEF NextRecord, Wanted
<1> HIDE DEF files
<1>6. QED
  BY <1>1, <1>3, <1>4, <1>5 DEF PackageRecord

LEMMA VacatedIsTyped ==
  ASSUME Types, op.at = "restore"
  PROVE /\ Vacated \in View
        /\ Vacated.packages = [p \in Package |-> IF p \in Evicted THEN None ELSE op.view.packages[p]]
        /\ \A f \in File : Vacated.files[f] # None =>
             f \notin Taken /\ op.view.files[f] # None /\ Vacated.files[f].sha = op.view.files[f].sha
<1> DEFINE packages == [p \in Package |-> IF p \in Evicted THEN None ELSE op.view.packages[p]]
           v == [op.view EXCEPT !.packages = packages]
<1>1. op.view \in View
  BY OpIs
<1>2. packages \in [Package -> PackageRecord \cup {None}]
  BY <1>1 DEF View
<1> HIDE DEF packages
<1>3. v \in View /\ v.packages = packages /\ v.files = op.view.files
  BY <1>1, <1>2, DroppedIsTyped
<1> HIDE DEF v
<1>4. /\ Without(v, Taken) \in View /\ Without(v, Taken).packages = packages
      /\ \A f \in File : Without(v, Taken).files[f] = IF f \in Taken THEN None ELSE op.view.files[f]
  BY <1>3, WithoutIsTyped
<1>5. Vacated = Disowned(Without(v, Taken), Items)
  BY DEF Vacated, v, packages
<1>6. QED
  BY <1>4, <1>5, DisownedIsTyped DEF packages

LEMMA ClaimedIsTyped ==
  ASSUME Types, op.at = "restore"
  PROVE /\ Claimed \in View
        /\ \A p \in Package : Claimed.packages[p] = IF p \in Items THEN NextRecord(p)
                                                   ELSE IF p \in Evicted THEN None
                                                   ELSE op.view.packages[p]
        /\ \A f \in File : Claimed.files[f] # None =>
             \/ f \in Targets /\ Claimed.files[f].sha = Chosen(f)
             \/ f \notin Taken /\ op.view.files[f] # None /\ Claimed.files[f].sha = op.view.files[f].sha
<1> DEFINE others(f) == IF Vacated.files[f] = None THEN {} ELSE Vacated.files[f].owners
           e(f) == [sha |-> Chosen(f), owners |-> Recorders(f) \cup others(f)]
<1>1. install # None /\ Vacated \in View
  BY VacatedIsTyped DEF Types
<1>2. \A f \in File : others(f) \subseteq Package
  BY <1>1 DEF View, Entry
<1>3. ASSUME NEW f \in Targets PROVE e(f) \in Entry /\ e(f).sha = Chosen(f)
  <2>1. f \in File /\ Incoming(f) # {}
    BY DEF Targets, Recorders
  <2>2. Chosen(f) \in Digest /\ Recorders(f) \subseteq Package
    BY <1>1, <2>1, ChosenIsContent, ValuesApart DEF Digest
  <2> HIDE DEF others
  <2>3. QED
    BY <1>2, <2>1, <2>2 DEF Entry
<1>4. \A p \in Items : NextRecord(p) \in PackageRecord
  BY <1>1, NextRecordIsTyped
<1> HIDE DEF e
<1>5. Claimed = [packages |-> [p \in Package |-> IF p \in Items THEN NextRecord(p) ELSE Vacated.packages[p]],
                 files |-> [f \in File |-> IF f \in Targets THEN e(f) ELSE Vacated.files[f]]]
  BY DEF Claimed, e, others
<1>6. Claimed \in View
  BY <1>1, <1>3, <1>4, <1>5 DEF View
<1>7. QED
  BY <1>3, <1>5, <1>6, VacatedIsTyped

LEMMA SettledIsTyped ==
  ASSUME Types, op.at = "restore"
  PROVE /\ Settled \in View
        /\ \A p \in Package : Settled.packages[p] = IF p \in Orphans(Claimed.packages) \ op.restored
                                                   THEN None ELSE Claimed.packages[p]
        /\ \A f \in File : Settled.files[f] # None =>
             Claimed.files[f] # None /\ Settled.files[f].sha = Claimed.files[f].sha
<1> DEFINE gone == Orphans(Claimed.packages) \ op.restored
           packages == [p \in Package |-> IF p \in gone THEN None ELSE Disowned(Claimed, gone).packages[p]]
<1>1. Claimed \in View
  BY ClaimedIsTyped
<1>2. /\ Disowned(Claimed, gone) \in View /\ Disowned(Claimed, gone).packages = Claimed.packages
      /\ \A f \in File : Disowned(Claimed, gone).files[f] # None =>
           Claimed.files[f] # None /\ Disowned(Claimed, gone).files[f].sha = Claimed.files[f].sha
  BY <1>1, DisownedIsTyped
<1>3. packages \in [Package -> PackageRecord \cup {None}]
  BY <1>2 DEF View
<1>4. Settled = [Disowned(Claimed, gone) EXCEPT !.packages = packages]
  BY DEF Settled
<1> HIDE DEF packages
<1>5. /\ Settled \in View /\ Settled.packages = packages
      /\ Settled.files = Disowned(Claimed, gone).files
  BY <1>2, <1>3, <1>4, DroppedIsTyped
<1>6. QED
  BY <1>1, <1>2, <1>5 DEF packages

LEMMA SettledIsBare ==
  ASSUME Types, op.at = "restore"
  PROVE Bare(Settled.packages)
<1>1. ASSUME NEW p \in Package, p \in Is("loader"), Claimed.packages[p] # None
      PROVE Claimed.packages[p].files = {}
  <2>1. CASE p \in Items
    BY <1>1, <2>1, ClaimedIsTyped, NextRecordIsTyped DEF Types
  <2>2. CASE p \notin Items
    BY <1>1, <2>2, ClaimedIsTyped DEF Types, AllBare, Bare
  <2>3. QED
    BY <2>1, <2>2
<1>2. QED
  BY <1>1, SettledIsTyped DEF Bare, Is

(* --------------------------------- types ------------------------------ *)
LEMMA InitTypes == InstallerInit => Types
<1> SUFFICES ASSUME InstallerInit PROVE Types
  OBVIOUS
<1>1. NoSlot \in Slot /\ NoSlot \in [File -> Digest] /\ NoSlot \in [File -> UserContent \cup {None}]
  BY DEF NoSlot, Slot, Digest
<1>2. records \in Records /\ Bare(records.packages)
  BY <1>1 DEF InstallerInit, Records, Bare, Is
<1>3. /\ archives \in [Package -> Archive]
      /\ \A l \in Package : archives[l].manifest = None
  BY <1>1 DEF InstallerInit, Archive
<1>4. used \in Used
  BY DEF InstallerInit, Used
<1>5. zips \in Seq(Slot) /\ Len(zips) <= BackupLimit
  BY InstallerAssumption DEF InstallerInit
<1>6. QED
  BY <1>1, <1>2, <1>3, <1>4, <1>5, IdleIsTyped
     DEF InstallerInit, Types, ReleasesExist, PutsCome, AllBare

LEMMA ApplyStepTypes ==
  ASSUME Types, op.at = "apply",
         op' \in ApplyOp, op'.put \subseteq op.put, op'.view = op.view,
         disk' \in Slot, original' \in Slot, zips' \in Seq(Slot), Len(zips') <= BackupLimit,
         mine' \in [File -> UserContent \cup {None}],
         UNCHANGED <<registry, records, archives, install, reader, used, suspect, asked>>
  PROVE Types'
<1>1. op'.at = "apply"
  BY DEF ApplyOp
<1>2. PutsCome'
  BY <1>1, SameIncoming DEF Types, PutsCome
<1>3. AllBare' /\ ReleasesExist'
  BY <1>1 DEF Types, AllBare, Bare, Is, Kind, ReleasesExist, Newest
<1>4. QED
  BY <1>1, <1>2, <1>3 DEF Types

LEMMA RemoveStepTypes ==
  ASSUME Types, op.at = "remove",
         op' \in RemoveOp, Bare(op'.view.packages),
         disk' \in Slot, archives' \in [Package -> Archive],
         \A l \in Package : archives'[l].manifest # None => Bare(archives'[l].manifest.packages),
         mine' \in [File -> UserContent \cup {None}], used' \in Used, suspect' \subseteq File,
         UNCHANGED <<registry, records, original, zips, install, reader, asked>>
  PROVE Types'
<1>1. op'.at \in {"remove", "prune"}
  BY DEF RemoveOp
<1>2. PutsCome' /\ ReleasesExist'
  BY <1>1 DEF Types, PutsCome, ReleasesExist, Newest
<1>3. AllBare'
  BY DEF Types, AllBare, Bare, Is, Kind
<1>4. QED
  BY <1>1, <1>2, <1>3 DEF Types

LEMMA ClearTakenTypes == ASSUME Types, ClearTaken PROVE Types'
<1> DEFINE kept == Zipped({f \in registry.area : disk[f] # None})
           b == Save1(op.backup, registry.area)
<1>1. op \in ApplyOp /\ op.at = "apply"
  BY OpIs DEF ClearTaken
<1>2. b \in Backup
  BY <1>1, Save1IsTyped DEF Types, ApplyOp
<1>3. op' = [op EXCEPT !.clear = FALSE, !.backup = b]
  BY DEF ClearTaken
<1> HIDE DEF b
<1>4. op' \in ApplyOp /\ op'.put = op.put /\ op'.view = op.view
  BY <1>1, <1>2, <1>3 DEF ApplyOp
<1>5. kept \in Seq(Slot) /\ Len(kept) \in Nat /\ Len(kept) <= Len(zips) + 1
  <2> DEFINE held == {f \in registry.area : disk[f] # None}
             z == [f \in File |-> IF f \in held THEN disk[f] ELSE None]
  <2>1. z \in Slot
    BY DEF Types, Slot
  <2>2. kept = IF held = {} THEN zips ELSE Append(zips, z)
    BY DEF Zipped
  <2> HIDE DEF z, held, kept
  <2>3. QED
    <3> HIDE DEF Slot
    <3> QED BY <2>1, <2>2 DEF Types
<1>6. zips' = IF Len(kept) > BackupLimit THEN Tail(kept) ELSE kept
  BY DEF ClearTaken
<1> HIDE DEF kept
<1>7. zips' \in Seq(Slot) /\ Len(zips') <= BackupLimit
  BY <1>5, <1>6, InstallerAssumption DEF Types
<1>8. disk' \in Slot
  BY DEF ClearTaken, Types, Slot
<1>9. mine' \in [File -> UserContent \cup {None}]
  BY DEF ClearTaken, Types
<1>10. UNCHANGED <<registry, records, original, archives, install, reader, used, suspect, asked>>
  BY DEF ClearTaken
<1>11. QED
  BY <1>1, <1>4, <1>7, <1>8, <1>9, <1>10, ApplyStepTypes DEF Types

LEMMA DeleteObsoleteTypes ==
  ASSUME Types, NEW f \in File, DeleteObsolete(f) PROVE Types'
<1> DEFINE ours == disk[f] # None /\ disk[f] = op.obsolete[f]
           b == IF ours THEN Save1(op.backup, {f}) ELSE op.backup
           o == [op.obsolete EXCEPT ![f] = None]
<1>1. op \in ApplyOp /\ op.at = "apply"
  BY OpIs DEF DeleteObsolete
<1>2. b \in Backup
  BY <1>1, Save1IsTyped DEF Types, ApplyOp
<1>3. o \in [File -> Digest]
  BY <1>1 DEF ApplyOp, Digest
<1>4. op' = [op EXCEPT !.obsolete = o, !.backup = b]
  BY DEF DeleteObsolete
<1> HIDE DEF b, o
<1>5. op' \in ApplyOp /\ op'.put = op.put /\ op'.view = op.view
  BY <1>1, <1>2, <1>3, <1>4 DEF ApplyOp
<1>6. disk' \in Slot /\ mine' \in [File -> UserContent \cup {None}]
  BY DEF DeleteObsolete, Types, Slot
<1>7. UNCHANGED <<registry, records, original, zips, archives, install, reader, used, suspect, asked>>
  BY DEF DeleteObsolete, stores
<1>8. QED
  BY <1>1, <1>5, <1>6, <1>7, ApplyStepTypes DEF Types

LEMMA PutFileTypes ==
  ASSUME Types, NEW f \in File, PutFile(f) PROVE Types'
<1> DEFINE skip == disk[f] = Chosen(f) \/ ClaimedByAnother(f)
           b == IF skip THEN op.backup ELSE Save1(op.backup, {f})
<1>1. op \in ApplyOp /\ op.at = "apply" /\ f \in op.put
  BY OpIs DEF PutFile, Putting
<1>2. b \in Backup
  BY <1>1, Save1IsTyped DEF Types, ApplyOp
<1>3. op' = [op EXCEPT !.put = @ \ {f}, !.backup = b]
  BY DEF PutFile
<1> HIDE DEF b
<1>4. op' \in ApplyOp /\ op'.put \subseteq op.put /\ op'.view = op.view
  BY <1>1, <1>2, <1>3 DEF ApplyOp
<1>5. Chosen(f) \in Content
  BY <1>1, ChosenIsContent DEF Types, PutsCome
<1>6. disk' \in Slot /\ mine' \in [File -> UserContent \cup {None}]
  BY <1>5, ValuesApart DEF PutFile, Types, Slot
<1>7. UNCHANGED <<registry, records, original, zips, archives, install, reader, used, suspect, asked>>
  BY DEF PutFile, stores
<1>8. QED
  BY <1>1, <1>4, <1>6, <1>7, ApplyStepTypes DEF Types

LEMMA DisplacedIsValue ==
  ASSUME Types, install # None, NEW f \in File, Displaced(f) # {}
  PROVE (CHOOSE c \in Displaced(f) : TRUE) \in Displaced(f) /\ Displaced(f) \subseteq Value \cup {None}
<1>1. \A p \in Items : install.items[p] \in 1..Newest(p)
  BY IndexTypes DEF Items, Install, ReleasesExist, Types
<1>2. \A p \in Items : registry.payload[p][install.items[p]] \in Payload
  BY <1>1, IndexTypes DEF Items, Types
<1>3. \A p \in Items : Holds(p, f) \in Value \cup {None}
  BY <1>2, ValuesApart DEF Holds, Payload
<1>4. QED
  BY <1>3 DEF Displaced, Incoming, Types, Slot

LEMMA ArchiveOriginalTypes ==
  ASSUME Types, NEW f \in File, ArchiveOriginal(f) PROVE Types'
<1>1. op \in ApplyOp /\ op.at = "apply" /\ install # None
  BY OpIs DEF ArchiveOriginal, Putting, Types, PutsCome
<1>2. (CHOOSE c \in Displaced(f) : TRUE) \in Value \cup {None}
  BY <1>1, DisplacedIsValue DEF ArchiveOriginal, MustArchive
<1>3. original' \in Slot
  BY <1>2 DEF ArchiveOriginal, Types, Slot
<1>4. UNCHANGED <<registry, disk, records, zips, archives, install, op, reader, used, suspect, mine, asked>>
  BY DEF ArchiveOriginal, history
<1>5. QED
  BY <1>1, <1>3, <1>4, ApplyStepTypes DEF Types

LEMMA PlacesAreFiles ==
  ASSUME Types, NEW l \in Package, NEW places \in SUBSET Places(l)
  PROVE UNION places \subseteq File
BY IndexTypes DEF Types

\* Moving in and out of an archive, file by file.
LEMMA ReturnedIsTyped ==
  ASSUME NEW d \in Slot, NEW payload \in Slot
  PROVE /\ Returned(d, payload) \in Slot /\ Left(d, payload) \in Slot
        /\ \A f \in File : /\ Returned(d, payload)[f] = IF d[f] = None THEN payload[f] ELSE d[f]
                           /\ Left(d, payload)[f] = IF payload[f] # None /\ d[f] \notin {None, payload[f]}
                                                    THEN payload[f] ELSE None
BY DEF Returned, Left, Blocked, Slot

LEMMA GatheredIsTyped ==
  ASSUME Types, NEW l \in Package, NEW files
  PROVE /\ Gathered(l, files) \in Slot /\ Emptied(l, files) \in Slot
        /\ archives[l].payload \in Slot
        /\ \A f \in File : /\ Gathered(l, files)[f] = IF f \in files /\ archives[l].payload[f] = None
                                                        THEN disk[f] ELSE archives[l].payload[f]
                           /\ Emptied(l, files)[f] = IF f \in files /\ archives[l].payload[f] \in {None, disk[f]}
                                                      THEN None ELSE disk[f]
<1>1. archives[l].payload \in Slot /\ disk \in Slot
  BY DEF Types, Archive
<1>2. QED
  BY <1>1 DEF Gathered, Emptied, Slot

LEMMA DealtIsTyped ==
  ASSUME Types, op.at = "remove", NEW l \in Package, NEW view \in View, Bare(view.packages),
         NEW kept \in SUBSET Package
  PROVE LET o == Dealt(l, view, kept)
        IN /\ o \in RemoveOp /\ o.at = "remove"
           /\ o.loaders = op.loaders \ {l} /\ o.kept = kept /\ o.unwritten = {} /\ o.moved = op.moved
           /\ o.gone = op.gone /\ o.unpatch = op.unpatch /\ o.clear = op.clear
           /\ o.backup = op.backup /\ o.before = op.before
           /\ Bare(o.view.packages) /\ o.view.files = view.files
           /\ \A p \in Package : \/ o.view.packages[p] = view.packages[p]
                                 \/ p \in kept /\ o.view.packages[p] = records.packages[p]
<1> DEFINE packages == [p \in Package |-> IF p \in kept THEN records.packages[p] ELSE view.packages[p]]
           again == [view EXCEPT !.packages = packages]
           w == IF op.loaders # {l} THEN view ELSE again
<1>1. op \in RemoveOp
  BY OpIs
<1>2. packages \in [Package -> PackageRecord \cup {None}] /\ Bare(packages)
  BY DEF View, Types, Records, AllBare, Bare, Is
<1> HIDE DEF packages
<1>3. again \in View /\ again.packages = packages /\ again.files = view.files
  BY <1>2, DroppedIsTyped
<1> HIDE DEF again
<1>4. w \in View /\ Bare(w.packages) /\ w.files = view.files /\ w.packages \in {view.packages, packages}
  BY <1>2, <1>3
<1>5. Dealt(l, view, kept) = [op EXCEPT !.loaders = @ \ {l}, !.kept = kept, !.unwritten = {}, !.view = w]
  BY DEF Dealt, w, again, packages
<1>6. \A p \in Package : \/ w.packages[p] = view.packages[p]
                         \/ p \in kept /\ w.packages[p] = records.packages[p]
  BY <1>4 DEF packages
<1> HIDE DEF w
<1>7. QED
  BY <1>1, <1>4, <1>5, <1>6 DEF RemoveOp

LEMMA StartRemoveTypes ==
  ASSUME Types, NEW p \in Package, StartRemove(p)
  PROVE /\ op' \in RemoveOp /\ op'.at = "remove" /\ Bare(op'.view.packages)
        /\ op'.gone = Removing(records.packages, p) /\ op'.moved = <<>> /\ op'.unwritten = {}
        /\ op'.kept = {} /\ op'.backup = Unsaved /\ op'.before = disk
        /\ \A f \in op'.unpatch : f \in File /\ original[f] # None
        /\ \A q \in Package : op'.view.packages[q] = IF q \in op'.gone THEN None ELSE records.packages[q]
        /\ \A f \in File : op'.view.files[f] # None => op'.view.files[f].sha = records.sha[f]
                                                       /\ records.sha[f] # None
<1> DEFINE gone == Removing(records.packages, p)
           restoring == gone \cap Is("replacer") # {}
           patched == UNION {records.packages[q].files : q \in gone \cap Is("patch")}
           unpatch == {f \in patched : original[f] # None /\ ~(restoring /\ f \in registry.area)}
           packages == [q \in Package |-> IF q \in gone THEN None ELSE Disowned(Load, gone).packages[q]]
           view == RemoveView(gone)
<1>1. gone \subseteq Present(records.packages)
  BY DEF Removing
<1>2. \A q \in gone : records.packages[q].files \subseteq File
  BY <1>1 DEF Present, Types, Records, PackageRecord
<1>3. unpatch \subseteq File /\ \A f \in unpatch : original[f] # None
  BY <1>2
<1> HIDE DEF unpatch, patched, restoring
<1>4. /\ Disowned(Load, gone) \in View /\ Disowned(Load, gone).packages = records.packages
      /\ \A f \in File : Disowned(Load, gone).files[f] # None =>
           records.sha[f] # None /\ Disowned(Load, gone).files[f].sha = records.sha[f]
  BY LoadIsTyped, DisownedIsTyped
<1>5. packages \in [Package -> PackageRecord \cup {None}] /\ Bare(packages)
  BY <1>4 DEF Types, Records, AllBare, Bare, Is
<1>6. \A q \in Package : packages[q] = IF q \in gone THEN None ELSE records.packages[q]
  BY <1>4
<1>7. view = [Disowned(Load, gone) EXCEPT !.packages = packages]
  BY DEF RemoveView
<1> HIDE DEF view, packages
<1>8. view \in View /\ view.packages = packages /\ view.files = Disowned(Load, gone).files
  BY <1>4, <1>5, <1>7, DroppedIsTyped
<1>9. op' = [at |-> "remove", root |-> p, gone |-> gone, view |-> view,
             clear |-> restoring, unpatch |-> unpatch,
             loaders |-> gone \cap Homes, moved |-> <<>>, unwritten |-> {}, kept |-> {},
             backup |-> Unsaved, before |-> disk, restored |-> {}]
  BY DEF StartRemove, view, unpatch, patched, restoring
<1>10. Unsaved \in Backup /\ restoring \in BOOLEAN /\ gone \in SUBSET Package
  BY <1>1 DEF Unsaved, Backup, restoring, Present
<1> HIDE DEF gone
<1>11. op' \in RemoveOp
  BY <1>3, <1>8, <1>9, <1>10 DEF RemoveOp, Types, Homes, Is
<1>12. QED
  BY <1>3, <1>4, <1>5, <1>6, <1>8, <1>9, <1>11 DEF gone

LEMMA BeginRemoveTypes == ASSUME Types, NEW p \in Package, BeginRemove(p) PROVE Types'
<1>1. UNCHANGED <<registry, disk, records, original, zips, archives, install, reader, suspect, mine>>
  BY DEF BeginRemove, stores
<1>2. op' \in RemoveOp /\ op'.at = "remove" /\ Bare(op'.view.packages)
  BY StartRemoveTypes DEF BeginRemove
<1>3. used' \in Used /\ asked' \subseteq Package
  BY DEF BeginRemove, Spend, Types, Used
<1>4. PutsCome' /\ ReleasesExist'
  BY <1>1, <1>2 DEF PutsCome, ReleasesExist, Newest, Types
<1>5. AllBare'
  BY <1>1, <1>2 DEF Types, AllBare, Bare, Is, Kind
<1>6. QED
  BY <1>1, <1>2, <1>3, <1>4, <1>5 DEF Types

LEMMA DisplaceTypes == ASSUME Types, NEW p \in Package, Displace(p) PROVE Types'
<1>1. UNCHANGED <<registry, disk, records, original, zips, archives, reader, used, suspect, mine>>
  BY DEF Displace, stores
<1>2. CASE CanRemove(p)
  <2>1. op' \in RemoveOp /\ op'.at = "remove" /\ Bare(op'.view.packages)
    BY <1>2, StartRemoveTypes DEF Displace
  <2>2. asked' \subseteq Package /\ install \in Install
    BY <1>2 DEF Displace, Types
  <2>3. install' \in Install /\ install'.items = install.items
    BY <1>2, <2>2 DEF Displace, Install
  <2>4. PutsCome' /\ ReleasesExist'
    BY <1>1, <2>1, <2>3 DEF PutsCome, ReleasesExist, Newest, Types, Displace
  <2>5. AllBare'
    BY <1>1, <2>1 DEF Types, AllBare, Bare, Is, Kind
  <2>6. QED
    BY <1>1, <2>1, <2>2, <2>3, <2>4, <2>5 DEF Types
<1>3. CASE ~CanRemove(p)
  <2>1. op = Idle /\ op' = op /\ asked' = asked /\ install' = None
    BY <1>3 DEF Displace
  <2>2. PutsCome' /\ ReleasesExist'
    BY <2>1, IdleIsTyped DEF PutsCome, ReleasesExist
  <2>3. AllBare'
    BY <1>1, <2>1, IdleIsTyped DEF Types, AllBare, Bare, Is, Kind
  <2>4. QED
    BY <1>1, <2>1, <2>2, <2>3, IdleIsTyped DEF Types
<1>4. QED
  BY <1>2, <1>3

LEMMA EntryIsSet ==
  ASSUME NEW v \in View, NEW f \in File, NEW e \in Entry \cup {None}
  PROVE /\ [v EXCEPT !.files[f] = e] \in View
        /\ [v EXCEPT !.files[f] = e].packages = v.packages
        /\ \A g \in File : [v EXCEPT !.files[f] = e].files[g] = IF g = f THEN e ELSE v.files[g]
BY DEF View

\* A step of a removal that changes the view, what is left to do and what is saved.
Updated(clear, view, unpatch, backup) ==
  [op EXCEPT !.clear = clear, !.view = view, !.unpatch = unpatch, !.backup = backup]
LEMMA RemoveOpUpdated ==
  ASSUME op \in RemoveOp, NEW view \in View, NEW unpatch \in SUBSET File, NEW backup \in Backup,
         NEW clear \in BOOLEAN, NEW o, o = Updated(clear, view, unpatch, backup)
  PROVE /\ o \in RemoveOp /\ o.view = view /\ o.clear = clear /\ o.unpatch = unpatch
        /\ o.backup = backup /\ o.at = op.at /\ o.gone = op.gone /\ o.loaders = op.loaders
        /\ o.moved = op.moved /\ o.unwritten = op.unwritten /\ o.kept = op.kept /\ o.before = op.before
BY DEF RemoveOp, Updated

\* The rest of the removal's plan stays as it is.
SameDealings ==
  /\ op'.gone = op.gone /\ op'.loaders = op.loaders /\ op'.moved = op.moved
  /\ op'.unwritten = op.unwritten /\ op'.kept = op.kept /\ op'.before = op.before

LEMMA RestoreTakenShape ==
  ASSUME Types, RestoreTaken
  PROVE /\ op' \in RemoveOp /\ op'.at = "remove" /\ SameDealings /\ ~op'.clear /\ op'.unpatch = op.unpatch
        /\ op'.backup = Save1(op.backup, registry.area)
        /\ op'.view = Without(op.view, registry.area)
<1> DEFINE b == Save1(op.backup, registry.area)
           v == Without(op.view, registry.area)
           no == FALSE
<1>1. op \in RemoveOp /\ op.at = "remove"
  BY OpIs DEF RestoreTaken, Removal
<1>2. b \in Backup /\ v \in View
  BY <1>1, Save1IsTyped, WithoutIsTyped DEF Types, RemoveOp
<1>3. op' = [op EXCEPT !.clear = FALSE, !.view = v, !.backup = b]
  BY DEF RestoreTaken
<1> HIDE DEF b, v
<1>4. op' = Updated(no, v, op.unpatch, b)
  BY <1>1, <1>3 DEF RemoveOp, Updated
<1>5. op.unpatch \in SUBSET File /\ no \in BOOLEAN
  BY <1>1 DEF RemoveOp
<1> HIDE DEF no
<1>6. /\ op' \in RemoveOp /\ op'.at = "remove" /\ SameDealings /\ op'.clear = no
      /\ op'.unpatch = op.unpatch /\ op'.backup = b /\ op'.view = v
  BY <1>1, <1>2, <1>4, <1>5, RemoveOpUpdated DEF SameDealings
<1>7. QED
  BY <1>6 DEF b, v, no

LEMMA RestoreTakenTypes == ASSUME Types, RestoreTaken PROVE Types'
<1>1. op' \in RemoveOp /\ op'.view = Without(op.view, registry.area)
  BY RestoreTakenShape
<1>2. Bare(op'.view.packages)
  BY <1>1, WithoutIsTyped, OpIs DEF Types, AllBare, RestoreTaken, Removal
<1>3. LastZip \in Slot
  <2>1. NoSlot \in Slot
    BY DEF NoSlot, Slot
  <2> HIDE DEF Slot
  <2>2. QED
    BY <2>1 DEF LastZip, Types
<1>4. disk' \in Slot /\ mine' \in [File -> UserContent \cup {None}]
  BY <1>3 DEF RestoreTaken, Types, Slot
<1>5. UNCHANGED <<registry, records, original, zips, archives, install, reader, used, suspect, asked>>
  BY DEF RestoreTaken, stores
<1>6. QED
  BY <1>1, <1>2, <1>4, <1>5, RemoveStepTypes DEF Types, AllBare, RestoreTaken, Removal

LEMMA UnpatchShape ==
  ASSUME Types, NEW f \in File, Unpatch(f)
  PROVE LET e == op.view.files[f]
            puts == /\ e # None /\ disk[f] # None
                    /\ e.owners \cap Is("patch") = {} /\ disk[f] = e.sha
        IN /\ op' \in RemoveOp /\ op'.at = "remove" /\ SameDealings /\ op'.clear = op.clear
           /\ op'.unpatch = op.unpatch \ {f}
           /\ op'.backup = (IF puts THEN Save1(op.backup, {f}) ELSE op.backup)
           /\ op'.view.packages = op.view.packages
           /\ \A g \in File : g # f => op'.view.files[g] = op.view.files[g]
           /\ ~puts => op'.view.files[f] = e
           /\ puts => op'.view.files[f] = OwnedAgain(e, f)
           /\ OwnedAgain(e, f) # None /\ e # None => OwnedAgain(e, f).sha = original[f]
<1> DEFINE e == op.view.files[f]
           puts == /\ e # None /\ disk[f] # None
                   /\ e.owners \cap Is("patch") = {} /\ disk[f] = e.sha
           b == IF puts THEN Save1(op.backup, {f}) ELSE op.backup
           n == IF puts THEN OwnedAgain(e, f) ELSE e
           v == [op.view EXCEPT !.files[f] = n]
<1>1. op \in RemoveOp /\ op.at = "remove" /\ op.view \in View
  BY OpIs DEF Unpatch, Removal
<1>2. b \in Backup
  BY <1>1, Save1IsTyped DEF Types, RemoveOp
<1>3. e \in Entry \cup {None}
  BY <1>1 DEF View
<1>4. e # None => OwnedAgain(e, f) \in Entry \cup {None}
                  /\ (OwnedAgain(e, f) # None => OwnedAgain(e, f).sha = original[f])
  <2>1. original[f] \in Digest
    BY DEF Types, Slot, Digest
  <2>2. QED
    BY <1>3, <2>1 DEF OwnedAgain, Entry
<1>5. n \in Entry \cup {None}
  BY <1>3, <1>4
<1>6. op' = [op EXCEPT !.unpatch = @ \ {f}, !.view.files[f] = n, !.backup = b]
  BY DEF Unpatch
<1>7. op.unpatch \ {f} \in SUBSET File /\ op.clear \in BOOLEAN
  BY <1>1 DEF RemoveOp
<1> HIDE DEF e, puts, b, n
<1>8. op' = Updated(op.clear, v, op.unpatch \ {f}, b)
  BY <1>1, <1>6 DEF RemoveOp, Updated
<1>9. /\ v \in View /\ v.packages = op.view.packages
      /\ \A g \in File : v.files[g] = IF g = f THEN n ELSE op.view.files[g]
  BY <1>1, <1>5, EntryIsSet
<1> HIDE DEF v
<1>10. /\ op' \in RemoveOp /\ op'.at = "remove" /\ SameDealings /\ op'.clear = op.clear
       /\ op'.unpatch = op.unpatch \ {f} /\ op'.backup = b /\ op'.view = v
  BY <1>1, <1>2, <1>7, <1>8, <1>9, RemoveOpUpdated DEF SameDealings
<1>11. QED
  BY <1>4, <1>9, <1>10 DEF e, puts, b, n

LEMMA UnpatchTypes == ASSUME Types, NEW f \in File, Unpatch(f) PROVE Types'
<1>1. op.at = "remove" /\ op' \in RemoveOp /\ Bare(op'.view.packages)
  BY UnpatchShape DEF Types, AllBare, Unpatch, Removal
<1>2. disk' \in Slot /\ mine' \in [File -> UserContent \cup {None}]
  BY DEF Unpatch, Types, Slot
<1>3. UNCHANGED <<registry, records, original, zips, archives, install, reader, used, suspect, asked>>
  BY DEF Unpatch, stores
<1>4. QED
  BY <1>1, <1>2, <1>3, RemoveStepTypes DEF Types, AllBare

LEMMA UnlinkShape ==
  ASSUME Types, NEW f \in File, Unlink(f)
  PROVE LET ours == disk[f] # None /\ disk[f] = op.view.files[f].sha
        IN /\ op' \in RemoveOp /\ op'.at = "remove" /\ SameDealings /\ op'.clear = op.clear
           /\ op'.unpatch = op.unpatch
           /\ op'.backup = (IF ours THEN Save1(op.backup, {f}) ELSE op.backup)
           /\ op'.view.packages = op.view.packages
           /\ op'.view.files[f] = None
           /\ \A g \in File : g # f => op'.view.files[g] = op.view.files[g]
<1> DEFINE ours == disk[f] # None /\ disk[f] = op.view.files[f].sha
           b == IF ours THEN Save1(op.backup, {f}) ELSE op.backup
           v == [op.view EXCEPT !.files[f] = None]
<1>1. op \in RemoveOp /\ op.at = "remove" /\ op.view \in View
  BY OpIs DEF Unlink, Unlinking, Removal
<1>2. b \in Backup
  BY <1>1, Save1IsTyped DEF Types, RemoveOp
<1>3. op' = [op EXCEPT !.view.files[f] = None, !.backup = b]
  BY DEF Unlink
<1>4. op.unpatch \in SUBSET File /\ op.clear \in BOOLEAN
  BY <1>1 DEF RemoveOp
<1> HIDE DEF b
<1>5. op' = Updated(op.clear, v, op.unpatch, b)
  BY <1>1, <1>3 DEF RemoveOp, Updated
<1>6. /\ v \in View /\ v.packages = op.view.packages
      /\ \A g \in File : v.files[g] = IF g = f THEN None ELSE op.view.files[g]
  BY <1>1, EntryIsSet
<1> HIDE DEF v
<1>7. /\ op' \in RemoveOp /\ op'.at = "remove" /\ SameDealings /\ op'.clear = op.clear
      /\ op'.unpatch = op.unpatch /\ op'.backup = b /\ op'.view = v
  BY <1>1, <1>2, <1>4, <1>5, <1>6, RemoveOpUpdated DEF SameDealings
<1>8. QED
  BY <1>6, <1>7 DEF b

LEMMA UnlinkTypes == ASSUME Types, NEW f \in File, Unlink(f) PROVE Types'
<1>1. op.at = "remove" /\ op' \in RemoveOp /\ Bare(op'.view.packages)
  BY UnlinkShape DEF Types, AllBare, Unlink, Unlinking, Removal
<1>2. disk' \in Slot /\ mine' \in [File -> UserContent \cup {None}]
  BY DEF Unlink, Types, Slot
<1>3. UNCHANGED <<registry, records, original, zips, archives, install, reader, used, suspect, asked>>
  BY DEF Unlink, stores
<1>4. QED
  BY <1>1, <1>2, <1>3, RemoveStepTypes DEF Types, AllBare

\* A step that fills one archive and empties places on the disk.
LEMMA ArchiveIsFilled ==
  ASSUME Types, NEW l \in Package, NEW payload \in Slot,
         archives' = [archives EXCEPT ![l].payload = payload]
  PROVE /\ archives' \in [Package -> Archive]
        /\ archives'[l].payload = payload
        /\ \A k \in Package : /\ archives'[k].manifest = archives[k].manifest
                              /\ k # l => archives'[k].payload = archives[k].payload
BY DEF Types, Archive

LEMMA KeepLoaderTypes == ASSUME Types, NEW l \in Package, KeepLoader(l) PROVE Types'
<1>1. op \in RemoveOp /\ op.at = "remove" /\ op.view \in View /\ Bare(op.view.packages)
  BY OpIs DEF KeepLoader, Moving, Removal, Types, AllBare
<1>2. op.kept \cup {l} \in SUBSET Package
  BY <1>1 DEF RemoveOp
<1>3. op' \in RemoveOp /\ Bare(op'.view.packages)
  BY <1>1, <1>2, DealtIsTyped DEF KeepLoader
<1>4. PICK stuck \in SUBSET Occupied(l) \ {{}} :
        /\ used' = used \/ Spend("faults")
        /\ LET moved == Occupied(l) \ stuck
               files == UNION (moved \cup Clashing(l))
               payload == Gathered(l, files)
               d == Emptied(l, files)
           IN /\ disk' = IF moved = {} THEN d ELSE Returned(d, payload)
              /\ archives' = [archives EXCEPT ![l].payload =
                                IF moved = {} THEN payload ELSE Left(d, payload)]
  BY DEF KeepLoader
<1> DEFINE moved == Occupied(l) \ stuck
           files == UNION (moved \cup Clashing(l))
           payload == Gathered(l, files)
           d == Emptied(l, files)
           rest == IF moved = {} THEN payload ELSE Left(d, payload)
<1>5. payload \in Slot /\ d \in Slot
  BY GatheredIsTyped
<1>6. Returned(d, payload) \in Slot /\ rest \in Slot
  BY <1>5, ReturnedIsTyped
<1>7. disk' \in Slot
  BY <1>4, <1>5, <1>6
<1> HIDE DEF rest
<1>8. archives' = [archives EXCEPT ![l].payload = rest]
  BY <1>4 DEF rest
<1>9. archives' \in [Package -> Archive] /\ \A k \in Package : archives'[k].manifest = archives[k].manifest
  BY <1>6, <1>8, ArchiveIsFilled
<1>10. used' \in Used
  BY <1>4 DEF Spend, Types, Used
<1>11. UNCHANGED <<registry, records, original, zips, install, reader, mine, asked>> /\ suspect' \subseteq File
  BY DEF KeepLoader, Types
<1>12. QED
  BY <1>1, <1>3, <1>7, <1>9, <1>10, <1>11, RemoveStepTypes DEF Types, AllBare

LEMMA MoveLoaderShape ==
  ASSUME Types, NEW l \in Package, MoveLoader(l)
  PROVE /\ op' \in RemoveOp /\ op'.at = "remove" /\ Bare(op'.view.packages)
        /\ op'.kept = op.kept /\ op'.clear = op.clear /\ op'.unpatch = op.unpatch
        /\ op'.backup = op.backup /\ op'.before = op.before
        /\ op'.view.files = op.view.files
        /\ \A p \in Package : \/ op'.view.packages[p] = op.view.packages[p]
                              \/ p \in op.kept /\ op'.view.packages[p] = records.packages[p]
        /\ IF Occupied(l) = {}
           THEN op'.moved = op.moved /\ op'.loaders = op.loaders \ {l} /\ op'.unwritten = {}
           ELSE op'.moved = Append(op.moved, l) /\ op'.loaders = op.loaders
                /\ op'.unwritten = {[loader |-> l, files |-> UNION Occupied(l)]}
<1>1. op \in RemoveOp /\ op.at = "remove" /\ op.view \in View /\ Bare(op.view.packages)
  BY OpIs DEF MoveLoader, Moving, Removal, Types, AllBare
<1>2. CASE Occupied(l) = {}
  <2>1. op' = Dealt(l, op.view, op.kept) /\ op.kept \in SUBSET Package
    BY <1>1, <1>2 DEF MoveLoader, RemoveOp
  <2>2. QED
    BY <1>1, <1>2, <2>1, DealtIsTyped
<1>3. CASE Occupied(l) # {}
  <2> DEFINE u == [loader |-> l, files |-> UNION Occupied(l)]
             m == Append(op.moved, l)
  <2>1. UNION Occupied(l) \subseteq File
    BY PlacesAreFiles DEF Occupied
  <2>2. u \in Carry
    BY <2>1 DEF Carry
  <2>3. m \in Seq(Package)
    BY <1>1 DEF RemoveOp
  <2>4. op' = [op EXCEPT !.moved = m, !.unwritten = {u}]
    BY <1>3 DEF MoveLoader
  <2> HIDE DEF u, m
  <2>5. /\ op' \in RemoveOp /\ op'.at = "remove" /\ op'.view = op.view /\ op'.kept = op.kept
        /\ op'.clear = op.clear /\ op'.unpatch = op.unpatch /\ op'.backup = op.backup
        /\ op'.before = op.before /\ op'.moved = m /\ op'.loaders = op.loaders /\ op'.unwritten = {u}
    BY <1>1, <2>2, <2>3, <2>4 DEF RemoveOp
  <2>6. QED
    BY <1>1, <1>3, <2>5 DEF u, m
<1>4. QED
  BY <1>2, <1>3

LEMMA MoveLoaderTypes == ASSUME Types, NEW l \in Package, MoveLoader(l) PROVE Types'
<1>1. op.at = "remove" /\ op' \in RemoveOp /\ Bare(op'.view.packages)
  BY MoveLoaderShape DEF MoveLoader, Moving, Removal
<1> DEFINE files == UNION Occupied(l)
<1>2. Gathered(l, files) \in Slot /\ Emptied(l, files) \in Slot
  BY GatheredIsTyped
<1>3. disk' = Emptied(l, files) /\ archives' = [archives EXCEPT ![l].payload = Gathered(l, files)]
  BY DEF MoveLoader
<1>4. archives' \in [Package -> Archive] /\ \A k \in Package : archives'[k].manifest = archives[k].manifest
  BY <1>2, <1>3, ArchiveIsFilled
<1>5. UNCHANGED <<registry, records, original, zips, install, reader, used, suspect, mine, asked>>
  BY DEF MoveLoader, history
<1>6. QED
  BY <1>1, <1>2, <1>3, <1>4, <1>5, RemoveStepTypes DEF Types, AllBare

\* The parts of what WriteManifest works out.
Stays(p, files) == {f \in op.view.packages[p].files : Without(op.view, files).files[f] # None}
Goes(files) == {p \in Present(op.view.packages) \ Is("loader") :
                  op.view.packages[p].files # {} /\ Stays(p, files) = {}}
Lifted(p, files) == [op.view.packages[p] EXCEPT !.files = Stays(p, files)]
Trimmed(files) == [p \in Package |-> IF op.view.packages[p] = None \/ p \in Goes(files) THEN None
                                     ELSE Lifted(p, files)]
Written(l) == IF archives[l].manifest # None THEN archives[l].manifest
              ELSE [files |-> NoSlot, packages |-> [p \in Package |-> None]]
TakenAlong(files) == {f \in files : op.view.files[f] # None /\ op.view.files[f].owners # {}}
Manifest(l, files) ==
  [files |-> [f \in File |-> IF f \in TakenAlong(files) THEN op.view.files[f] ELSE Written(l).files[f]],
   packages |-> [p \in Package |-> IF p \in Goes(files) THEN Lifted(p, files) ELSE Written(l).packages[p]]]
Rest(files) == [Without(op.view, files) EXCEPT !.packages = Trimmed(files)]

LEMMA ManifestIsTyped ==
  ASSUME Types, op.at # "idle", NEW l \in Package, NEW files \in SUBSET File
  PROVE /\ Manifest(l, files) \in View /\ Bare(Manifest(l, files).packages)
        /\ \A p \in Package : \/ p \in Goes(files) /\ Manifest(l, files).packages[p] # None
                              \/ p \notin Goes(files)
                                 /\ (archives[l].manifest # None =>
                                       Manifest(l, files).packages[p] = archives[l].manifest.packages[p])
        /\ \A f \in File : \/ Manifest(l, files).files[f] = op.view.files[f]
                           \/ Manifest(l, files).files[f] = None
                           \/ archives[l].manifest # None /\ Manifest(l, files).files[f] = archives[l].manifest.files[f]
        /\ Rest(files) \in View /\ Bare(Rest(files).packages)
        /\ \A f \in File : Rest(files).files[f] \in {None, op.view.files[f]}
        /\ \A p \in Package :
             IF op.view.packages[p] = None \/ p \in Goes(files) THEN Rest(files).packages[p] = None
             ELSE /\ Rest(files).packages[p] # None
                  /\ Rest(files).packages[p].requested = op.view.packages[p].requested
<1>1. op.view \in View /\ Bare(op.view.packages)
  BY OpIs DEF Types, AllBare
<1>2. \A p \in Package : op.view.packages[p] # None =>
        /\ Lifted(p, files) \in PackageRecord
        /\ Lifted(p, files).requested = op.view.packages[p].requested
        /\ Lifted(p, files).files \subseteq op.view.packages[p].files
  <2> SUFFICES ASSUME NEW p \in Package, op.view.packages[p] # None
               PROVE /\ Lifted(p, files) \in PackageRecord
                     /\ Lifted(p, files).requested = op.view.packages[p].requested
                     /\ Lifted(p, files).files \subseteq op.view.packages[p].files
    OBVIOUS
  <2> DEFINE r == op.view.packages[p]
             s == Stays(p, files)
  <2>1. r \in PackageRecord
    BY <1>1 DEF View
  <2>2. s \subseteq r.files
    BY DEF Stays
  <2>3. Lifted(p, files) = [r EXCEPT !.files = s]
    BY DEF Lifted
  <2> HIDE DEF r, s
  <2>4. Lifted(p, files) \in PackageRecord /\ Lifted(p, files).requested = r.requested /\ Lifted(p, files).files = s
    BY <2>1, <2>2, <2>3 DEF PackageRecord
  <2>5. QED
    BY <2>2, <2>4 DEF r
<1>3. \A p \in Package : op.view.packages[p] # None => Lifted(p, files) # None
  BY <1>2, ValuesApart
<1>4. /\ Written(l) \in View /\ Bare(Written(l).packages)
      /\ archives[l].manifest # None => Written(l) = archives[l].manifest
      /\ archives[l].manifest = None => \A f \in File : Written(l).files[f] = None
  BY DEF Written, Types, AllBare, Archive, View, NoSlot, Bare, Is
<1>5. Goes(files) \subseteq Present(op.view.packages) \ Is("loader")
  BY DEF Goes
<1> HIDE DEF Lifted
<1>6. Trimmed(files) \in [Package -> PackageRecord \cup {None}] /\ Bare(Trimmed(files))
  BY <1>1, <1>2 DEF Trimmed, Bare, Is
<1>7. /\ Without(op.view, files) \in View
      /\ \A f \in File : Without(op.view, files).files[f] \in {None, op.view.files[f]}
  BY <1>1, WithoutIsTyped
<1>8. Rest(files) \in View /\ Rest(files).packages = Trimmed(files) /\ Rest(files).files = Without(op.view, files).files
  BY <1>6, <1>7, DroppedIsTyped DEF Rest
<1>9. Manifest(l, files) \in View
  BY <1>1, <1>2, <1>4, <1>5 DEF Manifest, View, Present
<1>10. Bare(Manifest(l, files).packages)
  BY <1>4, <1>5 DEF Manifest, Bare, Is
<1>11. QED
  BY <1>2, <1>3, <1>4, <1>5, <1>6, <1>7, <1>8, <1>9, <1>10 DEF Manifest, Trimmed, Present

LEMMA WriteManifestShape ==
  ASSUME Types, NEW l \in Package, NEW files \in SUBSET File, WriteManifest(l, files)
  PROVE /\ op' \in RemoveOp /\ op'.at = "remove" /\ Bare(op'.view.packages)
        /\ op'.kept = op.kept /\ op'.clear = op.clear /\ op'.unpatch = op.unpatch
        /\ op'.backup = op.backup /\ op'.before = op.before /\ op'.moved = op.moved
        /\ op'.loaders = op.loaders \ {l} /\ op'.unwritten = {}
        /\ op'.view.files = Rest(files).files
        /\ \A p \in Package : \/ op'.view.packages[p] = Rest(files).packages[p]
                              \/ p \in op.kept /\ op'.view.packages[p] = records.packages[p]
        /\ archives' \in [Package -> Archive]
        /\ archives'[l].manifest = Manifest(l, files)
        /\ \A k \in Package : /\ archives'[k].payload = archives[k].payload
                              /\ k # l => archives'[k].manifest = archives[k].manifest
<1>1. op \in RemoveOp /\ op.at = "remove" /\ op.kept \in SUBSET Package
  BY OpIs DEF WriteManifest, Removal, RemoveOp
<1>2. /\ archives' = [archives EXCEPT ![l].manifest = Manifest(l, files)]
      /\ op' = Dealt(l, Rest(files), op.kept)
  BY DEF WriteManifest, Manifest, Rest, Trimmed, Goes, Lifted, Stays, Written, TakenAlong
<1>3. /\ Rest(files) \in View /\ Bare(Rest(files).packages)
      /\ Manifest(l, files) \in View
  BY <1>1, ManifestIsTyped
<1>4. /\ archives' \in [Package -> Archive]
      /\ archives'[l].manifest = Manifest(l, files)
      /\ \A k \in Package : /\ archives'[k].payload = archives[k].payload
                            /\ k # l => archives'[k].manifest = archives[k].manifest
  <2> DEFINE m == Manifest(l, files)
  <2> HIDE DEF m
  <2>1. archives' = [archives EXCEPT ![l].manifest = m] /\ m \in View
    BY <1>2, <1>3 DEF m
  <2>2. QED
    BY <2>1 DEF Types, Archive, m
<1>5. QED
  BY <1>1, <1>2, <1>3, <1>4, DealtIsTyped

LEMMA WriteManifestTypes ==
  ASSUME Types, NEW l \in Package, NEW files \in SUBSET File, WriteManifest(l, files) PROVE Types'
<1>1. op.at = "remove" /\ Bare(Manifest(l, files).packages)
  BY ManifestIsTyped DEF WriteManifest, Removal
<1>2. \A k \in Package : archives'[k].manifest # None => Bare(archives'[k].manifest.packages)
  BY <1>1, WriteManifestShape DEF Types, AllBare
<1>3. UNCHANGED <<registry, disk, records, original, zips, install, reader, used, suspect, mine, asked>>
  BY DEF WriteManifest, history
<1>4. QED
  BY <1>1, <1>2, <1>3, WriteManifestShape, RemoveStepTypes DEF Types

LEMMA SaveRemoveTypes == ASSUME Types, SaveRemove PROVE Types'
<1>1. op \in RemoveOp /\ op.at = "remove" /\ op.view \in View /\ Bare(op.view.packages)
  BY OpIs DEF SaveRemove, Unlinking, Removal, Types, AllBare
<1>2. records' \in Records /\ records'.packages = op.view.packages
  <2>1. /\ DOMAIN op.view = {"packages", "files"}
        /\ op.view.packages \in [Package -> PackageRecord \cup {None}]
        /\ \A f \in File : op.view.files[f] = None \/ op.view.files[f].sha \in Digest
    BY <1>1 DEF View, Entry
  <2>2. QED
    BY <2>1, StoredIsTyped DEF SaveRemove
<1>3. op' \in RemoveOp /\ op'.at = "prune" /\ op'.view = op.view
  BY <1>1 DEF SaveRemove, RemoveOp
<1>4. UNCHANGED <<registry, disk, original, zips, archives, install, reader, used, suspect, mine, asked>>
  BY DEF SaveRemove, stores, history
<1>5. PutsCome' /\ ReleasesExist' /\ AllBare'
  BY <1>1, <1>2, <1>3, <1>4 DEF Types, PutsCome, ReleasesExist, Newest, AllBare, Bare, Is, Kind
<1>6. QED
  BY <1>2, <1>3, <1>4, <1>5 DEF Types

LEMMA PruneOriginalsTypes == ASSUME Types, PruneOriginals PROVE Types'
<1>1. original' \in Slot /\ mine' \in [File -> UserContent \cup {None}]
  BY DEF PruneOriginals, Types, Slot
<1>2. op' = Idle
  BY DEF PruneOriginals
<1>3. UNCHANGED <<registry, disk, records, zips, archives, install, reader, used, suspect, asked>>
  BY DEF PruneOriginals
<1>4. PutsCome' /\ ReleasesExist' /\ AllBare'
  BY <1>2, <1>3, IdleIsTyped DEF Types, PutsCome, ReleasesExist, Newest, AllBare, Bare, Is, Kind
<1>5. QED
  BY <1>1, <1>2, <1>3, <1>4, IdleIsTyped DEF Types

\* A step that leaves no transaction under way and changes neither disk nor stores.
LEMMA IdleStepTypes ==
  ASSUME Types, op' = Idle, install' \in Install \cup {None}, ReleasesExist',
         records' \in Records, Bare(records'.packages),
         reader' \in [read : Records] \cup {None},
         reader' # None => Bare(reader'.read.packages),
         disk' \in Slot, archives' \in [Package -> Archive],
         \A l \in Package : archives'[l].manifest # None => Bare(archives'[l].manifest.packages),
         used' \in Used, suspect' \subseteq File, asked' \subseteq Package,
         mine' \in [File -> UserContent \cup {None}],
         UNCHANGED <<registry, original, zips>>
  PROVE Types'
<1>1. PutsCome' /\ AllBare'
  BY IdleIsTyped DEF Types, PutsCome, AllBare, Bare, Is, Kind
<1>2. QED
  BY <1>1, IdleIsTyped DEF Types

LEMMA BeginInstallTypes ==
  ASSUME Types, NEW p \in Package, NEW force \in BOOLEAN, NEW release \in 1..Newest(p),
         BeginInstall(p, release, force)
  PROVE Types'
<1> DEFINE plan == Plan(p)
           at(q) == IF q = p THEN release
                    ELSE IF records.packages[q] # None /\ records.packages[q].release = Newest(q)
                    THEN 0 ELSE Newest(q)
           items == [q \in Package |-> IF q \in plan THEN at(q) ELSE 0]
           away == InTheWay(plan)
<1>1. plan \subseteq Package /\ away \subseteq Package
  BY DEF Plan, InTheWay, Present
<1>2. \A q \in Package : Newest(q) \in Nat \ {0}
  BY IndexTypes DEF Types
<1>3. items \in [Package -> Nat] /\ \A q \in Package : items[q] <= Newest(q)
  BY <1>2
<1>4. install' = [root |-> p, force |-> force, plan |-> plan, items |-> items, displaced |-> away]
  BY DEF BeginInstall
<1> HIDE DEF items, plan, away
<1>5. install' \in Install /\ install'.items = items
  BY <1>1, <1>3, <1>4 DEF Install
<1>6. UNCHANGED <<registry, disk, records, original, zips, archives, op, reader, suspect, mine, asked>> /\ op = Idle
  BY DEF BeginInstall, Quiet, stores, history
<1>7. used' \in Used
  BY DEF BeginInstall, Spend, Types, Used
<1>8. ReleasesExist'
  BY <1>3, <1>5, <1>6 DEF ReleasesExist, Newest
<1>9. QED
  BY <1>5, <1>6, <1>7, <1>8, IdleStepTypes DEF Types, AllBare, history

LEMMA ApplyBeginTypes == ASSUME Types, ApplyBegin PROVE Types'
<1>1. UNCHANGED <<registry, disk, records, original, zips, archives, reader, used, suspect, mine, asked>>
  BY DEF ApplyBegin, stores, history
<1>2. CASE PlanClash
  <2>1. op' = Idle /\ install' = None
    BY <1>2 DEF ApplyBegin
  <2>2. QED
    BY <1>1, <2>1, IdleStepTypes DEF Types, AllBare, ReleasesExist
<1>3. CASE ~PlanClash
  <2> DEFINE ls == {l \in Items \cap Homes : archives[l].manifest # None}
  <2>1. ls \subseteq Package /\ \A l \in ls : archives[l].manifest # None
    BY DEF Items
  <2>2. op' = [at |-> "restore", view |-> Load, restored |-> {}, loaders |-> ls]
    BY <1>3 DEF ApplyBegin
  <2> HIDE DEF ls
  <2>3. /\ op' \in RestoreOp /\ op'.at = "restore" /\ op'.view = Load /\ op'.restored = {}
        /\ op'.loaders = ls
    BY <2>1, <2>2, LoadIsTyped DEF RestoreOp
  <2>4. install # None /\ install' = install
    BY <1>3 DEF ApplyBegin
  <2>5. PutsCome' /\ ReleasesExist' /\ AllBare'
    BY <1>1, <2>3, <2>4, LoadIsTyped DEF PutsCome, ReleasesExist, Newest, Types, AllBare, Bare, Is, Kind
  <2>6. QED
    BY <1>1, <2>1, <2>3, <2>4, <2>5 DEF Types
<1>4. QED
  BY <1>2, <1>3

\* The parts of what RestoreArchive works out.
Back(l) == {p \in Package : archives[l].manifest.packages[p] # None /\ op.view.packages[p] = None}
BackFiles(l) ==
  [f \in File |-> IF archives[l].manifest.files[f] # None /\ f \notin Blocked(disk, archives[l].payload)
                     /\ op.view.files[f] = None /\ Returned(disk, archives[l].payload)[f] # None
                  THEN archives[l].manifest.files[f] ELSE op.view.files[f]]
BackRecord(l, p) == IF p \in Back(l) THEN archives[l].manifest.packages[p] ELSE op.view.packages[p]
BackPackages(l) ==
  [p \in Package |-> IF p \in op.restored \cup Back(l)
                     THEN [BackRecord(l, p) EXCEPT !.files = {f \in @ : BackFiles(l)[f] # None}]
                     ELSE BackRecord(l, p)]
Owed(l) == [files |-> [f \in File |-> IF BackFiles(l)[f] = None THEN archives[l].manifest.files[f] ELSE None],
            packages |-> [p \in Package |-> None]]
BackView(l) == [packages |-> BackPackages(l), files |-> BackFiles(l)]
Kept(l) == [payload |-> Left(disk, archives[l].payload),
            manifest |-> IF Left(disk, archives[l].payload) = NoSlot /\ Owed(l).files = NoSlot
                         THEN None ELSE Owed(l)]

LEMMA BackIsTyped ==
  ASSUME Types, op.at = "restore", NEW l \in op.loaders
  PROVE /\ BackView(l) \in View /\ Bare(BackPackages(l)) /\ Kept(l) \in Archive
        /\ Kept(l).manifest # None =>
             /\ \A p \in Package : Kept(l).manifest.packages[p] = None
             /\ \A f \in File : Kept(l).manifest.files[f] \in {None, archives[l].manifest.files[f]}
        /\ \A p \in Package :
             /\ p \in op.restored \cup Back(l) => BackPackages(l)[p] # None
             /\ (op.view.packages[p] # None \/ p \in Back(l)) <=> BackPackages(l)[p] # None
             /\ op.view.packages[p] # None =>
                  p \notin Back(l) /\ BackPackages(l)[p].requested = op.view.packages[p].requested
        /\ \A f \in File : \/ BackFiles(l)[f] = op.view.files[f]
                           \/ BackFiles(l)[f] = archives[l].manifest.files[f]
<1> DEFINE m == archives[l].manifest
           a == archives[l].payload
<1>1. op.view \in View /\ Bare(op.view.packages) /\ op \in RestoreOp
  BY OpIs DEF Types, AllBare
<1>2. l \in Package
  BY <1>1 DEF RestoreOp
<1>3. m \in View /\ Bare(m.packages) /\ a \in Slot /\ disk \in Slot
  BY <1>2 DEF Types, AllBare, Archive
<1>4. BackFiles(l) \in [File -> Entry \cup {None}]
  BY <1>1, <1>3 DEF BackFiles, View
<1>5. \A p \in Package : /\ BackRecord(l, p) \in PackageRecord \cup {None}
                         /\ (op.view.packages[p] # None \/ p \in Back(l)) <=> BackRecord(l, p) # None
                         /\ op.view.packages[p] # None => BackRecord(l, p) = op.view.packages[p] /\ p \notin Back(l)
                         /\ p \in op.restored => op.view.packages[p] # None
                         /\ p \in Is("loader") /\ BackRecord(l, p) # None => BackRecord(l, p).files = {}
  BY <1>1, <1>3 DEF BackRecord, Back, View, Bare, Types
<1> DEFINE cut(p) == [BackRecord(l, p) EXCEPT !.files = {f \in @ : BackFiles(l)[f] # None}]
<1>6. ASSUME NEW p \in Package, BackRecord(l, p) # None
      PROVE /\ cut(p) \in PackageRecord /\ cut(p) # None
            /\ cut(p).requested = BackRecord(l, p).requested /\ cut(p).files \subseteq BackRecord(l, p).files
  <2> DEFINE r == BackRecord(l, p)
             s == {f \in r.files : BackFiles(l)[f] # None}
  <2>1. r \in PackageRecord
    BY <1>5, <1>6
  <2>2. s \subseteq r.files
    OBVIOUS
  <2>3. cut(p) = [r EXCEPT !.files = s]
    OBVIOUS
  <2> HIDE DEF r, s, cut
  <2>4. cut(p) \in PackageRecord /\ cut(p).requested = r.requested /\ cut(p).files = s
    BY <2>1, <2>2, <2>3 DEF PackageRecord
  <2>5. QED
    BY <2>2, <2>4, ValuesApart DEF r
<1>7. BackPackages(l) = [p \in Package |-> IF p \in op.restored \cup Back(l) THEN cut(p) ELSE BackRecord(l, p)]
  BY DEF BackPackages
<1> HIDE DEF cut
<1>8. \A p \in Package :
        /\ p \in op.restored \cup Back(l) => BackRecord(l, p) # None
        /\ BackPackages(l)[p] = IF p \in op.restored \cup Back(l) THEN cut(p) ELSE BackRecord(l, p)
  BY <1>5, <1>7
<1>9. \A p \in Package : /\ BackPackages(l)[p] \in PackageRecord \cup {None}
                         /\ p \in op.restored \cup Back(l) => BackPackages(l)[p] # None
                         /\ BackRecord(l, p) # None <=> BackPackages(l)[p] # None
                         /\ BackRecord(l, p) # None =>
                              /\ BackPackages(l)[p].requested = BackRecord(l, p).requested
                              /\ BackPackages(l)[p].files \subseteq BackRecord(l, p).files
  BY <1>5, <1>6, <1>8
<1>10. BackPackages(l) \in [Package -> PackageRecord \cup {None}]
  BY <1>7, <1>9
<1>11. Bare(BackPackages(l))
  BY <1>5, <1>9 DEF Bare, Is
<1>12. BackView(l) \in View
  BY <1>4, <1>10 DEF BackView, View
<1>13. /\ Owed(l) \in View /\ \A p \in Package : Owed(l).packages[p] = None
       /\ \A f \in File : Owed(l).files[f] \in {None, m.files[f]}
  BY <1>3 DEF Owed, View
<1>14. Left(disk, a) \in Slot
  BY <1>3, ReturnedIsTyped
<1>15. /\ Kept(l) \in Archive /\ Kept(l).manifest \in {None, Owed(l)}
  BY <1>13, <1>14 DEF Kept, Archive
<1>16. \A f \in File : \/ BackFiles(l)[f] = op.view.files[f]
                       \/ BackFiles(l)[f] = archives[l].manifest.files[f]
  BY DEF BackFiles
<1>17. QED
  BY <1>5, <1>9, <1>11, <1>12, <1>13, <1>15, <1>16

LEMMA RestoreArchiveShape ==
  ASSUME Types, NEW l \in Package, RestoreArchive(l)
  PROVE /\ op.at = "restore" /\ l \in op.loaders
        /\ op' \in RestoreOp /\ op'.at = "restore" /\ op'.view = BackView(l)
        /\ op'.restored = op.restored \cup Back(l) /\ op'.loaders = op.loaders \ {l}
        /\ archives' \in [Package -> Archive] /\ archives'[l] = Kept(l)
        /\ \A k \in Package : k # l => archives'[k] = archives[k]
        /\ disk' = Returned(disk, archives[l].payload) /\ disk' \in Slot
<1>1. op.at = "restore" /\ l \in op.loaders /\ op \in RestoreOp
  BY OpIs DEF RestoreArchive
<1>2. BackView(l) \in View /\ Kept(l) \in Archive
  BY <1>1, BackIsTyped
<1>3. op' = [op EXCEPT !.view = BackView(l), !.restored = op.restored \cup Back(l), !.loaders = @ \ {l}]
  BY DEF RestoreArchive, BackView, BackPackages, BackFiles, Back, BackRecord
<1>4. /\ archives' = [archives EXCEPT ![l] = Kept(l)]
      /\ disk' = Returned(disk, archives[l].payload)
  BY DEF RestoreArchive, Kept, Owed, BackFiles
<1>5. Back(l) \subseteq Package
  BY DEF Back
<1>6. /\ op' \in RestoreOp /\ op'.at = "restore" /\ op'.view = BackView(l)
      /\ op'.restored = op.restored \cup Back(l) /\ op'.loaders = op.loaders \ {l}
  BY <1>1, <1>2, <1>3, <1>5 DEF RestoreOp
<1>7. /\ archives' \in [Package -> Archive] /\ archives'[l] = Kept(l)
      /\ \A k \in Package : k # l => archives'[k] = archives[k]
  BY <1>2, <1>4 DEF Types
<1>8. disk' \in Slot
  BY <1>4, ReturnedIsTyped DEF Types, Archive
<1>9. QED
  BY <1>1, <1>4, <1>6, <1>7, <1>8

LEMMA RestoreArchiveTypes == ASSUME Types, NEW l \in Package, RestoreArchive(l) PROVE Types'
<1>1. UNCHANGED <<registry, records, original, zips, install, reader, used, suspect, mine, asked>>
  BY DEF RestoreArchive, history
<1>2. /\ op.at = "restore" /\ l \in op.loaders /\ op' \in RestoreOp /\ op'.at = "restore"
      /\ op'.view.packages = BackPackages(l)
      /\ op'.restored = op.restored \cup Back(l) /\ op'.loaders = op.loaders \ {l}
  <2>1. BackView(l).packages = BackPackages(l)
    BY DEF BackView
  <2>2. QED
    BY <2>1, RestoreArchiveShape
<1>3. Bare(op'.view.packages) /\ \A p \in op'.restored : op'.view.packages[p] # None
  <2>1. op' \in RestoreOp => op'.restored \subseteq Package
    BY DEF RestoreOp
  <2>2. QED
    BY <1>2, <2>1, BackIsTyped
<1>4. archives' \in [Package -> Archive] /\ archives'[l] = Kept(l)
      /\ \A k \in Package : k # l => archives'[k] = archives[k]
  BY RestoreArchiveShape
<1>5. Bare(Kept(l).manifest.packages) \/ Kept(l).manifest = None
  BY <1>2, BackIsTyped DEF Bare, Is
<1>6. \A k \in Package : archives'[k].manifest # None => Bare(archives'[k].manifest.packages)
  BY <1>4, <1>5 DEF Types, AllBare
<1>7. \A k \in op'.loaders : archives'[k].manifest # None
  <2>1. op \in RestoreOp
    BY <1>2, OpIs
  <2>2. QED
    BY <1>2, <1>4, <2>1 DEF Types, RestoreOp
<1>8. PutsCome' /\ ReleasesExist' /\ AllBare'
  BY <1>1, <1>2, <1>3, <1>6 DEF Types, PutsCome, ReleasesExist, Newest, AllBare, Bare, Is, Kind
<1>9. disk' \in Slot
  BY RestoreArchiveShape
<1>10. QED
  BY <1>1, <1>2, <1>3, <1>4, <1>7, <1>8, <1>9 DEF Types

\* The transaction CheckPlan starts.
Clearing == Replacers # {}
Next(v) == Without(v, Ownerless(v))
Obsolete(v) == [f \in File |-> IF f \in Ownerless(v) THEN v.files[f].sha ELSE None]
Putable == {f \in File : Incoming(f) # {}}

LEMMA CheckPlanShape ==
  ASSUME Types, CheckPlan
  PROVE /\ op.at = "restore" /\ op.loaders = {} /\ op \in RestoreOp
        /\ UNCHANGED <<registry, disk, records, original, zips, archives, reader, used, suspect, mine>>
        /\ \/ op' = Idle /\ install' = None /\ asked' = asked \ Forgotten
           \/ /\ ~Refused /\ install' = install /\ asked' = asked \ (Evicted \ Present(records.packages))
              /\ op' \in ApplyOp /\ op'.at = "apply" /\ op'.view.packages = Settled.packages
              /\ \A f \in File : op'.view.files[f] \in {None, Settled.files[f]}
              /\ \A f \in File : op'.obsolete[f] # None =>
                   /\ Settled.files[f] # None /\ op'.obsolete[f] = Settled.files[f].sha
                   /\ op'.view.files[f] = None
              /\ op'.clear = Clearing /\ op'.put = Putable /\ op'.backup = Unsaved
              /\ op'.before = disk /\ op'.kept = {} /\ op'.moved = <<>> /\ op'.restored = op.restored
<1>1. op.at = "restore" /\ op.loaders = {} /\ op \in RestoreOp
  BY OpIs DEF CheckPlan
<1>2. UNCHANGED <<registry, disk, records, original, zips, archives, reader, used, suspect, mine>>
  BY DEF CheckPlan, stores
<1>3. CASE Refused
  BY <1>1, <1>2, <1>3 DEF CheckPlan, Forgotten
<1>4. CASE ~Refused
  <2> DEFINE v == Settled
             w == Next(v)
             o == Obsolete(v)
             c == Clearing
             q == Putable
  <2>1. v \in View
    BY <1>1, SettledIsTyped
  <2>2. /\ w \in View /\ w.packages = v.packages
        /\ \A f \in File : w.files[f] \in {None, v.files[f]} /\ (f \in Ownerless(v) => w.files[f] = None)
    BY <2>1, WithoutIsTyped DEF Next
  <2>3. /\ o \in [File -> Digest]
        /\ \A f \in File : o[f] # None => v.files[f] # None /\ o[f] = v.files[f].sha /\ f \in Ownerless(v)
    BY <2>1 DEF View, Entry, Ownerless, Obsolete, Digest
  <2>4. c \in BOOLEAN /\ q \in SUBSET File /\ Unsaved \in Backup
    BY DEF Unsaved, Backup, Clearing, Putable
  <2>5. op' = [at |-> "apply", view |-> w, clear |-> c, obsolete |-> o, put |-> q,
               backup |-> Unsaved, before |-> disk, restored |-> op.restored,
               moved |-> <<>>, unwritten |-> {}, kept |-> {}]
    BY <1>4 DEF CheckPlan, Clearing, Putable, Next, Obsolete
  <2>6. op.restored \in SUBSET Package /\ disk \in Slot
    BY <1>1 DEF RestoreOp, Types
  <2> HIDE DEF v, w, o, c, q
  <2>7. /\ op' \in ApplyOp /\ op'.at = "apply" /\ op'.view = w /\ op'.obsolete = o /\ op'.clear = c
        /\ op'.put = q /\ op'.backup = Unsaved /\ op'.before = disk
        /\ op'.kept = {} /\ op'.moved = <<>> /\ op'.restored = op.restored
    BY <2>2, <2>3, <2>4, <2>5, <2>6 DEF ApplyOp
  <2>8. install' = install /\ asked' = asked \ (Evicted \ Present(records.packages))
    BY <1>4 DEF CheckPlan
  <2>9. /\ op'.view.packages = v.packages
        /\ \A f \in File : op'.view.files[f] \in {None, v.files[f]}
        /\ \A f \in File : op'.obsolete[f] # None =>
             v.files[f] # None /\ op'.obsolete[f] = v.files[f].sha /\ op'.view.files[f] = None
    BY <2>2, <2>3, <2>7
  <2>10. QED
    BY <1>1, <1>2, <1>4, <2>7, <2>8, <2>9 DEF v, c, q
<1>5. QED
  BY <1>3, <1>4

LEMMA CheckPlanTypes == ASSUME Types, CheckPlan PROVE Types'
<1>1. op.at = "restore" /\ install # None
  BY CheckPlanShape DEF Types
<1>2. UNCHANGED <<registry, disk, records, original, zips, archives, reader, used, suspect, mine>>
  BY CheckPlanShape
<1>3. CASE op' = Idle /\ install' = None /\ asked' = asked \ Forgotten
  BY <1>2, <1>3, IdleStepTypes DEF Types, AllBare, ReleasesExist
<1>4. CASE /\ install' = install /\ asked' = asked \ (Evicted \ Present(records.packages))
           /\ op' \in ApplyOp /\ op'.at = "apply" /\ op'.view.packages = Settled.packages
           /\ op'.put = Putable
  <2>1. PutsCome'
    BY <1>1, <1>2, <1>4, SameIncoming DEF PutsCome, Putable
  <2>2. AllBare'
    BY <1>1, <1>2, <1>4, SettledIsBare DEF Types, AllBare, Bare, Is, Kind
  <2>3. ReleasesExist'
    BY <1>2, <1>4 DEF Types, ReleasesExist, Newest
  <2>4. QED
    BY <1>1, <1>2, <1>4, <2>1, <2>2, <2>3 DEF Types
<1>5. QED
  BY <1>3, <1>4, CheckPlanShape

LEMMA SaveInstallTypes == ASSUME Types, SaveInstall PROVE Types'
<1>1. op \in ApplyOp /\ op.at = "apply" /\ op.view \in View /\ Bare(op.view.packages) /\ install # None
  BY OpIs DEF SaveInstall, Types, AllBare, PutsCome
<1>2. records' \in Records /\ records'.packages = op.view.packages
  <2>1. /\ DOMAIN op.view = {"packages", "files"}
        /\ op.view.packages \in [Package -> PackageRecord \cup {None}]
        /\ \A f \in File : op.view.files[f] = None \/ op.view.files[f].sha \in Digest
    BY <1>1 DEF View, Entry
  <2>2. QED
    BY <2>1, StoredIsTyped DEF SaveInstall
<1>3. op' = Idle /\ install' = None
  BY DEF SaveInstall
<1>4. UNCHANGED <<registry, disk, original, zips, archives, reader, used, mine>>
  BY DEF SaveInstall, stores
<1>5. asked' \subseteq Package /\ suspect' \subseteq File
  BY <1>1 DEF SaveInstall, Types, Install
<1>6. QED
  BY <1>1, <1>2, <1>3, <1>4, <1>5, IdleStepTypes DEF Types, AllBare, ReleasesExist

LEMMA CrashTypes == ASSUME Types, Crash PROVE Types'
<1>1. /\ op' = Idle /\ install' = None /\ reader' = None /\ asked' \subseteq asked
      /\ suspect' \subseteq suspect \cup File
  BY DEF Crash
<1>2. UNCHANGED <<registry, disk, records, original, zips, archives, mine>> /\ used' \in Used
  BY DEF Crash, stores, Spend, Types, Used
<1>3. QED
  BY <1>1, <1>2, IdleStepTypes DEF Types, AllBare, ReleasesExist

LEMMA ReturningIsTyped ==
  ASSUME Types, op.at \in {"apply", "remove"}
  PROVE /\ op.moved \in Seq(Package) /\ op.backup \in Backup /\ op.before \in Slot
        /\ op.kept \subseteq Package /\ op.restored \subseteq Package
        /\ Returning \in Seq(Package) /\ Returning \in {<<>>, op.moved}
        /\ \A i \in 1..Len(Returning) : Returning[i] \in Package
                                       /\ archives[Returning[i]].payload \in Slot
<1>1. /\ op.moved \in Seq(Package) /\ op.backup \in Backup /\ op.before \in Slot
      /\ op.kept \subseteq Package /\ op.restored \subseteq Package
  BY OpIs DEF ApplyOp, RemoveOp
<1>2. Returning \in Seq(Package) /\ Returning \in {<<>>, op.moved}
  BY <1>1 DEF Returning
<1>3. QED
  BY <1>1, <1>2 DEF Types, Archive

LEMMA LeastExists ==
  ASSUME NEW S \in SUBSET Nat, S # {}
  PROVE \E m \in S : \A k \in S : m <= k
<1> DEFINE R == OpToRel(<, Nat)
<1>1. IsWellFoundedOn(R, Nat)
  BY NatLessThanWellFounded
<1>2. \A j, k \in Nat : j < k => <<j, k>> \in R
  BY DEF OpToRel
<1> HIDE DEF R
<1>3. \E m \in S : \A k \in S : ~ (<<k, m>> \in R)
  BY <1>1, WFMin, Zenon
<1>4. PICK m \in S : \A k \in S : ~ (<<k, m>> \in R)
  BY <1>3
<1>5. \A k \in S : ~ (k < m)
  BY <1>2, <1>4
<1>6. QED
  BY <1>5

\* What an exception brings back of a file: the copy of the first archive that has one.
LEMMA UndoneIs ==
  ASSUME Types, op.at \in {"apply", "remove"}
  PROVE /\ Undone \in Slot
        /\ \A f \in File : /\ disk[f] # None => Undone[f] = disk[f]
                           /\ Returning = <<>> => Undone[f] = disk[f]
        /\ \A f \in File, i \in 1..Len(Returning) :
             /\ disk[f] = None
             /\ archives[Returning[i]].payload[f] # None
             /\ \A j \in 1..Len(Returning) : j < i => archives[Returning[j]].payload[f] = None
             => Undone[f] = archives[Returning[i]].payload[f]
        /\ \A f \in File, i \in 1..Len(Returning) :
             archives[Returning[i]].payload[f] # None => Undone[f] # None
<1>1. \A f \in File : Holders(f) \subseteq Nat
  BY ReturningIsTyped DEF Holders
<1>2. ASSUME NEW f \in File, Holders(f) # {}
      PROVE First(f) \in Holders(f) /\ \A j \in Holders(f) : First(f) <= j
  <2>1. \E m \in Holders(f) : \A j \in Holders(f) : m <= j
    BY <1>1, <1>2, LeastExists
  <2>2. QED
    BY <2>1 DEF First
<1>3. \A f \in File : Undone[f] = IF disk[f] = None /\ Holders(f) # {}
                                  THEN archives[Returning[First(f)]].payload[f] ELSE disk[f]
  BY DEF Undone
<1>4. \A f \in File : Undone[f] \in Value \cup {None}
  BY <1>2, <1>3, ReturningIsTyped DEF Holders, Types, Slot
<1>5. Undone \in Slot
  BY <1>4 DEF Undone, Slot
<1>6. ASSUME NEW f \in File, NEW i \in 1..Len(Returning), disk[f] = None,
             archives[Returning[i]].payload[f] # None,
             \A j \in 1..Len(Returning) : j < i => archives[Returning[j]].payload[f] = None
      PROVE Undone[f] = archives[Returning[i]].payload[f]
  <2>1. i \in Holders(f) /\ \A j \in Holders(f) : ~(j < i)
    BY <1>6 DEF Holders
  <2>2. First(f) \in Holders(f) /\ First(f) <= i
    BY <1>2, <2>1
  <2>3. First(f) = i
    BY <1>1, <2>1, <2>2
  <2>4. QED
    BY <1>3, <1>6, <2>1, <2>3
<1>7. ASSUME NEW f \in File, NEW i \in 1..Len(Returning), archives[Returning[i]].payload[f] # None
      PROVE Undone[f] # None
  <2>1. i \in Holders(f)
    BY <1>7 DEF Holders
  <2>2. QED
    BY <1>2, <1>3, <2>1 DEF Holders
<1>8. \A f \in File : Returning = <<>> => Holders(f) = {}
  BY DEF Holders
<1>9. QED
  BY <1>3, <1>5, <1>6, <1>7, <1>8

\* An archive once an exception has brought back what it can.
Cleared(l) ==
  [payload |-> Left(Undone, archives[l].payload),
   manifest |-> IF Left(Undone, archives[l].payload) = NoSlot THEN None ELSE archives[l].manifest]

LEMMA ClearedIsTyped ==
  ASSUME Types, op.at \in {"apply", "remove"}, NEW l \in Package
  PROVE /\ Cleared(l) \in Archive /\ Cleared(l).manifest \in {None, archives[l].manifest}
        /\ Cleared(l).payload = Left(Undone, archives[l].payload)
<1>1. Undone \in Slot
  BY UndoneIs
<1>2. archives[l].payload \in Slot /\ archives[l].manifest \in View \cup {None}
  BY DEF Types, Archive
<1>3. Left(Undone, archives[l].payload) \in Slot
  BY <1>1, <1>2, ReturnedIsTyped
<1>4. QED
  BY <1>2, <1>3 DEF Cleared, Archive

LEMMA FailShape ==
  ASSUME Types, NEW lost \in SUBSET File, Fail(lost)
  PROVE /\ op.at \in {"apply", "remove"} /\ op' = Idle /\ install' = None
        /\ disk' \in Slot
        /\ \A f \in File : disk'[f] = IF op.backup[f] = Blank \/ f \in lost THEN Undone[f]
                                      ELSE op.backup[f]
        /\ archives' \in [Package -> Archive]
        /\ \A l \in Package : archives'[l] = IF \E i \in 1..Len(Returning) : Returning[i] = l
                                             THEN Cleared(l) ELSE archives[l]
        /\ UNCHANGED <<registry, records, original, zips, reader>>
        /\ used' = [used EXCEPT !.faults = @ + 1, !.lost = @ + Cardinality(lost)]
        /\ Cardinality(lost) \in Nat /\ used' \in Used
        /\ used'.lost = used.lost + Cardinality(lost)
        /\ (used'.lost = used.lost => lost = {})
<1>1. op.at \in {"apply", "remove"}
  BY DEF Fail, Removal
<1>2. \A f \in File : disk'[f] = IF op.backup[f] = Blank \/ f \in lost THEN Undone[f]
                                 ELSE op.backup[f]
  BY DEF Fail
<1>3. disk' \in Slot
  BY <1>1, <1>2, ReturningIsTyped, UndoneIs DEF Fail, Slot, Backup
<1>4. archives' = [l \in Package |-> IF \E i \in 1..Len(Returning) : Returning[i] = l
                                     THEN Cleared(l) ELSE archives[l]]
  BY DEF Fail, Cleared
<1>5. archives' \in [Package -> Archive]
  BY <1>1, <1>4, ClearedIsTyped DEF Types
<1>6. IsFiniteSet(lost) /\ Cardinality(lost) \in Nat /\ (Cardinality(lost) = 0 => lost = {})
  BY InstallerAssumption, FS_Subset, FS_CardinalityType, FS_EmptySet
<1>7. used' = [used EXCEPT !.faults = @ + 1, !.lost = @ + Cardinality(lost)]
  BY DEF Fail
<1>8. used' \in Used /\ used'.lost = used.lost + Cardinality(lost) /\ used.lost \in Nat
  <2> DEFINE n == Cardinality(lost)
  <2> HIDE DEF n
  <2>1. n \in Nat /\ used' = [used EXCEPT !.faults = @ + 1, !.lost = @ + n]
    BY <1>6, <1>7 DEF n
  <2> DEFINE faults == used.faults + 1
             gone == used.lost + n
  <2>2. faults \in Nat /\ gone \in Nat /\ used \in Used /\ used.lost \in Nat
    BY <2>1 DEF Types, Used
  <2>3. used' = [used EXCEPT !.faults = faults, !.lost = gone]
    BY <2>1
  <2> HIDE DEF faults, gone
  <2>4. used' \in Used /\ used'.lost = gone
    BY <2>2, <2>3 DEF Used
  <2>5. QED
    BY <2>2, <2>4 DEF n, gone
<1>9. QED
  BY <1>1, <1>2, <1>3, <1>4, <1>5, <1>6, <1>7, <1>8 DEF Fail

LEMMA FailTypes == ASSUME Types, NEW lost \in SUBSET File, Fail(lost) PROVE Types'
<1>1. /\ op.at \in {"apply", "remove"} /\ op' = Idle /\ install' = None /\ disk' \in Slot
      /\ archives' \in [Package -> Archive] /\ used' \in Used
      /\ UNCHANGED <<registry, records, original, zips, reader>>
  BY FailShape
<1>2. \A l \in Package : archives'[l].manifest \in {None, archives[l].manifest}
  BY <1>1, FailShape, ClearedIsTyped
<1>3. asked' \subseteq Package /\ mine' \in [File -> UserContent \cup {None}]
  BY DEF Fail, Types
<1>4. suspect' \subseteq File
  <2>1. Adrift \subseteq File
    <3> SUFFICES ASSUME op.at = "remove" PROVE UNION UNION {Places(l) : l \in Away} \subseteq File
      BY DEF Adrift, Removal
    <3>1. Away \subseteq Package
      BY ReturningIsTyped DEF Away
    <3>2. \A l \in Package : Places(l) \subseteq SUBSET File
      BY IndexTypes DEF Types
    <3>3. QED
      BY <3>1, <3>2
  <2>2. QED
    BY <2>1 DEF Fail, Types
<1>5. QED
  BY <1>1, <1>2, <1>3, <1>4, IdleStepTypes DEF Types, AllBare, ReleasesExist

\* The parts of what reconcile works out.
Vanished(r) == {f \in File : r.sha[f] # None /\ disk[f] = None}
KeptFiles(r, p) == {f \in r.packages[p].files : r.sha[f] # None /\ f \notin Vanished(r)}
LostPackages(r) ==
  {p \in Present(r.packages) :
     KeptFiles(r, p) = {} /\ ~(Kind(p) = "loader"
       /\ (registry.own[p] = {} \/ \E f \in UNION registry.own[p] : disk[f] # None))}
KeptRecord(r, p) == [r.packages[p] EXCEPT !.files = KeptFiles(r, p)]
KeptEntry(r, f) == [sha |-> r.sha[f]]
KeptView(r) ==
  [packages |-> [p \in Package |-> IF r.packages[p] = None \/ p \in LostPackages(r) THEN None
                                   ELSE KeptRecord(r, p)],
   files |-> [f \in File |-> IF r.sha[f] = None \/ f \in Vanished(r) THEN None ELSE KeptEntry(r, f)]]

LEMMA ReconciledIsTyped ==
  ASSUME NEW r \in Records, Bare(r.packages)
  PROVE /\ Reconciled(r) \in Records /\ Bare(Reconciled(r).packages)
        /\ \A f \in File : Reconciled(r).sha[f] \in {None, Blank, r.sha[f]}
        /\ \A p \in Package : Reconciled(r).packages[p] # None =>
             r.packages[p] # None /\ Reconciled(r).packages[p].requested = r.packages[p].requested
<1> DEFINE v == KeptView(r)
<1>1. ASSUME NEW p \in Package, r.packages[p] # None
      PROVE /\ KeptRecord(r, p) \in PackageRecord
            /\ KeptRecord(r, p).requested = r.packages[p].requested
            /\ KeptRecord(r, p).files \subseteq r.packages[p].files
  <2> DEFINE q == r.packages[p]
             s == KeptFiles(r, p)
  <2>1. q \in PackageRecord
    BY <1>1 DEF Records
  <2>2. s \subseteq q.files
    BY DEF KeptFiles
  <2>3. KeptRecord(r, p) = [q EXCEPT !.files = s]
    BY DEF KeptRecord
  <2> HIDE DEF q, s
  <2>4. KeptRecord(r, p) \in PackageRecord /\ KeptRecord(r, p).requested = q.requested
        /\ KeptRecord(r, p).files = s
    BY <2>1, <2>2, <2>3 DEF PackageRecord
  <2>5. QED
    BY <2>2, <2>4 DEF q
<1>2. Reconciled(r) = Stored(v)
  BY DEF Reconciled, KeptView, KeptRecord, KeptEntry, KeptFiles, LostPackages, Vanished
<1>3. \A p \in Package : v.packages[p] = IF r.packages[p] = None \/ p \in LostPackages(r) THEN None
                                         ELSE KeptRecord(r, p)
  BY DEF KeptView
<1>4. v.packages \in [Package -> PackageRecord \cup {None}]
  BY <1>1 DEF KeptView
<1>5. \A f \in File : v.files[f] = None \/ v.files[f].sha = r.sha[f]
  BY DEF KeptView, KeptEntry
<1>6. DOMAIN v = {"packages", "files"}
  BY DEF KeptView
<1>7. \A f \in File : r.sha[f] \in Digest
  BY DEF Records
<1> HIDE DEF v
<1>8. /\ Stored(v) \in Records /\ Stored(v).packages = v.packages
      /\ \A f \in File : \/ Stored(v).sha[f] \in {None, Blank}
                         \/ v.files[f] # None /\ Stored(v).sha[f] = v.files[f].sha
  BY <1>4, <1>5, <1>6, <1>7, StoredIsTyped
<1>9. Bare(v.packages)
  BY <1>1, <1>3 DEF Bare, Is
<1>10. QED
  BY <1>1, <1>2, <1>3, <1>5, <1>8, <1>9

LEMMA ReaderLoadTypes == ASSUME Types, ReaderLoad PROVE Types'
<1>1. reader' = [read |-> records] /\ UNCHANGED <<registry, disk, records, original, zips, archives, install, op, used, suspect, mine, asked>>
  BY DEF ReaderLoad, stores, history
<1>2. reader' \in [read : Records]
  BY <1>1 DEF Types
<1>3. PutsCome' /\ ReleasesExist' /\ AllBare'
  BY <1>1, SameIncoming DEF Types, PutsCome, ReleasesExist, Newest, AllBare, Bare, Is, Kind
<1>4. QED
  BY <1>1, <1>2, <1>3 DEF Types

LEMMA ReaderSaveTypes == ASSUME Types, ReaderSave PROVE Types'
<1>1. reader # None /\ reader' = None /\ UNCHANGED <<registry, disk, original, zips, archives, install, op, used, suspect, mine>>
  BY DEF ReaderSave, stores
<1>2. reader.read \in Records /\ Bare(reader.read.packages)
  BY <1>1 DEF Types, AllBare
<1>3. records' \in Records /\ Bare(records'.packages) /\ asked' \subseteq Package
  BY <1>2, ReconciledIsTyped DEF ReaderSave, Types, AllBare
<1>4. PutsCome' /\ ReleasesExist' /\ AllBare'
  BY <1>1, <1>3, SameIncoming DEF Types, PutsCome, ReleasesExist, Newest, AllBare, Bare, Is, Kind
<1>5. QED
  BY <1>1, <1>3, <1>4 DEF Types

\* A package recorded as asked for.
LEMMA RecordIsAdded ==
  ASSUME Types, NEW p \in Package, NEW release \in Nat \ {0}, NEW files \in SUBSET File,
         NEW deps \in SUBSET Package, p \in Is("loader") => files = {},
         records'.packages = [records.packages EXCEPT ![p] =
           [release |-> release, requested |-> TRUE, files |-> files, deps |-> deps]]
  PROVE /\ records'.packages \in [Package -> PackageRecord \cup {None}] /\ Bare(records'.packages)
        /\ records'.packages[p] # None /\ records'.packages[p].requested
        /\ \A q \in Package : q # p => records'.packages[q] = records.packages[q]
<1> DEFINE yes == TRUE
           r == [release |-> release, requested |-> yes, files |-> files, deps |-> deps]
<1>1. yes \in BOOLEAN
  OBVIOUS
<1> HIDE DEF yes
<1>2. r \in PackageRecord /\ r.files = files /\ r.requested = yes
  BY <1>1 DEF PackageRecord
<1>3. r # None
  BY <1>2, ValuesApart
<1>4. records'.packages = [records.packages EXCEPT ![p] = r]
  BY DEF yes
<1> HIDE DEF r
<1>5. /\ records'.packages \in [Package -> PackageRecord \cup {None}]
      /\ records'.packages[p] = r
      /\ \A q \in Package : q # p => records'.packages[q] = records.packages[q]
  BY <1>2, <1>4 DEF Types, Records
<1>6. Bare(records'.packages)
  BY <1>2, <1>5 DEF Bare, Is, Types, AllBare
<1>7. QED
  BY <1>2, <1>3, <1>5, <1>6 DEF yes

LEMMA AdoptedIs ==
  ASSUME Types, NEW p \in Package, NEW release \in 1..Newest(p), Adopt(p, release)
  PROVE /\ records' \in Records /\ Bare(records'.packages)
        /\ records'.packages[p] # None /\ records'.packages[p].requested
        /\ \A q \in Package : q # p => records'.packages[q] = records.packages[q]
        /\ \A f \in File : \/ records'.sha[f] = records.sha[f]
                           \/ records'.sha[f] = disk[f] /\ disk[f] \in Content
<1> DEFINE match == {f \in File : registry.payload[p][release][f] # None
                                  /\ disk[f] = registry.payload[p][release][f]}
           deps == registry.declared[p]
           sha == [f \in File |-> IF f \in match THEN disk[f] ELSE records.sha[f]]
<1>1. registry.payload[p][release] \in Payload /\ deps \in SUBSET Package /\ release \in Nat \ {0}
  BY IndexTypes DEF Types
<1>2. \A f \in match : disk[f] \in Content
  BY <1>1 DEF Payload
<1>3. sha \in [File -> Digest]
  BY DEF Types, Slot, Records, Digest
<1>4. records' = [packages |-> [records.packages EXCEPT ![p] =
                    [release |-> release, requested |-> TRUE, files |-> match, deps |-> deps]],
                  sha |-> sha]
  BY DEF Adopt
<1>5. p \notin Is("loader") /\ match \in SUBSET File
  BY DEF Adopt, Is
<1>6. \A f \in File : sha[f] = records.sha[f] \/ (sha[f] = disk[f] /\ disk[f] \in Content)
  BY <1>2
<1> HIDE DEF match, deps, sha
<1>7. records'.packages = [records.packages EXCEPT ![p] =
        [release |-> release, requested |-> TRUE, files |-> match, deps |-> deps]]
  BY <1>4
<1>8. records'.packages \in [Package -> PackageRecord \cup {None}] /\ Bare(records'.packages)
        /\ records'.packages[p] # None /\ records'.packages[p].requested
        /\ \A q \in Package : q # p => records'.packages[q] = records.packages[q]
  BY <1>1, <1>5, <1>7, RecordIsAdded
<1> DEFINE ps == records'.packages
<1>9. records' = [packages |-> ps, sha |-> sha]
  BY <1>4
<1> HIDE DEF ps
<1>10. records' \in Records /\ records'.sha = sha
  BY <1>3, <1>8, <1>9 DEF Records, ps
<1>11. \A f \in File : \/ records'.sha[f] = records.sha[f]
                       \/ records'.sha[f] = disk[f] /\ disk[f] \in Content
  BY <1>6, <1>10
<1>12. QED
  BY <1>8, <1>10, <1>11

LEMMA AdoptTypes ==
  ASSUME Types, NEW p \in Package, NEW release \in 1..Newest(p), Adopt(p, release) PROVE Types'
<1>1. UNCHANGED <<registry, disk, original, zips, archives, install, op, reader, suspect, mine>> /\ op = Idle
  BY DEF Adopt, Quiet, stores
<1>2. records' \in Records /\ Bare(records'.packages)
  BY AdoptedIs
<1>3. used' \in Used /\ asked' \subseteq Package
  BY DEF Adopt, Spend, Types, Used
<1>4. install' = None
  BY DEF Adopt, Quiet
<1>5. QED
  BY <1>1, <1>2, <1>3, <1>4, IdleStepTypes DEF Types, AllBare, ReleasesExist

LEMMA AdoptedLoaderIs ==
  ASSUME Types, NEW p \in Package, AdoptLoader(p)
  PROVE /\ records' \in Records /\ Bare(records'.packages) /\ records'.sha = records.sha
        /\ records'.packages[p] # None /\ records'.packages[p].requested
        /\ \A q \in Package : q # p => records'.packages[q] = records.packages[q]
<1> DEFINE deps == registry.declared[p]
           n == Newest(p)
           none == {}
<1>1. deps \in SUBSET Package /\ n \in Nat \ {0}
  BY IndexTypes DEF Types
<1> DEFINE ps == [records.packages EXCEPT ![p] = [release |-> n, requested |-> TRUE, files |-> none, deps |-> deps]]
<1>2. records' = [records EXCEPT !.packages = ps]
  BY DEF AdoptLoader, Types, Records
<1> HIDE DEF deps, n, ps
<1>3. records'.packages = ps /\ records'.sha = records.sha /\ DOMAIN records' = {"packages", "sha"}
  BY <1>2 DEF Types, Records
<1>4. none \in SUBSET File
  OBVIOUS
<1>5. records'.packages \in [Package -> PackageRecord \cup {None}] /\ Bare(records'.packages)
      /\ records'.packages[p] # None /\ records'.packages[p].requested
      /\ \A q \in Package : q # p => records'.packages[q] = records.packages[q]
  BY <1>1, <1>3, <1>4, RecordIsAdded DEF ps
<1>6. records' \in Records
  BY <1>2, <1>3, <1>5 DEF Types, Records
<1>7. QED
  BY <1>3, <1>5, <1>6

LEMMA AdoptLoaderTypes == ASSUME Types, NEW p \in Package, AdoptLoader(p) PROVE Types'
<1>1. UNCHANGED <<registry, disk, original, zips, archives, install, op, reader, suspect, mine>> /\ op = Idle
  BY DEF AdoptLoader, Quiet, stores
<1>2. records' \in Records /\ Bare(records'.packages)
  BY AdoptedLoaderIs
<1>3. used' \in Used /\ asked' \subseteq Package
  BY DEF AdoptLoader, Spend, Types, Used
<1>4. install' = None
  BY DEF AdoptLoader, Quiet
<1>5. QED
  BY <1>1, <1>2, <1>3, <1>4, IdleStepTypes DEF Types, AllBare, ReleasesExist

LEMMA TouchTypes ==
  ASSUME Types, NEW f \in File, NEW c \in Value \cup {None}, Touch(f, c) PROVE Types'
<1>1. UNCHANGED <<registry, records, original, zips, archives, install, op, reader, asked>> /\ op = Idle
  BY DEF Touch, Quiet, stores
<1>2. disk' \in Slot /\ mine' \in [File -> UserContent \cup {None}] /\ suspect' \subseteq File
  BY DEF Touch, Types, Slot
<1>3. used' \in Used /\ install' = None
  BY DEF Touch, Spend, Quiet, Types, Used
<1>4. QED
  BY <1>1, <1>2, <1>3, IdleStepTypes DEF Types, AllBare, ReleasesExist

LEMMA StutterTypes == ASSUME Types, UNCHANGED vars PROVE Types'
<1>1. UNCHANGED <<registry, disk, records, original, zips, archives, install, op, reader, used, suspect, mine, asked>>
  BY DEF vars
<1>2. PutsCome' /\ ReleasesExist' /\ AllBare'
  BY <1>1, SameIncoming DEF Types, PutsCome, ReleasesExist, Newest, AllBare, Bare, Is, Kind
<1>3. QED
  BY <1>1, <1>2 DEF Types

LEMMA NextTypes == ASSUME Types, [InstallerNext]_vars PROVE Types'
<1>1. CASE Begin
  BY <1>1, BeginRemoveTypes, BeginInstallTypes DEF Begin
<1>2. CASE Applying
  BY <1>2, ApplyBeginTypes, CheckPlanTypes, ClearTakenTypes, SaveInstallTypes, RestoreArchiveTypes,
     DeleteObsoleteTypes, ArchiveOriginalTypes, PutFileTypes DEF Applying
<1>3. CASE RemoveSteps
  BY <1>3, RestoreTakenTypes, SaveRemoveTypes, PruneOriginalsTypes, DisplaceTypes, KeepLoaderTypes,
     MoveLoaderTypes, UnpatchTypes, UnlinkTypes, WriteManifestTypes DEF RemoveSteps
<1>4. CASE Outside
  BY <1>4, FailTypes, CrashTypes, ReaderLoadTypes, ReaderSaveTypes, AdoptLoaderTypes, AdoptTypes,
     TouchTypes DEF Outside
<1>5. CASE UNCHANGED vars
  BY <1>5, StutterTypes
<1>6. QED
  BY <1>1, <1>2, <1>3, <1>4, <1>5 DEF InstallerNext

\* What the records, the disk and the stores hold, for any index: a digest is a content some
\* release or the player wrote, an entry's owners are packages, a base runtime is recorded
\* without files, at most BackupLimit zips are kept, every transaction has its plan.
THEOREM TypesHold == InstallerSpec => []InstallerTypes
<1>1. InstallerInit => Types
  BY InitTypes
<1>2. Types /\ [InstallerNext]_vars => Types'
  BY NextTypes
<1>3. Types => InstallerTypes
  <2> SUFFICES ASSUME Types PROVE InstallerTypes
    OBVIOUS
  <2>1. \A l \in Package : archives[l].payload \in Slot
    BY DEF Types, Archive
  <2>2. records.packages \in [Package -> PackageRecord \cup {None}] /\ records.sha \in [File -> Digest]
    BY DEF Types, Records
  <2>3. \A p \in Is("loader") : records.packages[p] = None \/ records.packages[p].files = {}
    BY DEF Types, AllBare, Bare
  <2>4. QED
    BY <2>1, <2>2, <2>3, OpIs DEF Types, InstallerTypes
<1>4. QED
  BY <1>1, <1>2, <1>3, PTL DEF InstallerSpec

(* ------------------ what an exception finds to undo -------------------- *)
Undoable == Types /\ Housed /\ ApplyOk /\ RemovalUndoable

LEMMA PlacesStay ==
  ASSUME registry' = registry
  PROVE \A l : Places(l)' = Places(l)
BY DEF Places

LEMMA HousedStays ==
  ASSUME Undoable, registry' = registry,
         \A l \in Package, f \in File :
           archives'[l].payload[f] \in {None, archives[l].payload[f]} \/ f \in UNION Places(l)
  PROVE Housed'
BY PlacesStay DEF Undoable, Housed

LEMMA LiesStays ==
  ASSUME NEW d, NEW d2, NEW a, NEW a2, NEW moved, NEW f, NEW c, d2[f] = d[f],
         \A i \in 1..Len(moved) : a2[moved[i]].payload[f] = a[moved[i]].payload[f],
         Lies(d, a, moved, f, c)
  PROVE Lies(d2, a2, moved, f, c)
BY DEF Lies, Carried

\* A step of a removal that moves no loader: what it changes on the disk it has saved.
LEMMA SavedFirst ==
  ASSUME Undoable, op.at = "remove", op' \in RemoveOp, SameDealings,
         op.moved # <<>> => ~op'.clear /\ op'.unpatch = {},
         registry' = registry, archives' = archives,
         \A f \in File : \/ disk'[f] = disk[f] /\ op'.backup[f] = op.backup[f]
                         \/ /\ disk[f] # None \/ op.moved = <<>>
                            /\ disk'[f] = None \/ op.moved = <<>>
                            /\ op'.backup[f] = IF op.backup[f] = Blank THEN disk[f] ELSE op.backup[f]
  PROVE Housed' /\ RemovalUndoable'
<1>1. Housed'
  BY HousedStays DEF Undoable
<1>2. MovedOnce'
  BY DEF Undoable, RemovalUndoable, MovedOnce, SameDealings
<1>3. ASSUME op.kept = {} PROVE Swept'
  <2>1. \A i \in 1..Len(op.moved) : \A f \in UNION Places(op.moved[i]) : f \in File /\ disk[f] = None
    <3>1. \A i \in 1..Len(op.moved) : op.moved[i] \in Package
      BY ReturningIsTyped DEF Undoable
    <3>2. QED
      BY <1>3, <3>1, PlacesAreFiles DEF Undoable, RemovalUndoable, Swept
  <2>2. \A f \in File : op.moved # <<>> /\ disk[f] = None => disk'[f] = None
    OBVIOUS
  <2>3. \A i : i \in 1..Len(op.moved) => op.moved # <<>>
    OBVIOUS
  <2>4. QED
    BY <2>1, <2>2, <2>3, PlacesStay DEF Swept, SameDealings
<1>4. ASSUME op.kept = {} PROVE SavedOrSame'
  <2> SUFFICES ASSUME NEW f \in File
               PROVE /\ op'.backup[f] # Blank => op'.backup[f] = op'.before[f]
                     /\ op'.backup[f] = Blank => IF op'.before[f] = None THEN disk'[f] = None
                                                ELSE Lies(disk', archives', op'.moved, f, op'.before[f])
    BY DEF SavedOrSame
  <2>1. /\ op.backup[f] # Blank => op.backup[f] = op.before[f]
        /\ op.backup[f] = Blank => IF op.before[f] = None THEN disk[f] = None
                                   ELSE Lies(disk, archives, op.moved, f, op.before[f])
        /\ op'.before = op.before
    BY <1>4 DEF Undoable, RemovalUndoable, SavedOrSame, SameDealings
  <2>2. CASE disk'[f] = disk[f] /\ op'.backup[f] = op.backup[f]
    BY <2>1, <2>2, LiesStays DEF SameDealings
  <2>3. CASE /\ disk[f] # None \/ op.moved = <<>>
             /\ op'.backup[f] = IF op.backup[f] = Blank THEN disk[f] ELSE op.backup[f]
    <3>1. disk[f] # Blank
      BY ValuesApart DEF Undoable, Types, Slot
    <3>2. op.backup[f] = Blank => disk[f] = op.before[f]
      <4>1. op.moved = <<>> => ~Carried(archives, op.moved, f, op.before[f])
        BY DEF Carried
      <4>2. QED
        BY <2>1, <2>3, <4>1 DEF Lies
    <3>3. QED
      BY <2>1, <2>3, <3>1, <3>2
  <2>4. QED
    BY <2>2, <2>3
<1>5. op'.kept = op.kept
  BY DEF SameDealings
<1>6. QED
  BY <1>1, <1>2, <1>3, <1>4, <1>5 DEF RemovalUndoable

LEMMA RestoreTakenUndo == ASSUME Undoable, RestoreTaken PROVE Housed' /\ RemovalUndoable'
<1>1. /\ op.at = "remove" /\ op' \in RemoveOp /\ SameDealings /\ ~op'.clear /\ op'.unpatch = op.unpatch
      /\ op'.backup = Save1(op.backup, registry.area)
  BY RestoreTakenShape DEF Undoable, RestoreTaken, Removal
<1>2. op.moved = <<>>
  BY <1>1 DEF Undoable, RemovalUndoable, MovedOnce, RestoreTaken
<1>3. \A f \in File : op'.backup[f] = IF f \in registry.area /\ op.backup[f] = Blank
                                      THEN disk[f] ELSE op.backup[f]
  BY <1>1, Save1IsTyped, OpIs DEF Undoable, Types, RemoveOp
<1>4. \A f \in File : f \notin registry.area => disk'[f] = disk[f]
  BY DEF RestoreTaken
<1>5. registry' = registry /\ archives' = archives
  BY DEF RestoreTaken, stores
<1>6. QED
  BY <1>1, <1>2, <1>3, <1>4, <1>5, SavedFirst

LEMMA UnpatchUndo ==
  ASSUME Undoable, NEW f \in File, Unpatch(f) PROVE Housed' /\ RemovalUndoable'
<1> DEFINE e == op.view.files[f]
           puts == /\ e # None /\ disk[f] # None
                   /\ e.owners \cap Is("patch") = {} /\ disk[f] = e.sha
<1>1. /\ op.at = "remove" /\ op' \in RemoveOp /\ SameDealings
      /\ op'.backup = (IF puts THEN Save1(op.backup, {f}) ELSE op.backup)
  BY UnpatchShape DEF Undoable, Unpatch, Removal
<1>2. disk' = IF puts THEN [disk EXCEPT ![f] = original[f]] ELSE disk
  BY DEF Unpatch
<1>3. registry' = registry /\ archives' = archives
  BY DEF Unpatch, stores
<1> HIDE DEF puts
<1>4. op.moved = <<>>
  BY <1>1 DEF Undoable, RemovalUndoable, MovedOnce, Unpatch
<1>5. \A g \in File : Save1(op.backup, {f})[g] = IF g = f /\ op.backup[g] = Blank
                                                 THEN disk[g] ELSE op.backup[g]
  BY <1>1, Save1IsTyped, OpIs DEF Undoable, Types, RemoveOp
<1>6. \A g \in File : \/ disk'[g] = disk[g] /\ op'.backup[g] = op.backup[g]
                      \/ op'.backup[g] = IF op.backup[g] = Blank THEN disk[g] ELSE op.backup[g]
  BY <1>1, <1>2, <1>5
<1>7. QED
  BY <1>1, <1>3, <1>4, <1>6, SavedFirst

LEMMA UnlinkUndo ==
  ASSUME Undoable, NEW f \in File, Unlink(f) PROVE Housed' /\ RemovalUndoable'
<1> DEFINE ours == disk[f] # None /\ disk[f] = op.view.files[f].sha
<1>1. /\ op.at = "remove" /\ op' \in RemoveOp /\ SameDealings
      /\ op'.clear = op.clear /\ op'.unpatch = op.unpatch
      /\ op'.backup = (IF ours THEN Save1(op.backup, {f}) ELSE op.backup)
  BY UnlinkShape DEF Undoable, Unlink, Unlinking, Removal
<1>2. disk' = IF ours THEN [disk EXCEPT ![f] = None] ELSE disk
  BY DEF Unlink
<1>3. registry' = registry /\ archives' = archives
  BY DEF Unlink, stores
<1>4. ~op'.clear /\ op'.unpatch = {}
  BY <1>1 DEF Unlink, Unlinking
<1>5. \A g \in File : Save1(op.backup, {f})[g] = IF g = f /\ op.backup[g] = Blank
                                                 THEN disk[g] ELSE op.backup[g]
  BY <1>1, Save1IsTyped, OpIs DEF Undoable, Types, RemoveOp
<1>6. ours => disk[f] # None /\ disk'[f] = None
  BY <1>2 DEF Undoable, Types, Slot
<1>7. \A g \in File : \/ disk'[g] = disk[g] /\ op'.backup[g] = op.backup[g]
                      \/ /\ disk[g] # None /\ disk'[g] = None
                         /\ op'.backup[g] = IF op.backup[g] = Blank THEN disk[g] ELSE op.backup[g]
  <2> HIDE DEF ours
  <2> QED BY <1>1, <1>2, <1>5, <1>6
<1> HIDE DEF ours
<1>8. QED
  BY <1>1, <1>3, <1>4, <1>7, SavedFirst

LEMMA InPlace ==
  ASSUME NEW l, NEW places \in SUBSET Occupied(l)
  PROVE UNION places \subseteq UNION Places(l)
BY DEF Occupied

LEMMA KeepLoaderUndo ==
  ASSUME Undoable, NEW l \in Package, KeepLoader(l) PROVE Housed' /\ RemovalUndoable'
<1>1. PICK stuck \in SUBSET Occupied(l) \ {{}} :
        LET moved == Occupied(l) \ stuck
            files == UNION (moved \cup Clashing(l))
            payload == Gathered(l, files)
            d == Emptied(l, files)
        IN archives' = [archives EXCEPT ![l].payload =
                          IF moved = {} THEN payload ELSE Left(d, payload)]
  BY DEF KeepLoader
<1> DEFINE moved == Occupied(l) \ stuck
           files == UNION (moved \cup Clashing(l))
           payload == Gathered(l, files)
           d == Emptied(l, files)
           rest == IF moved = {} THEN payload ELSE Left(d, payload)
<1>2. payload \in Slot /\ d \in Slot
      /\ \A f \in File : payload[f] = IF f \in files /\ archives[l].payload[f] = None
                                      THEN disk[f] ELSE archives[l].payload[f]
  BY GatheredIsTyped DEF Undoable
<1>3. rest \in Slot /\ \A f \in File : rest[f] \in {None, payload[f]}
  BY <1>2, ReturnedIsTyped
<1> HIDE DEF rest
<1>4. archives' = [archives EXCEPT ![l].payload = rest]
  BY <1>1 DEF rest
<1>5. archives'[l].payload = rest /\ \A k \in Package : k # l => archives'[k].payload = archives[k].payload
  BY <1>3, <1>4, ArchiveIsFilled DEF Undoable
<1>6. files \subseteq UNION Places(l)
  BY InPlace DEF Clashing
<1>7. Housed'
  <2> HIDE DEF files, payload
  <2>1. \A f \in File : rest[f] \in {None, archives[l].payload[f]} \/ f \in UNION Places(l)
    BY <1>2, <1>3, <1>6
  <2>2. registry' = registry
    BY DEF KeepLoader
  <2>3. QED
    BY <1>5, <2>1, <2>2, HousedStays
<1>8. op \in RemoveOp /\ op.at = "remove" /\ op.view \in View /\ Bare(op.view.packages)
  BY OpIs DEF KeepLoader, Moving, Removal, Undoable, Types, AllBare
<1>9. op.kept \cup {l} \in SUBSET Package
  BY <1>8 DEF RemoveOp
<1>10. /\ op'.loaders = op.loaders \ {l} /\ op'.kept = op.kept \cup {l} /\ op'.unwritten = {}
       /\ op'.moved = op.moved /\ op'.unpatch = op.unpatch /\ op'.clear = op.clear
  BY <1>8, <1>9, DealtIsTyped DEF KeepLoader, Undoable
<1>11. op.unwritten = {} /\ MovedOnce
  BY <1>8 DEF KeepLoader, Moving, Undoable, RemovalUndoable
<1>12. MovedOnce'
  BY <1>10, <1>11 DEF MovedOnce
<1>13. QED
  BY <1>7, <1>10, <1>12 DEF RemovalUndoable

\* What a move changes: whatever stood in an occupied place is gone from the disk and in the
\* archive, for no place clashes.
LEMMA MoveLoaderDisk ==
  ASSUME Undoable, NEW l \in Package, MoveLoader(l)
  PROVE LET files == UNION Occupied(l)
        IN /\ op.at = "remove" /\ MovedOnce /\ registry' = registry /\ files \subseteq UNION Places(l)
           /\ \A k \in Package : k # l => archives'[k].payload = archives[k].payload
           /\ \A f \in File :
                /\ f \in files => disk'[f] = None /\ (disk[f] # None => archives'[l].payload[f] = disk[f])
                /\ f \notin files => disk'[f] = disk[f]
                /\ archives[l].payload[f] # None => archives'[l].payload[f] = archives[l].payload[f]
                /\ archives'[l].payload[f] \in {None, archives[l].payload[f]} \/ f \in files
           /\ op.moved \in Seq(Package)
           /\ \A i \in 1..Len(op.moved) :
                op.moved[i] # l /\ op.moved[i] \in Package /\ op.moved[i] \notin op.loaders
<1> DEFINE files == UNION Occupied(l)
<1>1. /\ op \in RemoveOp /\ op.at = "remove" /\ op.unwritten = {} /\ l \in op.loaders /\ MovedOnce
  BY OpIs DEF MoveLoader, Moving, Removal, Undoable, RemovalUndoable
<1>2. /\ Gathered(l, files) \in Slot /\ archives' = [archives EXCEPT ![l].payload = Gathered(l, files)]
      /\ \A f \in File :
           /\ Gathered(l, files)[f] = IF f \in files /\ archives[l].payload[f] = None
                                      THEN disk[f] ELSE archives[l].payload[f]
           /\ disk'[f] = IF f \in files /\ archives[l].payload[f] \in {None, disk[f]}
                         THEN None ELSE disk[f]
  BY GatheredIsTyped DEF MoveLoader, Undoable
<1>3. /\ \A k \in Package : k # l => archives'[k].payload = archives[k].payload
      /\ \A f \in File : archives'[l].payload[f] = IF f \in files /\ archives[l].payload[f] = None
                                                   THEN disk[f] ELSE archives[l].payload[f]
  BY <1>2, ArchiveIsFilled DEF Undoable
<1>4. registry' = registry /\ files \subseteq UNION Places(l)
  BY InPlace DEF MoveLoader
<1>5. \A f \in File : f \in files => /\ disk'[f] = None
                                     /\ disk[f] # None => archives'[l].payload[f] = disk[f]
  <2> SUFFICES ASSUME NEW f \in File, f \in files, disk[f] # None
               PROVE archives[l].payload[f] \in {None, disk[f]}
    BY <1>2, <1>3
  <2>1. PICK place \in Occupied(l) : f \in place
    OBVIOUS
  <2>2. place \notin Clashing(l)
    BY DEF MoveLoader
  <2>3. QED
    BY <2>1, <2>2 DEF Clashing
<1>6. /\ op.moved \in Seq(Package)
      /\ \A i \in 1..Len(op.moved) : /\ op.moved[i] # l /\ op.moved[i] \in Package
                                     /\ op.moved[i] \notin op.loaders
  BY <1>1 DEF MovedOnce, RemoveOp
<1> HIDE DEF files
<1>7. \A f \in File : f \notin files => disk'[f] = disk[f]
  BY <1>2
<1>8. \A f \in File : /\ archives[l].payload[f] # None => archives'[l].payload[f] = archives[l].payload[f]
                      /\ archives'[l].payload[f] \in {None, archives[l].payload[f]} \/ f \in files
  BY <1>3
<1>9. QED
  BY <1>1, <1>3, <1>4, <1>5, <1>6, <1>7, <1>8 DEF files

\* A file that lay in place, or in an archive the removal filled, still does after a move.
LEMMA MoveKeepsLies ==
  ASSUME Undoable, NEW l \in Package, MoveLoader(l), op.kept = {},
         NEW f \in File, NEW c, c # None, Lies(disk, archives, op.moved, f, c)
  PROVE Lies(disk', archives', op'.moved, f, c)
<1> DEFINE files == UNION Occupied(l)
           n == Len(op.moved) + 1
<1>1. /\ f \in files => disk'[f] = None /\ (disk[f] # None => archives'[l].payload[f] = disk[f])
      /\ f \notin files => disk'[f] = disk[f]
      /\ \A k \in Package : k # l => archives'[k].payload = archives[k].payload
      /\ op.moved \in Seq(Package)
      /\ \A i \in 1..Len(op.moved) : op.moved[i] # l /\ op.moved[i] \in Package
      /\ op.at = "remove"
  BY MoveLoaderDisk
<1>2. IF Occupied(l) = {} THEN op'.moved = op.moved ELSE op'.moved = Append(op.moved, l)
  BY MoveLoaderShape DEF Undoable
<1>3. CASE Occupied(l) = {}
  <2>1. disk'[f] = disk[f]
    BY <1>1, <1>3
  <2>2. \A i \in 1..Len(op.moved) : archives'[op.moved[i]].payload[f] = archives[op.moved[i]].payload[f]
    BY <1>1
  <2>3. QED
    BY <1>2, <1>3, <2>1, <2>2, LiesStays
<1>4. CASE Occupied(l) # {}
  <2> HIDE DEF files
  <2>1. /\ Len(op'.moved) = n /\ op'.moved[n] = l /\ n \in Nat \ {0} /\ Len(op.moved) \in Nat
        /\ \A i \in 1..Len(op.moved) : op'.moved[i] = op.moved[i] /\ i \in 1..n
        /\ \A i \in 1..n : i \in 1..Len(op.moved) \/ i = n
        /\ \A j \in 1..n : j < n => j \in 1..Len(op.moved)
        /\ \A i \in 1..Len(op.moved) : \A j \in 1..n : j < i => j \in 1..Len(op.moved)
    BY <1>1, <1>2, <1>4
  <2> HIDE DEF n
  <2>2. CASE disk[f] = c /\ f \notin files
    BY <1>1, <2>2 DEF Lies
  <2>3. CASE disk[f] = c /\ f \in files
    <3>1. archives'[l].payload[f] = c /\ disk'[f] = None
      BY <1>1, <2>3
    <3>2. \A j \in 1..Len(op.moved) : archives[op.moved[j]].payload[f] = None
      <4>1. \A j \in 1..Len(op.moved) : f \notin UNION Places(op.moved[j])
        BY <1>1, <2>3 DEF Undoable, RemovalUndoable, Swept
      <4>2. QED
        BY <1>1, <4>1 DEF Undoable, Housed
    <3>3. \A j \in 1..n : j < n => archives'[op'.moved[j]].payload[f] = None
      BY <1>1, <2>1, <3>2
    <3>4. Carried(archives', op'.moved, f, c)
      BY <2>1, <3>1, <3>3 DEF Carried
    <3>5. QED
      BY <3>1, <3>4 DEF Lies
  <2>4. CASE disk[f] = None /\ Carried(archives, op.moved, f, c)
    <3>1. PICK i \in 1..Len(op.moved) :
            /\ archives[op.moved[i]].payload[f] = c
            /\ \A j \in 1..Len(op.moved) : j < i => archives[op.moved[j]].payload[f] = None
      BY <2>4 DEF Carried
    <3>2. i \in 1..n /\ archives'[op'.moved[i]].payload[f] = c
      BY <1>1, <2>1, <3>1
    <3>3. \A j \in 1..n : j < i => archives'[op'.moved[j]].payload[f] = None
      BY <1>1, <2>1, <3>1
    <3>4. disk'[f] = None
      BY <1>1, <2>4
    <3>5. QED
      BY <2>1, <3>2, <3>3, <3>4 DEF Lies, Carried
  <2>5. QED
    BY <2>2, <2>3, <2>4 DEF Lies
<1>5. QED
  BY <1>3, <1>4

LEMMA MoveLoaderUndo ==
  ASSUME Undoable, NEW l \in Package, MoveLoader(l) PROVE Housed' /\ RemovalUndoable'
<1> DEFINE files == UNION Occupied(l)
           n == Len(op.moved) + 1
<1>1. /\ op.at = "remove" /\ MovedOnce /\ registry' = registry /\ files \subseteq UNION Places(l)
      /\ \A k \in Package : k # l => archives'[k].payload = archives[k].payload
      /\ \A f \in File :
           /\ f \in files => disk'[f] = None
           /\ f \notin files => disk'[f] = disk[f]
           /\ archives'[l].payload[f] \in {None, archives[l].payload[f]} \/ f \in files
      /\ op.moved \in Seq(Package)
      /\ \A i \in 1..Len(op.moved) :
           op.moved[i] # l /\ op.moved[i] \in Package /\ op.moved[i] \notin op.loaders
  BY MoveLoaderDisk
<1>2. /\ op'.kept = op.kept /\ op'.clear = op.clear /\ op'.unpatch = op.unpatch
      /\ op'.backup = op.backup /\ op'.before = op.before
      /\ IF Occupied(l) = {}
         THEN op'.moved = op.moved /\ op'.loaders = op.loaders \ {l} /\ op'.unwritten = {}
         ELSE op'.moved = Append(op.moved, l) /\ op'.loaders = op.loaders
              /\ op'.unwritten = {[loader |-> l, files |-> files]}
      /\ ~op.clear /\ op.unpatch = {}
  BY MoveLoaderShape DEF Undoable, MoveLoader, Moving
<1>3. Housed'
  <2>1. \A k \in Package, f \in File :
           archives'[k].payload[f] \in {None, archives[k].payload[f]} \/ f \in UNION Places(k)
    BY <1>1
  <2>2. QED
    BY <1>1, <2>1, HousedStays
<1> HIDE DEF files
<1>4. \A i \in 1..Len(op'.moved) : \/ op'.moved[i] = l /\ Occupied(l) # {}
                                   \/ i \in 1..Len(op.moved) /\ op'.moved[i] = op.moved[i]
  BY <1>1, <1>2
<1>5. MovedOnce'
  <2>1. CASE Occupied(l) = {}
    BY <1>1, <1>2, <2>1 DEF MovedOnce
  <2>2. CASE Occupied(l) # {}
    <3> DEFINE u == [loader |-> l, files |-> files]
    <3>1. op'.unwritten = {u} /\ u.loader = l /\ op'.loaders = op.loaders
      BY <1>2, <2>2
    <3> HIDE DEF u
    <3>2. QED
      BY <1>1, <1>2, <1>4, <3>1 DEF MovedOnce
  <2>3. QED
    BY <2>1, <2>2
<1>6. ASSUME op.kept = {} PROVE Swept'
  <2>1. \A i \in 1..Len(op.moved) : \A f \in UNION Places(op.moved[i]) : f \in File /\ disk[f] = None
    BY <1>1, <1>6, PlacesAreFiles DEF Undoable, RemovalUndoable, Swept
  <2>2. \A f \in File : disk[f] = None => disk'[f] = None
    BY <1>1
  <2>3. ASSUME NEW place \in Places(l), NEW f \in place PROVE disk'[f] = None
    <3>1. f \in File
      BY PlacesAreFiles DEF Undoable
    <3>2. CASE place \in Occupied(l)
      BY <1>1, <3>1, <3>2 DEF files
    <3>3. CASE place \notin Occupied(l)
      BY <2>2, <2>3, <3>1, <3>3 DEF Occupied
    <3>4. QED
      BY <3>2, <3>3
  <2>4. \A i \in 1..Len(op'.moved) : \A f \in UNION Places(op'.moved[i]) : disk'[f] = None
    BY <1>4, <2>1, <2>2, <2>3
  <2>5. QED
    BY <1>1, <2>4, PlacesStay DEF Swept
<1>7. ASSUME op.kept = {} PROVE SavedOrSame'
  <2>1. SavedOrSame /\ \A f \in File : disk[f] = None => disk'[f] = None
    BY <1>1, <1>7 DEF Undoable, RemovalUndoable
  <2>2. ASSUME NEW f \in File, op.backup[f] = Blank, op.before[f] # None
        PROVE Lies(disk', archives', op'.moved, f, op.before[f])
    <3>1. Lies(disk, archives, op.moved, f, op.before[f])
      BY <2>1, <2>2 DEF SavedOrSame
    <3>2. QED
      BY <1>7, <2>2, <3>1, MoveKeepsLies
  <2>3. QED
    BY <1>2, <2>1, <2>2 DEF SavedOrSame
<1>8. QED
  BY <1>2, <1>3, <1>5, <1>6, <1>7 DEF RemovalUndoable

LEMMA WriteManifestUndo ==
  ASSUME Undoable, NEW l \in Package, NEW files \in SUBSET File, WriteManifest(l, files)
  PROVE Housed' /\ RemovalUndoable'
<1>1. /\ op.at = "remove" /\ [loader |-> l, files |-> files] \in op.unwritten
      /\ op \in RemoveOp /\ op.moved \in Seq(Package)
  BY OpIs DEF WriteManifest, Removal, Undoable, RemoveOp
<1>2. /\ op'.kept = op.kept /\ op'.clear = op.clear /\ op'.unpatch = op.unpatch
      /\ op'.backup = op.backup /\ op'.before = op.before /\ op'.moved = op.moved
      /\ op'.loaders = op.loaders \ {l} /\ op'.unwritten = {}
      /\ \A k \in Package : archives'[k].payload = archives[k].payload
  BY WriteManifestShape DEF Undoable
<1>3. UNCHANGED <<registry, disk>>
  BY DEF WriteManifest
<1>4. Housed'
  BY <1>2, <1>3, HousedStays
<1>5. MovedOnce'
  <2>1. MovedOnce /\ \A u \in op.unwritten : u.loader = l
    BY <1>1 DEF Undoable, RemovalUndoable, MovedOnce
  <2>2. QED
    BY <1>2, <2>1 DEF MovedOnce
<1>6. \A i \in 1..Len(op.moved) : archives'[op.moved[i]].payload = archives[op.moved[i]].payload
  BY <1>1, <1>2
<1>7. ASSUME op.kept = {} PROVE Swept' /\ SavedOrSame'
  <2>1. Swept /\ SavedOrSame
    BY <1>1, <1>7 DEF Undoable, RemovalUndoable
  <2>2. Swept'
    BY <1>2, <1>3, <2>1, PlacesStay DEF Swept
  <2>3. SavedOrSame'
    BY <1>2, <1>3, <1>6, <2>1, LiesStays DEF SavedOrSame
  <2>4. QED
    BY <2>2, <2>3
<1>8. QED
  BY <1>2, <1>4, <1>5, <1>7 DEF RemovalUndoable

LEMMA StartRemoveUndo ==
  ASSUME Undoable, NEW p \in Package, StartRemove(p), UNCHANGED <<registry, disk, archives>>
  PROVE Housed' /\ RemovalUndoable' /\ ApplyOk'
<1>1. /\ op'.at = "remove" /\ op'.moved = <<>> /\ op'.unwritten = {} /\ op'.backup = Unsaved
      /\ op'.before = disk
  BY StartRemoveTypes DEF Undoable
<1>2. Housed' /\ ApplyOk'
  BY <1>1, HousedStays DEF ApplyOk
<1>3. MovedOnce' /\ Swept'
  BY <1>1 DEF MovedOnce, Swept
<1>4. SavedOrSame'
  BY <1>1, ValuesApart DEF SavedOrSame, Unsaved, Lies
<1>5. QED
  BY <1>2, <1>3, <1>4 DEF RemovalUndoable

\* The steps of an install's transaction save a file before they change it.
LEMMA ApplyUndo ==
  ASSUME Undoable, op.at = "apply", op' \in ApplyOp, op'.before = op.before,
         UNCHANGED <<registry, archives>>,
         \A f \in File : \/ disk'[f] = disk[f] /\ op'.backup[f] = op.backup[f]
                         \/ op'.backup[f] = IF op.backup[f] = Blank THEN disk[f] ELSE op.backup[f]
  PROVE Housed' /\ RemovalUndoable' /\ ApplyOk'
<1>1. op'.at = "apply"
  BY DEF ApplyOp
<1>2. Housed' /\ RemovalUndoable'
  BY <1>1, HousedStays DEF RemovalUndoable
<1>3. \A f \in File : disk[f] # Blank
  BY ValuesApart DEF Undoable, Types, Slot
<1>4. ApplyOk'
  BY <1>1, <1>3 DEF ApplyOk, Undoable
<1>5. QED
  BY <1>2, <1>4

LEMMA ClearTakenShape ==
  ASSUME Types, ClearTaken
  PROVE /\ op' \in ApplyOp /\ op.at = "apply" /\ op'.before = op.before /\ op'.view = op.view
        /\ op'.restored = op.restored
        /\ op'.put = op.put /\ op'.obsolete = op.obsolete /\ op'.clear = FALSE
        /\ \A f \in File :
             /\ op'.backup[f] = IF f \in registry.area /\ op.backup[f] = Blank THEN disk[f] ELSE op.backup[f]
             /\ disk'[f] = IF f \in registry.area THEN None ELSE disk[f]
<1> DEFINE b == Save1(op.backup, registry.area)
           no == FALSE
<1>1. op \in ApplyOp /\ op.at = "apply"
  BY OpIs DEF ClearTaken
<1>2. /\ b \in Backup /\ no \in BOOLEAN
      /\ \A f \in File : b[f] = IF f \in registry.area /\ op.backup[f] = Blank THEN disk[f] ELSE op.backup[f]
  BY <1>1, Save1IsTyped DEF Types, ApplyOp
<1>3. op' = [op EXCEPT !.clear = no, !.backup = b]
  BY DEF ClearTaken
<1> HIDE DEF b, no
<1>4. /\ op' \in ApplyOp /\ op'.restored = op.restored /\ op'.before = op.before /\ op'.view = op.view /\ op'.put = op.put
      /\ op'.obsolete = op.obsolete /\ op'.clear = no /\ op'.backup = b
  BY <1>1, <1>2, <1>3 DEF ApplyOp
<1>5. \A f \in File : disk'[f] = IF f \in registry.area THEN None ELSE disk[f]
  BY DEF ClearTaken
<1>6. QED
  BY <1>1, <1>2, <1>4, <1>5 DEF no

LEMMA DeleteObsoleteShape ==
  ASSUME Types, NEW f \in File, DeleteObsolete(f)
  PROVE LET ours == disk[f] # None /\ disk[f] = op.obsolete[f]
        IN /\ op' \in ApplyOp /\ op.at = "apply" /\ op'.before = op.before /\ op'.view = op.view
           /\ op'.restored = op.restored
           /\ op'.put = op.put /\ op'.clear = op.clear
           /\ op'.obsolete[f] = None /\ \A g \in File : g # f => op'.obsolete[g] = op.obsolete[g]
           /\ \A g \in File :
                /\ op'.backup[g] = IF ours /\ g = f /\ op.backup[g] = Blank THEN disk[g] ELSE op.backup[g]
                /\ disk'[g] = IF ours /\ g = f THEN None ELSE disk[g]
<1> DEFINE ours == disk[f] # None /\ disk[f] = op.obsolete[f]
           b == IF ours THEN Save1(op.backup, {f}) ELSE op.backup
           o == [op.obsolete EXCEPT ![f] = None]
<1>1. op \in ApplyOp /\ op.at = "apply" /\ op.backup \in Backup
  BY OpIs DEF DeleteObsolete, ApplyOp
<1>2. \A g \in File : Save1(op.backup, {f})[g] = IF g = f /\ op.backup[g] = Blank THEN disk[g] ELSE op.backup[g]
  BY <1>1, Save1IsTyped DEF Types
<1>3. /\ b \in Backup
      /\ \A g \in File : b[g] = IF ours /\ g = f /\ op.backup[g] = Blank THEN disk[g] ELSE op.backup[g]
  BY <1>1, <1>2, Save1IsTyped DEF Types
<1>4. o \in [File -> Digest] /\ o[f] = None /\ \A g \in File : g # f => o[g] = op.obsolete[g]
  BY <1>1 DEF ApplyOp, Digest
<1>5. op' = [op EXCEPT !.obsolete = o, !.backup = b]
  BY DEF DeleteObsolete
<1>6. \A g \in File : disk'[g] = IF ours /\ g = f THEN None ELSE disk[g]
  BY DEF DeleteObsolete, Types, Slot
<1> HIDE DEF b, o
<1>7. /\ op' \in ApplyOp /\ op'.restored = op.restored /\ op'.before = op.before /\ op'.view = op.view /\ op'.put = op.put
      /\ op'.clear = op.clear /\ op'.obsolete = o /\ op'.backup = b
  BY <1>1, <1>3, <1>4, <1>5 DEF ApplyOp
<1>8. QED
  BY <1>1, <1>3, <1>4, <1>6, <1>7

LEMMA PutFileShape ==
  ASSUME Types, NEW f \in File, PutFile(f)
  PROVE LET skip == disk[f] = Chosen(f) \/ ClaimedByAnother(f)
        IN /\ op' \in ApplyOp /\ op.at = "apply" /\ op'.before = op.before /\ op'.view = op.view
           /\ op'.restored = op.restored
           /\ op'.put = op.put \ {f} /\ op'.clear = op.clear /\ op'.obsolete = op.obsolete
           /\ f \in op.put /\ Chosen(f) \in Content
           /\ \A g \in File :
                /\ op'.backup[g] = IF ~skip /\ g = f /\ op.backup[g] = Blank THEN disk[g] ELSE op.backup[g]
                /\ disk'[g] = IF ~skip /\ g = f THEN Chosen(f) ELSE disk[g]
<1> DEFINE skip == disk[f] = Chosen(f) \/ ClaimedByAnother(f)
           b == IF skip THEN op.backup ELSE Save1(op.backup, {f})
<1>1. op \in ApplyOp /\ op.at = "apply" /\ f \in op.put /\ op.backup \in Backup
  BY OpIs DEF PutFile, Putting, ApplyOp
<1>2. Chosen(f) \in Content
  BY <1>1, ChosenIsContent DEF Types, PutsCome
<1>3. \A g \in File : Save1(op.backup, {f})[g] = IF g = f /\ op.backup[g] = Blank THEN disk[g] ELSE op.backup[g]
  BY <1>1, Save1IsTyped DEF Types
<1>4. op' = [op EXCEPT !.put = @ \ {f}, !.backup = b] /\ disk' = IF skip THEN disk ELSE [disk EXCEPT ![f] = Chosen(f)]
  BY DEF PutFile
<1> HIDE DEF skip
<1>5. /\ b \in Backup
      /\ \A g \in File : b[g] = IF ~skip /\ g = f /\ op.backup[g] = Blank THEN disk[g] ELSE op.backup[g]
  BY <1>1, <1>3, Save1IsTyped DEF Types
<1>6. \A g \in File : disk'[g] = IF ~skip /\ g = f THEN Chosen(f) ELSE disk[g]
  BY <1>4 DEF Types, Slot
<1> HIDE DEF b
<1>7. /\ op' \in ApplyOp /\ op'.restored = op.restored /\ op'.before = op.before /\ op'.view = op.view /\ op'.put = op.put \ {f}
      /\ op'.clear = op.clear /\ op'.obsolete = op.obsolete /\ op'.backup = b
  BY <1>1, <1>4, <1>5 DEF ApplyOp
<1>8. QED
  BY <1>1, <1>2, <1>5, <1>6, <1>7 DEF skip

LEMMA ArchiveOriginalShape ==
  ASSUME Types, NEW f \in File, ArchiveOriginal(f)
  PROVE /\ op \in ApplyOp /\ op.at = "apply"
        /\ \A g \in File : original[g] # None => original'[g] = original[g]
        /\ UNCHANGED <<registry, disk, records, zips, archives, install, op, reader, used, suspect, mine, asked>>
<1>1. op \in ApplyOp /\ op.at = "apply" /\ original[f] = None
  BY OpIs DEF ArchiveOriginal, Putting, MustArchive
<1>2. QED
  BY <1>1 DEF ArchiveOriginal, history, Types, Slot

LEMMA ApplyingUndo == ASSUME Undoable, Applying PROVE Housed' /\ RemovalUndoable' /\ ApplyOk'
<1>1. CASE ClearTaken
  <2>1. UNCHANGED <<registry, archives>>
    BY <1>1 DEF ClearTaken
  <2>2. QED
    BY <1>1, <2>1, ClearTakenShape, ApplyUndo DEF Undoable
<1>2. ASSUME NEW f \in File, DeleteObsolete(f) PROVE Housed' /\ RemovalUndoable' /\ ApplyOk'
  <2>1. UNCHANGED <<registry, archives>>
    BY <1>2 DEF DeleteObsolete, stores
  <2>2. QED
    BY <1>2, <2>1, DeleteObsoleteShape, ApplyUndo DEF Undoable
<1>3. ASSUME NEW f \in File, PutFile(f) PROVE Housed' /\ RemovalUndoable' /\ ApplyOk'
  <2>1. UNCHANGED <<registry, archives>>
    BY <1>3 DEF PutFile, stores
  <2>2. QED
    BY <1>3, <2>1, PutFileShape, ApplyUndo DEF Undoable
<1>4. ASSUME NEW f \in File, ArchiveOriginal(f) PROVE Housed' /\ RemovalUndoable' /\ ApplyOk'
  BY <1>4, ArchiveOriginalShape, ApplyUndo DEF Undoable
<1>5. CASE ApplyBegin
  <2>1. op' = Idle \/ op'.at = "restore"
    BY <1>5 DEF ApplyBegin
  <2>2. UNCHANGED <<registry, archives>>
    BY <1>5 DEF ApplyBegin, stores
  <2>3. QED
    BY <2>1, <2>2, HousedStays, IdleIsTyped DEF RemovalUndoable, ApplyOk
<1>6. ASSUME NEW l \in Package, RestoreArchive(l) PROVE Housed' /\ RemovalUndoable' /\ ApplyOk'
  <2>1. /\ op'.at = "restore" /\ archives'[l] = Kept(l)
        /\ \A k \in Package : k # l => archives'[k] = archives[k]
    BY <1>6, RestoreArchiveShape DEF Undoable
  <2>2. Kept(l).payload = Left(disk, archives[l].payload)
    BY DEF Kept
  <2>3. archives[l].payload \in Slot /\ disk \in Slot
    BY DEF Undoable, Types, Archive
  <2>4. \A f \in File : Left(disk, archives[l].payload)[f] \in {None, archives[l].payload[f]}
    BY <2>3, ReturnedIsTyped
  <2>5. registry' = registry
    BY <1>6 DEF RestoreArchive
  <2>6. QED
    BY <2>1, <2>2, <2>4, <2>5, HousedStays DEF RemovalUndoable, ApplyOk
<1>7. CASE CheckPlan
  <2>1. UNCHANGED <<registry, disk, archives>>
    BY <1>7, CheckPlanShape DEF Undoable
  <2>2. CASE op' = Idle
    BY <2>1, <2>2, HousedStays, IdleIsTyped DEF RemovalUndoable, ApplyOk
  <2>3. CASE op'.at = "apply" /\ op'.backup = Unsaved /\ op'.before = disk
    BY <2>1, <2>3, HousedStays DEF RemovalUndoable, ApplyOk, Unsaved
  <2>4. QED
    BY <1>7, <2>2, <2>3, CheckPlanShape DEF Undoable
<1>8. CASE SaveInstall
  <2>1. op' = Idle /\ UNCHANGED <<registry, archives>>
    BY <1>8 DEF SaveInstall, stores
  <2>2. QED
    BY <2>1, HousedStays, IdleIsTyped DEF RemovalUndoable, ApplyOk
<1>9. QED
  BY <1>1, <1>2, <1>3, <1>4, <1>5, <1>6, <1>7, <1>8 DEF Applying

LEMMA SameUndo ==
  ASSUME Undoable, UNCHANGED <<registry, op, archives>>, disk' = disk \/ op = Idle
  PROVE Housed' /\ RemovalUndoable' /\ ApplyOk'
<1>1. Housed'
  BY HousedStays
<1>2. CASE op = Idle
  BY <1>1, <1>2, IdleIsTyped DEF RemovalUndoable, ApplyOk
<1>3. CASE disk' = disk
  <2>1. ApplyOk'
    BY <1>3 DEF ApplyOk, Undoable
  <2>2. MovedOnce => MovedOnce'
    BY DEF MovedOnce
  <2>3. Swept => Swept'
    BY <1>3, PlacesStay DEF Swept
  <2>4. SavedOrSame => SavedOrSame'
    BY <1>3 DEF SavedOrSame
  <2>5. QED
    BY <1>1, <2>1, <2>2, <2>3, <2>4 DEF RemovalUndoable, Undoable
<1>4. QED
  BY <1>2, <1>3

LEMMA RemovingUndo == ASSUME Undoable, RemoveSteps PROVE Housed' /\ RemovalUndoable' /\ ApplyOk'
<1>1. CASE RestoreTaken
  BY <1>1, RestoreTakenUndo, RestoreTakenShape DEF Undoable, ApplyOk
<1>2. ASSUME NEW f \in File, Unpatch(f) PROVE Housed' /\ RemovalUndoable' /\ ApplyOk'
  BY <1>2, UnpatchUndo, UnpatchShape DEF Undoable, ApplyOk
<1>3. ASSUME NEW f \in File, Unlink(f) PROVE Housed' /\ RemovalUndoable' /\ ApplyOk'
  BY <1>3, UnlinkUndo, UnlinkShape DEF Undoable, ApplyOk
<1>4. ASSUME NEW l \in Package, KeepLoader(l) PROVE Housed' /\ RemovalUndoable' /\ ApplyOk'
  <2>1. op \in RemoveOp /\ op.at = "remove" /\ op.view \in View /\ Bare(op.view.packages)
    BY <1>4, OpIs DEF KeepLoader, Moving, Removal, Undoable, Types, AllBare
  <2>2. op.kept \cup {l} \in SUBSET Package
    BY <2>1 DEF RemoveOp
  <2>3. op'.at = "remove"
    BY <1>4, <2>1, <2>2, DealtIsTyped DEF KeepLoader, Undoable
  <2>4. QED
    BY <1>4, <2>3, KeepLoaderUndo DEF ApplyOk
<1>5. ASSUME NEW l \in Package, MoveLoader(l) PROVE Housed' /\ RemovalUndoable' /\ ApplyOk'
  BY <1>5, MoveLoaderUndo, MoveLoaderShape DEF Undoable, ApplyOk
<1>6. ASSUME NEW l \in Package, NEW files \in SUBSET File, WriteManifest(l, files)
      PROVE Housed' /\ RemovalUndoable' /\ ApplyOk'
  BY <1>6, WriteManifestUndo, WriteManifestShape DEF Undoable, ApplyOk
<1>7. ASSUME NEW p \in Package, Displace(p) PROVE Housed' /\ RemovalUndoable' /\ ApplyOk'
  <2>1. UNCHANGED <<registry, disk, archives>>
    BY <1>7 DEF Displace, stores
  <2>2. CASE CanRemove(p)
    BY <1>7, <2>1, <2>2, StartRemoveUndo DEF Displace
  <2>3. CASE ~CanRemove(p)
    BY <1>7, <2>1, <2>3, SameUndo DEF Displace
  <2>4. QED
    BY <2>2, <2>3
<1>8. CASE SaveRemove
  <2>1. op' = [op EXCEPT !.at = "prune"] /\ UNCHANGED <<registry, disk, archives>>
    BY <1>8 DEF SaveRemove, stores
  <2>2. op \in RemoveOp
    BY <1>8, OpIs DEF SaveRemove, Unlinking, Removal, Undoable
  <2>3. op'.at = "prune"
    BY <2>1, <2>2 DEF RemoveOp
  <2>4. QED
    BY <2>1, <2>3, HousedStays DEF RemovalUndoable, ApplyOk
<1>9. CASE PruneOriginals
  <2>1. op' = Idle /\ UNCHANGED <<registry, archives>>
    BY <1>9 DEF PruneOriginals
  <2>2. QED
    BY <2>1, HousedStays, IdleIsTyped DEF RemovalUndoable, ApplyOk
<1>10. QED
  BY <1>1, <1>2, <1>3, <1>4, <1>5, <1>6, <1>7, <1>8, <1>9 DEF RemoveSteps

LEMMA OutsideUndo == ASSUME Undoable, Outside PROVE Housed' /\ RemovalUndoable' /\ ApplyOk'
<1>1. ASSUME NEW lost \in SUBSET File, Fail(lost) PROVE Housed' /\ RemovalUndoable' /\ ApplyOk'
  <2>1. /\ op.at \in {"apply", "remove"} /\ op' = Idle /\ registry' = registry
        /\ \A l \in Package : archives'[l] = IF \E i \in 1..Len(Returning) : Returning[i] = l
                                             THEN Cleared(l) ELSE archives[l]
    BY <1>1, FailShape DEF Undoable
  <2>2. \A l \in Package : archives[l].payload \in Slot /\ Cleared(l).payload = Left(Undone, archives[l].payload)
    BY <2>1, ClearedIsTyped DEF Undoable, Types, Archive
  <2>3. Undone \in Slot
    BY <2>1, UndoneIs DEF Undoable
  <2>4. \A l \in Package, f \in File : Left(Undone, archives[l].payload)[f] \in {None, archives[l].payload[f]}
    BY <2>2, <2>3, ReturnedIsTyped
  <2>5. Housed'
    BY <2>1, <2>2, <2>4, HousedStays
  <2>6. QED
    BY <2>1, <2>5, IdleIsTyped DEF RemovalUndoable, ApplyOk
<1>2. CASE Crash
  <2>1. op' = Idle /\ UNCHANGED <<registry, archives>>
    BY <1>2 DEF Crash, stores
  <2>2. QED
    BY <2>1, HousedStays, IdleIsTyped DEF RemovalUndoable, ApplyOk
<1>3. CASE ReaderLoad \/ ReaderSave
  BY <1>3, SameUndo DEF ReaderLoad, ReaderSave, stores
<1>4. ASSUME NEW p \in Package, AdoptLoader(p) PROVE Housed' /\ RemovalUndoable' /\ ApplyOk'
  BY <1>4, SameUndo DEF AdoptLoader, stores
<1>5. ASSUME NEW p \in Package, NEW release \in 1..Newest(p), Adopt(p, release)
      PROVE Housed' /\ RemovalUndoable' /\ ApplyOk'
  BY <1>5, SameUndo DEF Adopt, stores
<1>6. ASSUME NEW f \in File, NEW c \in Value \cup {None}, Touch(f, c)
      PROVE Housed' /\ RemovalUndoable' /\ ApplyOk'
  BY <1>6, SameUndo DEF Touch, Quiet, stores
<1>7. QED
  BY <1>1, <1>2, <1>3, <1>4, <1>5, <1>6 DEF Outside

LEMMA StutterUndo == ASSUME Undoable, UNCHANGED vars PROVE Undoable'
<1>1. UNCHANGED <<registry, disk, op, archives>>
  BY DEF vars
<1>2. Types'
  BY StutterTypes DEF Undoable
<1>3. QED
  BY <1>1, <1>2, SameUndo DEF Undoable

LEMMA NextUndo == ASSUME Undoable, InstallerNext PROVE Undoable'
<1>1. Types'
  BY NextTypes DEF Undoable
<1>2. ASSUME NEW p \in Package, BeginRemove(p) PROVE Housed' /\ RemovalUndoable' /\ ApplyOk'
  BY <1>2, StartRemoveUndo DEF BeginRemove, stores
<1>3. ASSUME NEW p \in Package, NEW force \in BOOLEAN, NEW release \in 1..Newest(p),
             BeginInstall(p, release, force)
      PROVE Housed' /\ RemovalUndoable' /\ ApplyOk'
  BY <1>3, SameUndo DEF BeginInstall, stores
<1>4. CASE Begin
  BY <1>1, <1>2, <1>3, <1>4 DEF Begin, Undoable
<1>5. CASE Applying
  BY <1>1, <1>5, ApplyingUndo DEF Undoable
<1>6. CASE RemoveSteps
  BY <1>1, <1>6, RemovingUndo DEF Undoable
<1>7. CASE Outside
  BY <1>1, <1>7, OutsideUndo DEF Undoable
<1>8. QED
  BY <1>4, <1>5, <1>6, <1>7 DEF InstallerNext

LEMMA InitUndo == ASSUME InstallerInit PROVE Undoable
<1>1. Types /\ op = Idle
  BY InitTypes DEF InstallerInit
<1>2. Housed
  BY DEF InstallerInit, Housed, NoSlot
<1>3. QED
  BY <1>1, <1>2, IdleIsTyped DEF Undoable, RemovalUndoable, ApplyOk

\* A failure of an operation that kept no loader, and a file whose copy is not lost: what lies in
\* an archive of the removal comes back, what was saved goes back over it.
LEMMA FailUndoes ==
  ASSUME Undoable, NEW lost \in SUBSET File, Fail(lost), op.kept = {},
         NEW f \in File \ (Adrift \cup lost)
  PROVE disk'[f] = op.before[f] \/ (op.before[f] = None /\ op.moved # <<>>)
<1>1. /\ op.at \in {"apply", "remove"}
      /\ disk'[f] = IF op.backup[f] = Blank THEN Undone[f] ELSE op.backup[f]
  BY FailShape DEF Undoable
<1>2. /\ disk[f] # None => Undone[f] = disk[f]
      /\ Returning = <<>> => Undone[f] = disk[f]
      /\ \A i \in 1..Len(Returning) :
             /\ disk[f] = None
             /\ archives[Returning[i]].payload[f] # None
             /\ \A j \in 1..Len(Returning) : j < i => archives[Returning[j]].payload[f] = None
             => Undone[f] = archives[Returning[i]].payload[f]
  BY <1>1, UndoneIs DEF Undoable
<1>3. CASE op.at = "apply"
  <2>1. Returning = <<>>
    BY <1>3 DEF Returning, Removal
  <2>2. QED
    BY <1>1, <1>2, <1>3, <2>1 DEF Undoable, ApplyOk
<1>4. CASE op.at = "remove" /\ op.backup[f] # Blank
  BY <1>1, <1>4 DEF Undoable, RemovalUndoable, SavedOrSame
<1>5. CASE op.at = "remove" /\ op.backup[f] = Blank
  <2>1. IF op.before[f] = None THEN disk[f] = None ELSE Lies(disk, archives, op.moved, f, op.before[f])
    BY <1>5 DEF Undoable, RemovalUndoable, SavedOrSame
  <2>2. CASE op.before[f] = None
    <3>1. op.moved = <<>> => Returning = <<>>
      BY DEF Returning
    <3>2. QED
      BY <1>1, <1>2, <1>5, <2>1, <2>2, <3>1
  <2>3. CASE op.before[f] # None /\ disk[f] = op.before[f]
    BY <1>1, <1>2, <1>5, <2>3
  <2>4. CASE op.before[f] # None /\ disk[f] = None /\ Carried(archives, op.moved, f, op.before[f])
    <3>1. PICK i \in 1..Len(op.moved) :
            /\ archives[op.moved[i]].payload[f] = op.before[f]
            /\ \A j \in 1..Len(op.moved) : j < i => archives[op.moved[j]].payload[f] = None
      BY <2>4 DEF Carried
    <3>2. op.loaders = {}
      <4> SUFFICES ASSUME op.loaders # {} PROVE f \in Adrift
        OBVIOUS
      <4>1. op.moved[i] \in Package /\ op.moved[i] \in Away
        BY <1>1, <3>1, ReturningIsTyped DEF Undoable, Away
      <4>2. f \in UNION Places(op.moved[i])
        BY <2>4, <3>1, <4>1 DEF Undoable, Housed
      <4>3. QED
        BY <1>5, <2>4, <4>1, <4>2 DEF Adrift, Removal
    <3>3. Returning = op.moved
      BY <1>5, <3>2 DEF Returning, Removal
    <3>4. QED
      BY <1>1, <1>2, <1>5, <2>4, <3>1, <3>3
  <2>5. QED
    BY <2>1, <2>2, <2>3, <2>4 DEF Lies
<1>6. QED
  BY <1>1, <1>3, <1>4, <1>5

LEMMA StepUndoes ==
  ASSUME Undoable, [InstallerNext]_vars,
         used'.faults > used.faults, op # Idle, op' = Idle, used'.lost = used.lost, op.kept = {}
  PROVE /\ records' = records
        /\ \A f \in File \ Adrift : disk'[f] = op.before[f] \/ (op.before[f] = None /\ op.moved # <<>>)
<1>1. used \in Used /\ used.faults \in Nat /\ ~(used.faults > used.faults)
  BY DEF Undoable, Types, Used
<1>2. ASSUME NEW lost \in SUBSET File, Fail(lost)
      PROVE /\ records' = records
            /\ \A f \in File \ Adrift : disk'[f] = op.before[f] \/ (op.before[f] = None /\ op.moved # <<>>)
  <2>1. lost = {} /\ records' = records
    BY <1>2, FailShape DEF Undoable
  <2>2. QED
    BY <1>2, <2>1, FailUndoes
<1>3. CASE Crash
  <2>1. used' = [used EXCEPT !.crash = @ + 1]
    BY <1>3 DEF Crash, Spend
  <2>2. used'.faults = used.faults
    BY <1>1, <2>1 DEF Used
  <2>3. QED
    BY <1>1, <2>2
<1>4. ASSUME NEW l \in Package, KeepLoader(l) PROVE FALSE
  <2>1. op \in RemoveOp /\ op.at = "remove" /\ op.view \in View /\ Bare(op.view.packages)
    BY <1>4, OpIs DEF KeepLoader, Moving, Removal, Undoable, Types, AllBare
  <2>2. op.kept \cup {l} \in SUBSET Package
    BY <2>1 DEF RemoveOp
  <2>3. op'.at = "remove"
    BY <1>4, <2>1, <2>2, DealtIsTyped DEF KeepLoader, Undoable
  <2>4. QED
    BY <2>3, IdleIsTyped
<1>5. used' # used
  BY <1>1
<1>6. CASE Begin \/ Applying
  BY <1>5, <1>6, IdleIsTyped
     DEF Begin, BeginRemove, BeginInstall, Quiet, Applying, ApplyBegin, RestoreArchive, CheckPlan, ClearTaken,
         SaveInstall, DeleteObsolete, ArchiveOriginal, PutFile
<1>7. CASE RemoveSteps
  BY <1>4, <1>5, <1>7
     DEF RemoveSteps, RestoreTaken, SaveRemove, PruneOriginals, Displace, MoveLoader, Unpatch, Unlink, WriteManifest
<1>8. CASE Outside
  BY <1>2, <1>3, <1>5, <1>8
     DEF Outside, ReaderLoad, ReaderSave, AdoptLoader, Adopt, Touch, Quiet
<1>9. QED
  BY <1>5, <1>6, <1>7, <1>8 DEF InstallerNext, vars

\* Whatever the index, the stores and the step at which an operation fails: as long as no saved
\* copy is lost and no loader was kept, what it changed on the disk is what it was before, except
\* the loaders that were being moved away and files of older archives that come back with them.
THEOREM FailuresAreUndone == InstallerSpec => FailureUndone
<1>1. InstallerInit => Undoable
  BY InitUndo
<1>2. Undoable /\ [InstallerNext]_vars => Undoable'
  BY NextUndo, StutterUndo
<1>3. Undoable /\ [InstallerNext]_vars =>
        [used'.faults > used.faults /\ op # Idle /\ op' = Idle /\ used'.lost = used.lost
         /\ op.kept = {} =>
         /\ records' = records
         /\ \A f \in File \ Adrift : \/ disk'[f] = op.before[f]
                                     \/ op.before[f] = None /\ op.moved # <<>>]_vars
  BY StepUndoes
<1>4. QED
  BY <1>1, <1>2, <1>3, PTL DEF InstallerSpec, FailureUndone

(* ----------------------- what the player left -------------------------- *)
\* A content of a file is kept: among the originals, in a zip, in an archive, or in place.
Zipped1(z, f, c) == \E i \in 1..Len(z) : z[i][f] = c
Stowed(a, f, c) == \E l \in Package : a[l].payload[f] = c
Safe(d, o, z, a, f, c) == c \in {d[f], o[f]} \/ Zipped1(z, f, c) \/ Stowed(a, f, c)

Players == /\ Undoable /\ PlayerFilesSurvive /\ Unrecorded /\ PutsAreTold /\ OriginalsOk
PlayersHold == PlayerFilesSurvive /\ Unrecorded /\ PutsAreTold /\ OriginalsOk

LEMMA SurviveIs ==
  PlayerFilesSurvive <=>
    \A f \in File : mine[f] # None => Safe(disk, original, zips, archives, f, mine[f])
BY DEF PlayerFilesSurvive, Safe, Zipped1, Stowed

LEMMA SurviveNextIs ==
  PlayerFilesSurvive' <=>
    \A f \in File : mine'[f] # None => Safe(disk', original', zips', archives', f, mine'[f])
BY DEF PlayerFilesSurvive, Safe, Zipped1, Stowed

\* What the player writes is no content of a release and no mark.
LEMMA MineApart ==
  ASSUME Types, NEW f \in File, mine[f] # None
  PROVE mine[f] \in UserContent /\ mine[f] \notin Content /\ mine[f] # Blank
BY ValuesApart DEF Types

\* A step that gives the player's files no new record.
LEMMA UnrecordedStays ==
  ASSUME Types, Unrecorded,
         \A f \in File : mine'[f] \in {None, mine[f]},
         \A f \in File : mine'[f] # None /\ mine[f] # None =>
           /\ records'.sha[f] # mine[f]
           /\ reader' # None => reader'.read.sha[f] # mine[f]
           /\ \A l \in Package : archives'[l].manifest # None /\ archives'[l].manifest.files[f] # None =>
                archives'[l].manifest.files[f].sha # mine[f]
           /\ op'.at # "idle" => op'.view.files[f] = None \/ op'.view.files[f].sha # mine[f]
  PROVE Unrecorded'
<1> SUFFICES ASSUME NEW f \in File, mine'[f] # None
             PROVE /\ mine'[f] \notin Digests(f)'
                   /\ op'.at # "idle" => op'.view.files[f] = None \/ op'.view.files[f].sha # mine'[f]
  BY DEF Unrecorded
<1>1. mine'[f] = mine[f] /\ mine[f] # None
  OBVIOUS
<1>2. QED
  BY <1>1 DEF Digests

\* What Unrecorded says, in the form the steps use it.
LEMMA NoRecordOf ==
  ASSUME Unrecorded, NEW f \in File, mine[f] # None
  PROVE /\ records.sha[f] # mine[f]
        /\ reader # None => reader.read.sha[f] # mine[f]
        /\ \A l \in Package : archives[l].manifest # None /\ archives[l].manifest.files[f] # None =>
             archives[l].manifest.files[f].sha # mine[f]
        /\ op.at # "idle" => op.view.files[f] = None \/ op.view.files[f].sha # mine[f]
BY DEF Unrecorded, Digests

\* A step that changes no store, no record and no transaction.
LEMMA SamePlayers ==
  ASSUME Players, UNCHANGED <<registry, disk, records, original, zips, archives, install, op, reader, mine>>
  PROVE PlayersHold'
<1>1. PlayerFilesSurvive'
  BY SurviveIs, SurviveNextIs DEF Players
<1>2. Unrecorded'
  BY NoRecordOf, UnrecordedStays DEF Players, Undoable
<1>3. PutsAreTold'
  BY SameIncoming DEF Players, PutsAreTold
<1>4. OriginalsOk'
  BY DEF Players, OriginalsOk, OriginalsLie
<1>5. QED
  BY <1>1, <1>2, <1>3, <1>4 DEF PlayersHold

\* Files going in and out of an archive: none is lost on the way.
LEMMA ReturnKeeps ==
  ASSUME NEW d \in Slot, NEW payload \in Slot, NEW f \in File, NEW c, c # None, c \in {d[f], payload[f]}
  PROVE c \in {Returned(d, payload)[f], Left(d, payload)[f]}
BY ReturnedIsTyped

LEMMA GatherKeeps ==
  ASSUME Types, NEW l \in Package, NEW files, NEW f \in File, NEW c, c # None,
         c \in {disk[f], archives[l].payload[f]}
  PROVE c \in {Gathered(l, files)[f], Emptied(l, files)[f]}
BY GatheredIsTyped

\* A step that leaves the originals and the zips, and no file unaccounted for.
LEMMA SurviveStays ==
  ASSUME PlayerFilesSurvive,
         \A f \in File : mine'[f] \in {None, mine[f]},
         \A f \in File : mine'[f] # None /\ mine[f] # None =>
           /\ disk[f] = mine[f] => Safe(disk', original', zips', archives', f, mine[f])
           /\ original[f] = mine[f] => Safe(disk', original', zips', archives', f, mine[f])
           /\ Zipped1(zips, f, mine[f]) => Safe(disk', original', zips', archives', f, mine[f])
           /\ Stowed(archives, f, mine[f]) => Safe(disk', original', zips', archives', f, mine[f])
  PROVE PlayerFilesSurvive'
<1> SUFFICES ASSUME NEW f \in File, mine'[f] # None
             PROVE Safe(disk', original', zips', archives', f, mine'[f])
  BY SurviveNextIs
<1>1. mine'[f] = mine[f] /\ mine[f] # None /\ Safe(disk, original, zips, archives, f, mine[f])
  BY SurviveIs
<1>2. QED
  BY <1>1 DEF Safe

\* What a transaction's own step must show: nothing of the player's goes from the disk, unless
\* he is told or it is stored elsewhere.
LEMMA ApplyStepPlayers ==
  ASSUME Players, op.at = "apply", op' \in ApplyOp, op'.view = op.view, op'.put \subseteq op.put,
         \A f \in File : op'.obsolete[f] \in {None, op.obsolete[f]},
         \A f \in File : mine'[f] \in {None, mine[f]},
         UNCHANGED <<registry, records, archives, install, reader>>,
         \A f \in File : original[f] # None => original'[f] = original[f],
         \A f \in File : mine'[f] # None /\ mine[f] # None /\ Zipped1(zips, f, mine[f]) => Zipped1(zips', f, mine[f]),
         \A f \in File : mine'[f] # None /\ mine[f] # None /\ disk[f] = mine[f] =>
            disk'[f] = mine[f] \/ Zipped1(zips', f, mine[f]),
         \A f \in File : mine'[f] # None /\ mine[f] # None /\ disk'[f] = mine[f] =>
            /\ disk[f] = mine[f] /\ op'.backup[f] = op.backup[f]
            /\ op'.clear = op.clear \/ f \notin registry.area
  PROVE PlayersHold'
<1>1. PlayerFilesSurvive'
  <2>1. PlayerFilesSurvive
    BY DEF Players
  <2>2. QED
    BY <2>1, SurviveStays DEF Safe, Stowed
<1>2. Unrecorded'
  BY NoRecordOf, UnrecordedStays DEF Players, Undoable
<1>3. PutsAreTold'
  <2> SUFFICES ASSUME NEW f \in File, mine'[f] # None
               PROVE /\ op'.obsolete[f] # mine'[f]
                     /\ f \in op'.put => \/ install'.force \/ Patches(f)' # {} \/ Recorders(f)' = {}
                                         \/ disk'[f] # mine'[f] \/ (op'.clear /\ f \in registry'.area)
                     /\ op'.backup[f] # Blank => disk'[f] # mine'[f]
    BY DEF PutsAreTold
  <2>1. mine'[f] = mine[f] /\ mine[f] # None
    OBVIOUS
  <2>2. /\ op.obsolete[f] # mine[f]
        /\ f \in op.put => \/ install.force \/ Patches(f) # {} \/ Recorders(f) = {}
                           \/ disk[f] # mine[f] \/ (op.clear /\ f \in registry.area)
        /\ op.backup[f] # Blank => disk[f] # mine[f]
    BY <2>1 DEF Players, PutsAreTold
  <2>3. Patches(f)' = Patches(f) /\ Recorders(f)' = Recorders(f)
    BY SameIncoming
  <2>4. op'.obsolete[f] # mine'[f]
    BY <2>1, <2>2
  <2>5. CASE disk'[f] # mine[f]
    BY <2>1, <2>4, <2>5
  <2>6. CASE disk'[f] = mine[f]
    <3>1. /\ disk[f] = mine[f] /\ op'.backup[f] = op.backup[f]
          /\ op'.clear = op.clear \/ f \notin registry.area
      BY <2>1, <2>6
    <3>2. QED
      BY <2>1, <2>2, <2>3, <2>4, <3>1
  <2>7. QED
    BY <2>5, <2>6
<1>4. OriginalsOk'
  BY DEF OriginalsOk, ApplyOp
<1>5. QED
  BY <1>1, <1>2, <1>3, <1>4 DEF PlayersHold

LEMMA ZippedIs ==
  ASSUME Types, ClearTaken
  PROVE /\ \A f \in File : \A c : Zipped1(zips, f, c) /\ mine'[f] # None /\ mine[f] = c => Zipped1(zips', f, c)
        /\ \A f \in registry.area : disk[f] # None /\ mine'[f] # None /\ mine[f] = disk[f] => Zipped1(zips', f, disk[f])
<1> DEFINE held == {f \in registry.area : disk[f] # None}
           z == [f \in File |-> IF f \in held THEN disk[f] ELSE None]
           kept == Zipped(held)
           pushed == Len(kept) > BackupLimit
<1>1. zips \in Seq(Slot) /\ z \in Slot /\ BackupLimit \in Nat \ {0} /\ registry.area \subseteq File
  <2>1. z \in Slot
    BY DEF Types, Slot
  <2>2. QED
    BY <2>1, InstallerAssumption, IndexTypes DEF Types
<1>2. kept = IF held = {} THEN zips ELSE Append(zips, z)
  BY DEF Zipped
<1>3. /\ zips' = IF pushed THEN Tail(kept) ELSE kept
      /\ mine' = [f \in File |-> IF pushed /\ kept[1][f] = mine[f] THEN None ELSE mine[f]]
  BY DEF ClearTaken
<1>4. \A f \in held : z[f] = disk[f]
  BY <1>1
<1>5. held = {} => \A f \in registry.area : disk[f] = None
  OBVIOUS
<1>6. \A f \in registry.area : disk[f] # None => f \in held
  OBVIOUS
<1> HIDE DEF held, z
<1>7. kept \in Seq(Slot)
  <2> HIDE DEF Slot
  <2> QED BY <1>1, <1>2
<1>8. \A f \in File : \A c : Zipped1(zips, f, c) => Zipped1(kept, f, c)
  <2> HIDE DEF Slot
  <2> SUFFICES ASSUME NEW f \in File, NEW c, NEW i \in 1..Len(zips), zips[i][f] = c
               PROVE \E j \in 1..Len(kept) : kept[j][f] = c
    BY DEF Zipped1
  <2>1. i \in 1..Len(kept) /\ kept[i] = zips[i]
    BY <1>1, <1>2
  <2>2. QED
    BY <2>1
<1>9. \A f \in held : Zipped1(kept, f, disk[f])
  <2> HIDE DEF Slot
  <2> SUFFICES ASSUME NEW f \in held PROVE \E j \in 1..Len(kept) : kept[j][f] = disk[f]
    BY DEF Zipped1
  <2>1. kept = Append(zips, z)
    BY <1>2
  <2>2. Len(kept) \in 1..Len(kept) /\ kept[Len(kept)] = z
    BY <1>1, <2>1
  <2>3. QED
    BY <1>4, <2>2
<1> HIDE DEF kept
<1>10. ASSUME NEW f \in File, NEW c, Zipped1(kept, f, c), mine'[f] # None, mine[f] = c
       PROVE Zipped1(zips', f, c)
  <2> HIDE DEF Slot
  <2>1. PICK i \in 1..Len(kept) : kept[i][f] = c
    BY <1>10 DEF Zipped1
  <2>2. CASE ~pushed
    BY <1>3, <2>1, <2>2 DEF Zipped1
  <2>3. CASE pushed
    <3>1. i # 1 /\ zips' = Tail(kept)
      BY <1>3, <1>10, <2>1, <2>3
    <3>2. i - 1 \in 1..Len(zips') /\ zips'[i - 1] = kept[i]
      BY <1>1, <1>7, <2>1, <2>3, <3>1
    <3>3. QED
      BY <2>1, <3>2 DEF Zipped1
  <2>4. QED
    BY <2>2, <2>3
<1>11. QED
  BY <1>1, <1>6, <1>8, <1>9, <1>10

LEMMA ClearTakenPlayers == ASSUME Players, ClearTaken PROVE PlayersHold'
<1>1. /\ op' \in ApplyOp /\ op.at = "apply" /\ op'.view = op.view
      /\ op'.put = op.put /\ op'.obsolete = op.obsolete
      /\ \A f \in File :
           /\ op'.backup[f] = IF f \in registry.area /\ op.backup[f] = Blank THEN disk[f] ELSE op.backup[f]
           /\ disk'[f] = IF f \in registry.area THEN None ELSE disk[f]
  BY ClearTakenShape DEF Players, Undoable
<1>2. \A f \in File : mine'[f] \in {None, mine[f]}
  BY DEF ClearTaken
<1>3. UNCHANGED <<registry, records, original, archives, install, reader>>
  BY DEF ClearTaken
<1>4. \A f \in File : mine'[f] # None /\ mine[f] # None /\ Zipped1(zips, f, mine[f]) => Zipped1(zips', f, mine[f])
  BY ZippedIs DEF Players, Undoable
<1>5. \A f \in File : mine'[f] # None /\ mine[f] # None /\ disk[f] = mine[f] =>
            disk'[f] = mine[f] \/ Zipped1(zips', f, mine[f])
  BY <1>1, ZippedIs DEF Players, Undoable
<1>6. \A f \in File : mine'[f] # None /\ mine[f] # None /\ disk'[f] = mine[f] =>
            /\ disk[f] = mine[f] /\ op'.backup[f] = op.backup[f] /\ f \notin registry.area
  BY <1>1
<1>7. QED
  BY <1>1, <1>2, <1>3, <1>4, <1>5, <1>6, ApplyStepPlayers

LEMMA DeleteObsoletePlayers == ASSUME Players, NEW f \in File, DeleteObsolete(f) PROVE PlayersHold'
<1> DEFINE ours == disk[f] # None /\ disk[f] = op.obsolete[f]
<1>1. /\ op' \in ApplyOp /\ op.at = "apply" /\ op'.view = op.view
      /\ op'.put = op.put /\ op'.clear = op.clear
      /\ op'.obsolete[f] = None /\ \A g \in File : g # f => op'.obsolete[g] = op.obsolete[g]
      /\ \A g \in File :
           /\ op'.backup[g] = IF ours /\ g = f /\ op.backup[g] = Blank THEN disk[g] ELSE op.backup[g]
           /\ disk'[g] = IF ours /\ g = f THEN None ELSE disk[g]
  BY DeleteObsoleteShape DEF Players, Undoable
<1>2. mine' = IF ours THEN [mine EXCEPT ![f] = None] ELSE mine
  BY DEF DeleteObsolete
<1> HIDE DEF ours
<1>3. \A g \in File : mine'[g] = IF ours /\ g = f THEN None ELSE mine[g]
  BY <1>2 DEF Players, Undoable, Types
<1>4. UNCHANGED <<registry, records, original, zips, archives, install, reader>>
  BY DEF DeleteObsolete, stores
<1>5. \A g \in File : op'.obsolete[g] \in {None, op.obsolete[g]}
  BY <1>1
<1>6. \A g \in File : mine'[g] # None => disk'[g] = disk[g] /\ op'.backup[g] = op.backup[g]
  BY <1>1, <1>3
<1>7. QED
  BY <1>1, <1>3, <1>4, <1>5, <1>6, ApplyStepPlayers

LEMMA PutFilePlayers == ASSUME Players, NEW f \in File, PutFile(f) PROVE PlayersHold'
<1> DEFINE skip == disk[f] = Chosen(f) \/ ClaimedByAnother(f)
           told == install.force \/ Patches(f) # {} \/ Recorders(f) = {}
<1>1. /\ op' \in ApplyOp /\ op.at = "apply" /\ op'.view = op.view
      /\ op'.put = op.put \ {f} /\ op'.clear = op.clear /\ op'.obsolete = op.obsolete
      /\ f \in op.put /\ Chosen(f) \in Content
      /\ \A g \in File :
           /\ op'.backup[g] = IF ~skip /\ g = f /\ op.backup[g] = Blank THEN disk[g] ELSE op.backup[g]
           /\ disk'[g] = IF ~skip /\ g = f THEN Chosen(f) ELSE disk[g]
  BY PutFileShape DEF Players, Undoable
<1>2. mine' = (IF ~skip /\ told THEN [mine EXCEPT ![f] = None] ELSE mine) /\ ~op.clear
  BY DEF PutFile, Putting
<1>3. mine[f] # None /\ ~told => disk[f] # mine[f]
  BY <1>1, <1>2 DEF Players, PutsAreTold
<1>4. mine[f] # None => Chosen(f) # mine[f]
  BY <1>1, MineApart DEF Players, Undoable
<1> HIDE DEF skip, told
<1>5. \A g \in File : mine'[g] = IF ~skip /\ told /\ g = f THEN None ELSE mine[g]
  BY <1>2 DEF Players, Undoable, Types
<1>6. UNCHANGED <<registry, records, original, zips, archives, install, reader>>
  BY DEF PutFile, stores
<1>7. \A g \in File : mine'[g] # None /\ mine[g] # None /\ disk[g] = mine[g] => disk'[g] = mine[g]
  BY <1>1, <1>3, <1>5
<1>8. \A g \in File : mine'[g] # None /\ mine[g] # None /\ disk'[g] = mine[g] =>
        disk[g] = mine[g] /\ op'.backup[g] = op.backup[g]
  BY <1>1, <1>4, <1>5
<1>9. QED
  BY <1>1, <1>5, <1>6, <1>7, <1>8, ApplyStepPlayers

LEMMA ArchiveOriginalPlayers == ASSUME Players, NEW f \in File, ArchiveOriginal(f) PROVE PlayersHold'
<1>1. /\ op \in ApplyOp /\ op.at = "apply"
      /\ \A g \in File : original[g] # None => original'[g] = original[g]
      /\ UNCHANGED <<registry, disk, records, zips, archives, install, op, reader, used, suspect, mine, asked>>
  BY ArchiveOriginalShape DEF Players, Undoable
<1>2. QED
  BY <1>1, ApplyStepPlayers

\* A step that moves nothing and takes nothing from the player.
LEMMA QuietStepPlayers ==
  ASSUME Players, UNCHANGED <<disk, original, zips, mine>>,
         \A l \in Package : archives'[l].payload = archives[l].payload,
         \A f \in File : mine[f] # None =>
           /\ records'.sha[f] # mine[f]
           /\ reader' # None => reader'.read.sha[f] # mine[f]
           /\ \A l \in Package : archives'[l].manifest # None /\ archives'[l].manifest.files[f] # None =>
                archives'[l].manifest.files[f].sha # mine[f]
           /\ op'.at # "idle" => op'.view.files[f] = None \/ op'.view.files[f].sha # mine[f]
  PROVE PlayerFilesSurvive' /\ Unrecorded'
<1>1. PlayerFilesSurvive'
  BY SurviveIs, SurviveNextIs DEF Players, Safe, Stowed
<1>2. Unrecorded'
  BY UnrecordedStays DEF Players, Undoable
<1>3. QED
  BY <1>1, <1>2

LEMMA StepOut ==
  ASSUME op'.at \notin {"apply", "remove"}
  PROVE PutsAreTold' /\ OriginalsOk'
BY DEF PutsAreTold, OriginalsOk

LEMMA ApplyBeginPlayers == ASSUME Players, ApplyBegin PROVE PlayersHold'
<1>1. UNCHANGED <<registry, disk, records, original, zips, archives, reader, used, suspect, mine, asked>>
  BY DEF ApplyBegin, stores, history
<1>2. op' = Idle \/ (op'.at = "restore" /\ op'.view = Load)
  BY DEF ApplyBegin
<1>3. \A f \in File : mine[f] # None => Load.files[f] = None \/ Load.files[f].sha # mine[f]
  BY LoadIsTyped, NoRecordOf DEF Players, Undoable
<1>4. PlayerFilesSurvive' /\ Unrecorded'
  BY <1>1, <1>2, <1>3, NoRecordOf, QuietStepPlayers, IdleIsTyped DEF Players
<1>5. QED
  BY <1>2, <1>4, StepOut, IdleIsTyped DEF PlayersHold

LEMMA RestoreArchivePlayers == ASSUME Players, NEW l \in Package, RestoreArchive(l) PROVE PlayersHold'
<1>1. /\ op.at = "restore" /\ l \in op.loaders
      /\ op'.at = "restore" /\ op'.view = BackView(l) /\ archives'[l] = Kept(l)
      /\ \A k \in Package : k # l => archives'[k] = archives[k]
      /\ disk' = Returned(disk, archives[l].payload)
  BY RestoreArchiveShape DEF Players, Undoable
<1>2. UNCHANGED <<registry, records, original, zips, install, reader, used, suspect, mine, asked>>
  BY DEF RestoreArchive, history
<1>3. archives'[l].payload = Left(disk, archives[l].payload)
  BY <1>1 DEF Kept
<1>4. archives[l].payload \in Slot /\ disk \in Slot
  BY DEF Players, Undoable, Types, Archive
<1>5. PlayerFilesSurvive'
  <2>1. ASSUME NEW f \in File, NEW c, c # None, disk[f] = c \/ archives[l].payload[f] = c
        PROVE disk'[f] = c \/ archives'[l].payload[f] = c
    BY <1>1, <1>3, <1>4, <2>1, ReturnKeeps
  <2>2. ASSUME NEW f \in File, mine[f] # None, disk[f] = mine[f]
        PROVE Safe(disk', original', zips', archives', f, mine[f])
    BY <2>1, <2>2 DEF Safe, Stowed
  <2>3. ASSUME NEW f \in File, mine[f] # None, Stowed(archives, f, mine[f])
        PROVE Safe(disk', original', zips', archives', f, mine[f])
    BY <1>1, <2>1, <2>3 DEF Safe, Stowed
  <2>4. PlayerFilesSurvive
    BY DEF Players
  <2>5. ASSUME NEW f \in File, original[f] = mine[f] \/ Zipped1(zips, f, mine[f])
        PROVE Safe(disk', original', zips', archives', f, mine[f])
    BY <1>2, <2>5 DEF Safe
  <2>6. QED
    BY <1>2, <2>2, <2>3, <2>4, <2>5, SurviveStays
<1>6. Unrecorded'
  <2>1. ASSUME NEW f \in File, mine[f] # None
        PROVE /\ \A k \in Package : archives'[k].manifest # None /\ archives'[k].manifest.files[f] # None =>
                   archives'[k].manifest.files[f].sha # mine[f]
              /\ BackFiles(l)[f] = None \/ BackFiles(l)[f].sha # mine[f]
    <3>1. Kept(l).manifest # None => Kept(l).manifest.files[f] \in {None, archives[l].manifest.files[f]}
      BY <1>1, BackIsTyped DEF Players, Undoable
    <3>2. BackFiles(l)[f] = op.view.files[f] \/ BackFiles(l)[f] = archives[l].manifest.files[f]
      BY <1>1, BackIsTyped DEF Players, Undoable
    <3>3. archives[l].manifest # None
      BY <1>1 DEF Players, Undoable, Types
    <3>4. QED
      BY <1>1, <2>1, <3>1, <3>2, <3>3, NoRecordOf DEF Players
  <2>2. BackView(l).files = BackFiles(l)
    BY DEF BackView
  <2>3. QED
    BY <1>1, <1>2, <2>1, <2>2, NoRecordOf, UnrecordedStays DEF Players, Undoable
<1>7. QED
  BY <1>1, <1>5, <1>6, StepOut DEF PlayersHold

\* The next records give the player's files no digest of theirs.
LEMMA SettledTellsNot ==
  ASSUME Players, op.at = "restore", NEW f \in File, mine[f] # None
  PROVE Settled.files[f] = None \/ Settled.files[f].sha # mine[f]
<1>1. install # None
  BY DEF Players, Undoable, Types
<1>2. f \in Targets => Chosen(f) \in Content
  BY <1>1, ChosenIsContent DEF Players, Undoable, Targets, Recorders
<1>3. op.view.files[f] = None \/ op.view.files[f].sha # mine[f]
  BY NoRecordOf DEF Players
<1>4. Settled.files[f] # None => Claimed.files[f] # None /\ Settled.files[f].sha = Claimed.files[f].sha
  BY SettledIsTyped DEF Players, Undoable
<1>5. Claimed.files[f] # None =>
             \/ f \in Targets /\ Claimed.files[f].sha = Chosen(f)
             \/ f \notin Taken /\ op.view.files[f] # None /\ Claimed.files[f].sha = op.view.files[f].sha
  BY ClaimedIsTyped DEF Players, Undoable
<1>6. QED
  BY <1>2, <1>3, <1>4, <1>5, MineApart DEF Players, Undoable

LEMMA CheckPlanPlayers == ASSUME Players, CheckPlan PROVE PlayersHold'
<1>1. /\ op.at = "restore"
      /\ UNCHANGED <<registry, disk, records, original, zips, archives, reader, used, suspect, mine>>
  BY CheckPlanShape DEF Players, Undoable
<1>2. CASE op' = Idle
  <2>1. PlayerFilesSurvive' /\ Unrecorded'
    BY <1>1, <1>2, NoRecordOf, QuietStepPlayers, IdleIsTyped DEF Players
  <2>2. QED
    BY <1>2, <2>1, StepOut, IdleIsTyped DEF PlayersHold
<1>3. CASE /\ ~Refused /\ install' = install /\ op'.at = "apply"
           /\ \A f \in File : op'.view.files[f] \in {None, Settled.files[f]}
           /\ \A f \in File : op'.obsolete[f] # None =>
                Settled.files[f] # None /\ op'.obsolete[f] = Settled.files[f].sha
           /\ op'.clear = Clearing /\ op'.put = Putable /\ op'.backup = Unsaved
  <2>1. PlayerFilesSurvive' /\ Unrecorded'
    <3>1. \A f \in File : mine[f] # None => op'.view.files[f] = None \/ op'.view.files[f].sha # mine[f]
      BY <1>1, <1>3, SettledTellsNot
    <3>2. QED
      BY <1>1, <3>1, NoRecordOf, QuietStepPlayers DEF Players
  <2>2. OriginalsOk'
    BY <1>3 DEF OriginalsOk
  <2>3. ASSUME NEW f \in File, mine[f] # None, f \in Putable
        PROVE \/ install.force \/ Patches(f) # {} \/ Recorders(f) = {}
              \/ disk[f] # mine[f] \/ (Clearing /\ f \in registry.area)
    <3> SUFFICES ASSUME ~install.force, Patches(f) = {}, Recorders(f) # {}, disk[f] = mine[f]
                 PROVE Clearing /\ f \in registry.area
      OBVIOUS
    <3>1. f \in Targets /\ ~TargetRefused(f)
      BY <1>3 DEF Refused, Targets
    <3>2. Chosen(f) \in Content /\ mine[f] \notin Content
      BY <1>1, <2>3, ChosenIsContent, MineApart DEF Players, Undoable, Types, Putable
    <3>3. Vacated.files[f] = None \/ Vacated.files[f].sha # mine[f]
      BY <1>1, <2>3, VacatedIsTyped, NoRecordOf DEF Players, Undoable
    <3>4. Vacated.files[f] = None
      BY <2>3, <3>1, <3>3 DEF TargetRefused, Differs
    <3>5. f \in Taken
      BY <2>3, <3>1, <3>2, <3>4 DEF TargetRefused, Differs
    <3>6. QED
      BY <3>5 DEF Taken, Clearing
  <2>4. PutsAreTold'
    <3> SUFFICES ASSUME NEW f \in File, mine[f] # None
                 PROVE /\ op'.obsolete[f] # mine[f]
                       /\ f \in op'.put => \/ install.force \/ Patches(f)' # {} \/ Recorders(f)' = {}
                                           \/ disk[f] # mine[f] \/ (op'.clear /\ f \in registry.area)
                       /\ op'.backup[f] = Blank
      BY <1>1, <1>3 DEF PutsAreTold
    <3>1. op'.obsolete[f] # mine[f]
      BY <1>1, <1>3, SettledTellsNot
    <3>2. Patches(f)' = Patches(f) /\ Recorders(f)' = Recorders(f)
      BY <1>1, <1>3, SameIncoming
    <3>3. QED
      BY <1>3, <2>3, <3>1, <3>2 DEF Unsaved
  <2>5. QED
    BY <2>1, <2>2, <2>4 DEF PlayersHold
<1>4. QED
  BY <1>2, <1>3, CheckPlanShape DEF Players, Undoable

\* Records saved from what an operation worked out.
LEMMA StoredTellsNot ==
  ASSUME Players, op.at # "idle", NEW f \in File, mine[f] # None
  PROVE Stored(op.view).sha[f] # mine[f]
<1>1. /\ DOMAIN op.view = {"packages", "files"}
      /\ op.view.packages \in [Package -> PackageRecord \cup {None}]
      /\ \A g \in File : op.view.files[g] = None \/ op.view.files[g].sha \in Digest
  BY OpIs DEF Players, Undoable, View, Entry
<1>2. \/ Stored(op.view).sha[f] \in {None, Blank}
      \/ op.view.files[f] # None /\ Stored(op.view).sha[f] = op.view.files[f].sha
  BY <1>1, StoredIsTyped
<1>3. QED
  BY <1>2, NoRecordOf, MineApart DEF Players, Undoable

LEMMA SaveInstallPlayers == ASSUME Players, SaveInstall PROVE PlayersHold'
<1>1. op' = Idle /\ records' = Stored(op.view) /\ op.at = "apply"
      /\ UNCHANGED <<registry, disk, original, zips, archives, reader, mine>>
  BY DEF SaveInstall, stores
<1>2. PlayerFilesSurvive' /\ Unrecorded'
  BY <1>1, StoredTellsNot, NoRecordOf, QuietStepPlayers, IdleIsTyped DEF Players
<1>3. QED
  BY <1>1, <1>2, StepOut, IdleIsTyped DEF PlayersHold

LEMMA PutsTrivial == ASSUME op'.at # "apply" PROVE PutsAreTold'
BY DEF PutsAreTold

LEMMA StartRemovePlayers ==
  ASSUME Players, NEW p \in Package, StartRemove(p),
         UNCHANGED <<registry, disk, records, original, zips, archives, reader, mine>>
  PROVE PlayersHold'
<1>1. /\ op'.at = "remove" /\ op'.kept = {} /\ op'.backup = Unsaved
      /\ \A f \in op'.unpatch : f \in File /\ original[f] # None
      /\ \A f \in File : op'.view.files[f] # None => op'.view.files[f].sha = records.sha[f]
  BY StartRemoveTypes DEF Players, Undoable
<1>2. PlayerFilesSurvive' /\ Unrecorded'
  BY <1>1, NoRecordOf, QuietStepPlayers DEF Players
<1>3. OriginalsOk'
  BY <1>1 DEF OriginalsOk, OriginalsLie, Unsaved
<1>4. QED
  BY <1>1, <1>2, <1>3, PutsTrivial DEF PlayersHold

\* A step of a removal that moves no loader: a file it saves for the first time is one whose
\* original is on the disk afterwards, or the player has been told.
LEMMA RemoveStepPlayers ==
  ASSUME Players, op.at = "remove", op' \in RemoveOp, op'.at = "remove", SameDealings,
         op'.unpatch \subseteq op.unpatch,
         UNCHANGED <<registry, records, original, zips, archives, reader>>,
         \A f \in File : mine'[f] \in {None, mine[f]},
         \A f \in File : mine'[f] # None /\ mine[f] # None =>
           op'.view.files[f] = None \/ op'.view.files[f].sha # mine[f],
         \A f \in File : mine'[f] # None /\ mine[f] # None =>
           \/ disk'[f] = disk[f] /\ op'.backup[f] = op.backup[f]
           \/ disk[f] # mine[f] /\ disk'[f] = original[f] /\ original[f] # None
  PROVE PlayersHold'
<1>1. PlayerFilesSurvive'
  <2>1. PlayerFilesSurvive
    BY DEF Players
  <2>2. QED
    BY <2>1, SurviveStays DEF Safe
<1>2. Unrecorded'
  BY NoRecordOf, UnrecordedStays DEF Players, Undoable
<1>3. OriginalsOk'
  <2>1. \A f \in op'.unpatch : original'[f] # None
    BY DEF Players, OriginalsOk
  <2>2. \A f \in File : mine'[f] # None /\ op'.backup[f] # Blank => original'[f] # None
    BY DEF Players, OriginalsOk
  <2>3. ASSUME op'.kept = {} PROVE OriginalsLie'
    <3> SUFFICES ASSUME NEW f \in File, mine'[f] # None, op'.backup[f] # Blank
                 PROVE Lies(disk', archives', op'.moved, f, original'[f])
      BY DEF OriginalsLie
    <3>1. mine[f] # None /\ op'.moved = op.moved /\ op.kept = {}
      BY <2>3 DEF SameDealings
    <3>2. CASE disk'[f] = disk[f] /\ op'.backup[f] = op.backup[f]
      <4>1. Lies(disk, archives, op.moved, f, original[f])
        BY <3>1, <3>2 DEF Players, OriginalsOk, OriginalsLie
      <4>2. QED
        BY <3>1, <3>2, <4>1, LiesStays
    <3>3. CASE disk'[f] = original[f]
      BY <3>3 DEF Lies
    <3>4. QED
      BY <3>1, <3>2, <3>3
  <2>4. QED
    BY <2>1, <2>2, <2>3 DEF OriginalsOk
<1>4. QED
  BY <1>1, <1>2, <1>3, PutsTrivial DEF PlayersHold

LEMMA RestoreTakenPlayers == ASSUME Players, RestoreTaken PROVE PlayersHold'
<1>1. /\ op.at = "remove" /\ op' \in RemoveOp /\ op'.at = "remove" /\ SameDealings
      /\ op'.unpatch = op.unpatch /\ op'.backup = Save1(op.backup, registry.area)
      /\ op'.view = Without(op.view, registry.area) /\ op.view \in View /\ op \in RemoveOp
  BY RestoreTakenShape, OpIs DEF Players, Undoable, RestoreTaken, Removal
<1>2. op.backup \in Backup
  BY <1>1 DEF RemoveOp
<1>3. \A f \in File : /\ op'.backup[f] = IF f \in registry.area /\ op.backup[f] = Blank
                                         THEN disk[f] ELSE op.backup[f]
                      /\ op'.view.files[f] \in {None, op.view.files[f]}
  BY <1>1, <1>2, Save1IsTyped, WithoutIsTyped DEF Players, Undoable, Types
<1>4. /\ \A f \in File : mine'[f] = IF f \in registry.area THEN None ELSE mine[f]
      /\ \A f \in File : f \notin registry.area => disk'[f] = disk[f]
      /\ UNCHANGED <<registry, records, original, zips, archives, reader>>
  BY DEF RestoreTaken, stores
<1>5. \A f \in File : mine'[f] # None /\ mine[f] # None =>
        /\ op'.view.files[f] = None \/ op'.view.files[f].sha # mine[f]
        /\ disk'[f] = disk[f] /\ op'.backup[f] = op.backup[f]
  BY <1>1, <1>3, <1>4, NoRecordOf DEF Players
<1>6. QED
  BY <1>1, <1>4, <1>5, RemoveStepPlayers

LEMMA UnpatchPlayers == ASSUME Players, NEW f \in File, Unpatch(f) PROVE PlayersHold'
<1> DEFINE e == op.view.files[f]
           puts == /\ e # None /\ disk[f] # None
                   /\ e.owners \cap Is("patch") = {} /\ disk[f] = e.sha
           next == OwnedAgain(e, f)
<1>1. /\ op.at = "remove" /\ op' \in RemoveOp /\ op'.at = "remove" /\ SameDealings
      /\ op'.unpatch = op.unpatch \ {f} /\ f \in op.unpatch /\ op \in RemoveOp
      /\ op'.backup = (IF puts THEN Save1(op.backup, {f}) ELSE op.backup)
      /\ \A g \in File : g # f => op'.view.files[g] = op.view.files[g]
      /\ ~puts => op'.view.files[f] = e
      /\ puts => op'.view.files[f] = next
  BY UnpatchShape, OpIs DEF Players, Undoable, Unpatch, Removal
<1>2. /\ disk' = IF puts THEN [disk EXCEPT ![f] = original[f]] ELSE disk
      /\ mine' = IF puts /\ next # None THEN [mine EXCEPT ![f] = None] ELSE mine
      /\ UNCHANGED <<registry, records, original, zips, archives, reader>>
  BY DEF Unpatch, stores
<1>3. mine[f] # None /\ puts => disk[f] # mine[f]
  BY <1>1, NoRecordOf DEF Players
<1>4. original[f] # None
  BY <1>1 DEF Players, OriginalsOk
<1> HIDE DEF puts, next
<1>5. op.backup \in Backup
  BY <1>1 DEF RemoveOp
<1>6. \A g \in File : op'.backup[g] = IF puts /\ g = f /\ op.backup[g] = Blank THEN disk[g] ELSE op.backup[g]
  BY <1>1, <1>5, Save1IsTyped DEF Players, Undoable, Types
<1>7. \A g \in File : /\ disk'[g] = IF puts /\ g = f THEN original[f] ELSE disk[g]
                      /\ mine'[g] = IF puts /\ next # None /\ g = f THEN None ELSE mine[g]
  BY <1>2 DEF Players, Undoable, Types, Slot
<1>8. \A g \in File : mine'[g] # None /\ mine[g] # None =>
           op'.view.files[g] = None \/ op'.view.files[g].sha # mine[g]
  BY <1>1, <1>7, NoRecordOf DEF Players
<1>9. \A g \in File : mine'[g] # None /\ mine[g] # None =>
           \/ disk'[g] = disk[g] /\ op'.backup[g] = op.backup[g]
           \/ disk[g] # mine[g] /\ disk'[g] = original[g] /\ original[g] # None
  BY <1>3, <1>4, <1>6, <1>7
<1>10. \A g \in File : mine'[g] \in {None, mine[g]}
  BY <1>7
<1>11. QED
  BY <1>1, <1>2, <1>8, <1>9, <1>10, RemoveStepPlayers

LEMMA UnlinkPlayers == ASSUME Players, NEW f \in File, Unlink(f) PROVE PlayersHold'
<1> DEFINE ours == disk[f] # None /\ disk[f] = op.view.files[f].sha
<1>1. /\ op.at = "remove" /\ op' \in RemoveOp /\ op'.at = "remove" /\ SameDealings
      /\ op'.unpatch = op.unpatch /\ op \in RemoveOp
      /\ op'.backup = (IF ours THEN Save1(op.backup, {f}) ELSE op.backup)
      /\ \A g \in File : op'.view.files[g] \in {None, op.view.files[g]}
  BY UnlinkShape, OpIs DEF Players, Undoable, Unlink, Unlinking, Removal
<1>2. /\ disk' = IF ours THEN [disk EXCEPT ![f] = None] ELSE disk
      /\ mine' = IF ours THEN [mine EXCEPT ![f] = None] ELSE mine
      /\ UNCHANGED <<registry, records, original, zips, archives, reader>>
  BY DEF Unlink, stores
<1> HIDE DEF ours
<1>3. op.backup \in Backup
  BY <1>1 DEF RemoveOp
<1>4. \A g \in File : op'.backup[g] = IF ours /\ g = f /\ op.backup[g] = Blank THEN disk[g] ELSE op.backup[g]
  BY <1>1, <1>3, Save1IsTyped DEF Players, Undoable, Types
<1>5. \A g \in File : /\ disk'[g] = IF ours /\ g = f THEN None ELSE disk[g]
                      /\ mine'[g] = IF ours /\ g = f THEN None ELSE mine[g]
  BY <1>2 DEF Players, Undoable, Types, Slot
<1>6. \A g \in File : mine'[g] # None /\ mine[g] # None =>
        /\ op'.view.files[g] = None \/ op'.view.files[g].sha # mine[g]
        /\ disk'[g] = disk[g] /\ op'.backup[g] = op.backup[g]
  BY <1>1, <1>4, <1>5, NoRecordOf DEF Players
<1>7. \A g \in File : mine'[g] \in {None, mine[g]}
  BY <1>5
<1>8. QED
  BY <1>1, <1>2, <1>6, <1>7, RemoveStepPlayers

LEMMA KeepLoaderPlayers == ASSUME Players, NEW l \in Package, KeepLoader(l) PROVE PlayersHold'
<1>1. PICK stuck \in SUBSET Occupied(l) \ {{}} :
        LET moved == Occupied(l) \ stuck
            files == UNION (moved \cup Clashing(l))
            payload == Gathered(l, files)
            d == Emptied(l, files)
        IN /\ disk' = IF moved = {} THEN d ELSE Returned(d, payload)
           /\ archives' = [archives EXCEPT ![l].payload =
                             IF moved = {} THEN payload ELSE Left(d, payload)]
  BY DEF KeepLoader
<1> DEFINE moved == Occupied(l) \ stuck
           files == UNION (moved \cup Clashing(l))
           payload == Gathered(l, files)
           d == Emptied(l, files)
           rest == IF moved = {} THEN payload ELSE Left(d, payload)
<1>2. /\ payload \in Slot /\ d \in Slot
      /\ \A f \in File : \A c : c # None /\ c \in {disk[f], archives[l].payload[f]} => c \in {payload[f], d[f]}
  BY GatheredIsTyped, GatherKeeps DEF Players, Undoable
<1>3. /\ disk' = IF moved = {} THEN d ELSE Returned(d, payload)
      /\ archives' = [archives EXCEPT ![l].payload = rest]
  BY <1>1
<1> HIDE DEF payload, d, moved
<1>4. rest \in Slot
  BY <1>2, ReturnedIsTyped
<1>5. \A f \in File : \A c : c # None /\ c \in {payload[f], d[f]} => c \in {disk'[f], rest[f]}
  BY <1>2, <1>3, ReturnKeeps
<1> HIDE DEF rest
<1>6. /\ archives'[l].payload = rest
      /\ \A k \in Package : /\ archives'[k].manifest = archives[k].manifest
                            /\ k # l => archives'[k].payload = archives[k].payload
  BY <1>3, <1>4, ArchiveIsFilled DEF Players, Undoable
<1>7. UNCHANGED <<registry, records, original, zips, install, reader, mine, asked>>
  BY DEF KeepLoader
<1>8. PlayerFilesSurvive'
  <2>1. ASSUME NEW f \in File, mine[f] # None, disk[f] = mine[f] \/ Stowed(archives, f, mine[f])
        PROVE Safe(disk', original', zips', archives', f, mine[f])
    BY <1>2, <1>5, <1>6, <2>1 DEF Safe, Stowed
  <2>2. ASSUME NEW f \in File, original[f] = mine[f] \/ Zipped1(zips, f, mine[f])
        PROVE Safe(disk', original', zips', archives', f, mine[f])
    BY <1>7, <2>2 DEF Safe
  <2>3. PlayerFilesSurvive
    BY DEF Players
  <2>4. QED
    BY <1>7, <2>1, <2>2, <2>3, SurviveStays
<1>9. op \in RemoveOp /\ op.at = "remove" /\ op.view \in View /\ Bare(op.view.packages)
  BY OpIs DEF KeepLoader, Moving, Removal, Players, Undoable, Types, AllBare
<1>10. op.kept \cup {l} \in SUBSET Package
  BY <1>9 DEF RemoveOp
<1>11. /\ op'.at = "remove" /\ op'.kept = op.kept \cup {l}
       /\ op'.unpatch = op.unpatch /\ op'.backup = op.backup /\ op'.view.files = op.view.files
  BY <1>9, <1>10, DealtIsTyped DEF KeepLoader, Players, Undoable
<1>12. Unrecorded'
  BY <1>6, <1>7, <1>9, <1>11, NoRecordOf, UnrecordedStays DEF Players, Undoable
<1>13. OriginalsOk'
  BY <1>7, <1>9, <1>11 DEF OriginalsOk, Players
<1>14. QED
  BY <1>8, <1>11, <1>12, <1>13, PutsTrivial DEF PlayersHold

LEMMA MoveLoaderPlayers == ASSUME Players, NEW l \in Package, MoveLoader(l) PROVE PlayersHold'
<1>1. /\ op.at = "remove"
      /\ \A k \in Package : k # l => archives'[k].payload = archives[k].payload
      /\ \A f \in File :
           /\ f \in UNION Occupied(l) => (disk[f] # None => archives'[l].payload[f] = disk[f])
           /\ f \notin UNION Occupied(l) => disk'[f] = disk[f]
           /\ archives[l].payload[f] # None => archives'[l].payload[f] = archives[l].payload[f]
  BY MoveLoaderDisk DEF Players
<1>2. /\ op'.at = "remove" /\ op'.kept = op.kept /\ op'.unpatch = op.unpatch
      /\ op'.backup = op.backup /\ op'.view.files = op.view.files
  BY MoveLoaderShape DEF Players, Undoable
<1>3. /\ UNCHANGED <<registry, records, original, zips, install, reader, used, suspect, mine, asked>>
      /\ Gathered(l, UNION Occupied(l)) \in Slot
      /\ archives' = [archives EXCEPT ![l].payload = Gathered(l, UNION Occupied(l))]
  BY GatheredIsTyped DEF MoveLoader, history, Players, Undoable
<1>4. \A k \in Package : archives'[k].manifest = archives[k].manifest
  BY <1>3, ArchiveIsFilled DEF Players, Undoable
<1>5. PlayerFilesSurvive'
  <2>1. ASSUME NEW f \in File, mine[f] # None, disk[f] = mine[f] \/ Stowed(archives, f, mine[f])
        PROVE Safe(disk', original', zips', archives', f, mine[f])
    BY <1>1, <2>1 DEF Safe, Stowed
  <2>2. ASSUME NEW f \in File, original[f] = mine[f] \/ Zipped1(zips, f, mine[f])
        PROVE Safe(disk', original', zips', archives', f, mine[f])
    BY <1>3, <2>2 DEF Safe
  <2>3. PlayerFilesSurvive
    BY DEF Players
  <2>4. QED
    BY <1>3, <2>1, <2>2, <2>3, SurviveStays
<1>6. Unrecorded'
  BY <1>1, <1>2, <1>3, <1>4, NoRecordOf, UnrecordedStays DEF Players, Undoable
<1>7. OriginalsOk'
  <2>1. \A f \in File : mine[f] # None /\ op.backup[f] # Blank => original[f] # None
    BY <1>1 DEF Players, OriginalsOk
  <2>2. ASSUME op.kept = {} PROVE OriginalsLie'
    <3> SUFFICES ASSUME NEW f \in File, mine[f] # None, op.backup[f] # Blank
                 PROVE Lies(disk', archives', op'.moved, f, original[f])
      BY <1>2, <1>3 DEF OriginalsLie
    <3>1. Lies(disk, archives, op.moved, f, original[f])
      BY <1>1, <2>2 DEF Players, OriginalsOk, OriginalsLie
    <3>2. QED
      BY <2>1, <2>2, <3>1, MoveKeepsLies DEF Players
  <2>3. QED
    BY <1>1, <1>2, <1>3, <2>1, <2>2 DEF Players, OriginalsOk
<1>8. QED
  BY <1>2, <1>5, <1>6, <1>7, PutsTrivial DEF PlayersHold

LEMMA WriteManifestPlayers ==
  ASSUME Players, NEW l \in Package, NEW files \in SUBSET File, WriteManifest(l, files) PROVE PlayersHold'
<1>1. op.at = "remove" /\ op \in RemoveOp /\ op.moved \in Seq(Package)
  BY OpIs DEF WriteManifest, Removal, Players, Undoable, RemoveOp
<1>2. /\ op'.at = "remove" /\ op'.kept = op.kept /\ op'.unpatch = op.unpatch
      /\ op'.backup = op.backup /\ op'.moved = op.moved /\ op'.view.files = Rest(files).files
      /\ archives'[l].manifest = Manifest(l, files)
      /\ \A k \in Package : /\ archives'[k].payload = archives[k].payload
                            /\ k # l => archives'[k].manifest = archives[k].manifest
  BY WriteManifestShape DEF Players, Undoable
<1>3. UNCHANGED <<registry, disk, records, original, zips, install, reader, mine>>
  BY DEF WriteManifest, history
<1>4. /\ \A f \in File : \/ Manifest(l, files).files[f] = op.view.files[f]
                         \/ Manifest(l, files).files[f] = None
                         \/ archives[l].manifest # None /\ Manifest(l, files).files[f] = archives[l].manifest.files[f]
      /\ \A f \in File : Rest(files).files[f] \in {None, op.view.files[f]}
  BY <1>1, ManifestIsTyped DEF Players, Undoable
<1>5. PlayerFilesSurvive' /\ Unrecorded'
  <2> SUFFICES ASSUME NEW f \in File, mine[f] # None
               PROVE /\ records'.sha[f] # mine[f]
                     /\ reader' # None => reader'.read.sha[f] # mine[f]
                     /\ \A k \in Package : archives'[k].manifest # None /\ archives'[k].manifest.files[f] # None =>
                          archives'[k].manifest.files[f].sha # mine[f]
                     /\ op'.at # "idle" => op'.view.files[f] = None \/ op'.view.files[f].sha # mine[f]
    BY <1>2, <1>3, QuietStepPlayers
  <2>1. /\ records.sha[f] # mine[f]
        /\ reader # None => reader.read.sha[f] # mine[f]
        /\ \A k \in Package : archives[k].manifest # None /\ archives[k].manifest.files[f] # None =>
             archives[k].manifest.files[f].sha # mine[f]
        /\ op.view.files[f] = None \/ op.view.files[f].sha # mine[f]
    BY <1>1, NoRecordOf DEF Players
  <2> HIDE DEF Manifest, Rest
  <2>2. \A k \in Package : archives'[k].manifest # None /\ archives'[k].manifest.files[f] # None =>
          archives'[k].manifest.files[f].sha # mine[f]
    BY <1>2, <1>4, <2>1
  <2>3. QED
    BY <1>2, <1>3, <1>4, <2>1, <2>2
<1>6. OriginalsOk'
  <2>1. \A i \in 1..Len(op.moved) : archives'[op.moved[i]].payload = archives[op.moved[i]].payload
    BY <1>1, <1>2
  <2>2. OriginalsLie => OriginalsLie'
    BY <1>2, <1>3, <2>1, LiesStays DEF OriginalsLie
  <2>3. QED
    BY <1>1, <1>2, <1>3, <2>2 DEF Players, OriginalsOk
<1>7. QED
  BY <1>2, <1>5, <1>6, PutsTrivial DEF PlayersHold

LEMMA SaveRemovePlayers == ASSUME Players, SaveRemove PROVE PlayersHold'
<1>1. op \in RemoveOp /\ op.at = "remove"
  BY OpIs DEF SaveRemove, Unlinking, Removal, Players, Undoable
<1>2. op'.at = "prune" /\ op'.view = op.view
  BY <1>1 DEF SaveRemove, RemoveOp
<1>3. records' = Stored(op.view) /\ UNCHANGED <<registry, disk, original, zips, archives, reader, mine>>
  BY DEF SaveRemove, stores, history
<1>4. PlayerFilesSurvive' /\ Unrecorded'
  BY <1>1, <1>2, <1>3, StoredTellsNot, NoRecordOf, QuietStepPlayers DEF Players
<1>5. QED
  BY <1>2, <1>4, StepOut DEF PlayersHold

LEMMA PruneOriginalsPlayers == ASSUME Players, PruneOriginals PROVE PlayersHold'
<1>1. op' = Idle /\ UNCHANGED <<disk, records, zips, archives, reader>>
  BY DEF PruneOriginals
<1>2. \A f \in File : /\ original'[f] \in {None, original[f]} /\ mine'[f] \in {None, mine[f]}
                      /\ mine'[f] # None /\ original[f] = mine[f] /\ disk[f] # mine[f] => original'[f] = original[f]
  BY DEF PruneOriginals
<1>3. PlayerFilesSurvive'
  <2>1. PlayerFilesSurvive
    BY DEF Players
  <2>2. QED
    BY <1>1, <1>2, <2>1, SurviveStays DEF Safe
<1>4. Unrecorded'
  BY <1>1, <1>2, IdleIsTyped, NoRecordOf, UnrecordedStays DEF Players, Undoable
<1>5. QED
  BY <1>1, <1>3, <1>4, StepOut, IdleIsTyped DEF PlayersHold

\* Between two transactions, or where one ends: what records there are say nothing of the
\* player's files, and the stores are as they were.
LEMMA IdlePlayers ==
  ASSUME Players, op' = Idle, UNCHANGED <<disk, original, zips, archives, mine>>,
         reader' \in {None, reader},
         \A f \in File : mine[f] # None => records'.sha[f] # mine[f]
  PROVE PlayersHold'
<1>1. PlayerFilesSurvive' /\ Unrecorded'
  BY NoRecordOf, QuietStepPlayers, IdleIsTyped DEF Players
<1>2. QED
  BY <1>1, StepOut, IdleIsTyped DEF PlayersHold

LEMMA DisplacePlayers == ASSUME Players, NEW p \in Package, Displace(p) PROVE PlayersHold'
<1>1. op = Idle /\ UNCHANGED <<registry, disk, records, original, zips, archives, reader, mine>>
  BY DEF Displace, stores
<1>2. CASE CanRemove(p)
  BY <1>1, <1>2, StartRemovePlayers DEF Displace
<1>3. CASE ~CanRemove(p)
  <2>1. op' = Idle
    BY <1>1, <1>3 DEF Displace
  <2>2. QED
    BY <1>1, <2>1, IdlePlayers, NoRecordOf DEF Players
<1>4. QED
  BY <1>2, <1>3

LEMMA BeginPlayers == ASSUME Players, Begin PROVE PlayersHold'
<1>1. ASSUME NEW p \in Package, BeginRemove(p) PROVE PlayersHold'
  BY <1>1, StartRemovePlayers DEF BeginRemove, stores
<1>2. ASSUME NEW p \in Package, NEW force \in BOOLEAN, NEW release \in 1..Newest(p),
             BeginInstall(p, release, force)
      PROVE PlayersHold'
  <2>1. op' = Idle /\ UNCHANGED <<disk, records, original, zips, archives, reader, mine>>
    BY <1>2 DEF BeginInstall, Quiet, stores, history
  <2>2. QED
    BY <2>1, IdlePlayers, NoRecordOf DEF Players
<1>3. QED
  BY <1>1, <1>2 DEF Begin

\* An exception: what it puts back from the saved copies goes over nothing of the player's
\* unless he has been told.
LEMMA FailLoses ==
  ASSUME Players, NEW lost \in SUBSET File, Fail(lost), NEW f \in File, mine[f] # None,
         Undone[f] = mine[f], disk'[f] # mine[f]
  PROVE mine'[f] = None \/ original[f] = mine[f]
<1>1. /\ op.at \in {"apply", "remove"} /\ op.backup[f] # Blank
      /\ disk'[f] = op.backup[f]
  BY FailShape DEF Players, Undoable
<1>2. CASE op.kept # {}
  BY <1>2 DEF Fail
<1>3. CASE op.at = "apply"
  <2>1. Returning = <<>>
    BY <1>3 DEF Returning, Removal
  <2>2. Undone[f] = disk[f]
    BY <1>1, <2>1, UndoneIs DEF Players, Undoable
  <2>3. QED
    BY <1>1, <1>3, <2>2 DEF Players, PutsAreTold
<1>4. CASE op.at = "remove" /\ op.kept = {}
  <2>1. original[f] # None /\ Lies(disk, archives, op.moved, f, original[f])
    BY <1>1, <1>4 DEF Players, OriginalsOk, OriginalsLie
  <2>2. CASE disk[f] = original[f]
    BY <1>1, <2>1, <2>2, UndoneIs DEF Players, Undoable
  <2>3. CASE disk[f] = None /\ Carried(archives, op.moved, f, original[f])
    <3>1. Returning \in {<<>>, op.moved}
          /\ (Returning = <<>> => Undone[f] = disk[f])
      BY <1>1, ReturningIsTyped, UndoneIs DEF Players, Undoable
    <3>2. Returning = op.moved
      BY <2>3, <3>1
    <3>3. PICK i \in 1..Len(op.moved) :
            /\ archives[op.moved[i]].payload[f] = original[f]
            /\ \A j \in 1..Len(op.moved) : j < i => archives[op.moved[j]].payload[f] = None
      BY <2>3 DEF Carried
    <3>4. Undone[f] = original[f]
      BY <1>1, <2>1, <2>3, <3>2, <3>3, UndoneIs DEF Players, Undoable
    <3>5. QED
      BY <3>4
  <2>4. QED
    BY <2>1, <2>2, <2>3 DEF Lies
<1>5. QED
  BY <1>1, <1>2, <1>3, <1>4

LEMMA FailPlayers == ASSUME Players, NEW lost \in SUBSET File, Fail(lost) PROVE PlayersHold'
<1>1. /\ op.at \in {"apply", "remove"} /\ op' = Idle
      /\ \A l \in Package : archives'[l] = IF \E i \in 1..Len(Returning) : Returning[i] = l
                                           THEN Cleared(l) ELSE archives[l]
      /\ UNCHANGED <<registry, records, original, zips, reader>>
  BY FailShape DEF Players, Undoable
<1>2. /\ \A l \in Package : /\ Cleared(l).manifest \in {None, archives[l].manifest}
                            /\ Cleared(l).payload = Left(Undone, archives[l].payload)
                            /\ archives[l].payload \in Slot
      /\ Undone \in Slot
  BY <1>1, ClearedIsTyped, UndoneIs DEF Players, Undoable, Types, Archive
<1>3. \A f \in File : mine'[f] \in {None, mine[f]}
  BY DEF Fail
<1>4. ASSUME NEW f \in File, mine'[f] # None, mine[f] # None, Undone[f] = mine[f]
      PROVE Safe(disk', original', zips', archives', f, mine[f])
  BY <1>1, <1>4, FailLoses DEF Safe
<1>5. ASSUME NEW f \in File, mine'[f] # None, mine[f] # None, Stowed(archives, f, mine[f])
      PROVE Safe(disk', original', zips', archives', f, mine[f])
  <2>1. PICK l \in Package : archives[l].payload[f] = mine[f]
    BY <1>5 DEF Stowed
  <2>2. CASE ~\E i \in 1..Len(Returning) : Returning[i] = l
    BY <1>1, <2>1, <2>2 DEF Safe, Stowed
  <2>3. CASE \E i \in 1..Len(Returning) : Returning[i] = l
    <3>1. archives'[l].payload[f] = Left(Undone, archives[l].payload)[f]
      BY <1>1, <1>2, <2>3
    <3>2. Undone[f] # None
      BY <1>1, <1>5, <2>1, <2>3, UndoneIs DEF Players, Undoable
    <3>3. Undone[f] = mine[f] \/ Left(Undone, archives[l].payload)[f] = mine[f]
      BY <1>2, <1>5, <2>1, <3>2, ReturnedIsTyped
    <3>4. QED
      BY <1>4, <1>5, <3>1, <3>3 DEF Safe, Stowed
  <2>4. QED
    BY <2>2, <2>3
<1>6. ASSUME NEW f \in File, mine'[f] # None, mine[f] # None, disk[f] = mine[f]
      PROVE Safe(disk', original', zips', archives', f, mine[f])
  <2>1. Undone[f] = mine[f]
    BY <1>1, <1>6, UndoneIs DEF Players, Undoable
  <2>2. QED
    BY <1>4, <1>6, <2>1
<1>7. PlayerFilesSurvive'
  <2>1. PlayerFilesSurvive
    BY DEF Players
  <2>2. ASSUME NEW f \in File, original[f] = mine[f] \/ Zipped1(zips, f, mine[f])
        PROVE Safe(disk', original', zips', archives', f, mine[f])
    BY <1>1, <2>2 DEF Safe
  <2>3. QED
    BY <1>3, <1>5, <1>6, <2>1, <2>2, SurviveStays
<1>8. Unrecorded'
  <2>1. \A l \in Package : archives'[l].manifest \in {None, archives[l].manifest}
    BY <1>1, <1>2
  <2>2. QED
    BY <1>1, <1>3, <2>1, IdleIsTyped, NoRecordOf, UnrecordedStays DEF Players, Undoable
<1>9. QED
  BY <1>1, <1>7, <1>8, StepOut, IdleIsTyped DEF PlayersHold

LEMMA ReaderLoadPlayers == ASSUME Players, ReaderLoad PROVE PlayersHold'
<1>1. reader' = [read |-> records]
      /\ UNCHANGED <<registry, disk, records, original, zips, archives, install, op, mine>>
  BY DEF ReaderLoad, stores, history
<1>2. PlayerFilesSurvive' /\ Unrecorded'
  BY <1>1, NoRecordOf, QuietStepPlayers DEF Players
<1>3. PutsAreTold' /\ OriginalsOk'
  BY <1>1, SameIncoming DEF Players, PutsAreTold, OriginalsOk, OriginalsLie
<1>4. QED
  BY <1>2, <1>3 DEF PlayersHold

LEMMA ReaderSavePlayers == ASSUME Players, ReaderSave PROVE PlayersHold'
<1>1. reader # None /\ reader' = None
      /\ UNCHANGED <<registry, disk, original, zips, archives, install, op, mine>>
  BY DEF ReaderSave, stores
<1>2. reader.read \in Records /\ Bare(reader.read.packages)
  BY <1>1 DEF Players, Undoable, Types, AllBare
<1>3. \A f \in File : records'.sha[f] \in {None, Blank, records.sha[f], reader.read.sha[f]}
  BY <1>2, ReconciledIsTyped DEF ReaderSave
<1>4. \A f \in File : mine[f] # None => records'.sha[f] # mine[f]
  BY <1>1, <1>3, NoRecordOf, MineApart DEF Players, Undoable
<1>5. PlayerFilesSurvive' /\ Unrecorded'
  BY <1>1, <1>4, NoRecordOf, QuietStepPlayers DEF Players
<1>6. PutsAreTold' /\ OriginalsOk'
  BY <1>1, SameIncoming DEF Players, PutsAreTold, OriginalsOk, OriginalsLie
<1>7. QED
  BY <1>5, <1>6 DEF PlayersHold

LEMMA TouchPlayers ==
  ASSUME Players, NEW f \in File, NEW c \in Value \cup {None}, Touch(f, c) PROVE PlayersHold'
<1>1. /\ op' = Idle /\ UNCHANGED <<records, original, zips, archives, reader>>
      /\ disk' = [disk EXCEPT ![f] = c]
      /\ mine' = [mine EXCEPT ![f] = IF c \in UserContent \ Digests(f) THEN c ELSE None]
  BY DEF Touch, Quiet, stores
<1>2. /\ disk'[f] = c /\ mine'[f] = IF c \in UserContent \ Digests(f) THEN c ELSE None
      /\ \A g \in File : g # f => disk'[g] = disk[g] /\ mine'[g] = mine[g]
  BY <1>1 DEF Players, Undoable, Types, Slot
<1>3. PlayerFilesSurvive'
  <2> SUFFICES ASSUME NEW g \in File, mine'[g] # None
               PROVE Safe(disk', original', zips', archives', g, mine'[g])
    BY SurviveNextIs
  <2>1. CASE g = f
    BY <1>2, <2>1 DEF Safe
  <2>2. CASE g # f
    <3>1. Safe(disk, original, zips, archives, g, mine[g])
      BY <1>2, <2>2, SurviveIs DEF Players
    <3>2. QED
      BY <1>1, <1>2, <2>2, <3>1 DEF Safe
  <2>3. QED
    BY <2>1, <2>2
<1>4. Unrecorded'
  <2> SUFFICES ASSUME NEW g \in File, mine'[g] # None PROVE mine'[g] \notin Digests(g)'
    BY <1>1, IdleIsTyped DEF Unrecorded
  <2>1. Digests(g)' = Digests(g)
    BY <1>1 DEF Digests
  <2>2. CASE g = f
    BY <1>2, <2>1, <2>2
  <2>3. CASE g # f
    BY <1>2, <2>1, <2>3 DEF Players, Unrecorded
  <2>4. QED
    BY <2>2, <2>3
<1>5. QED
  BY <1>1, <1>3, <1>4, StepOut, IdleIsTyped DEF PlayersHold

LEMMA OutsidePlayers == ASSUME Players, Outside PROVE PlayersHold'
<1>1. ASSUME NEW lost \in SUBSET File, Fail(lost) PROVE PlayersHold'
  BY <1>1, FailPlayers
<1>2. CASE Crash
  <2>1. op' = Idle /\ reader' = None /\ UNCHANGED <<disk, records, original, zips, archives, mine>>
    BY <1>2 DEF Crash, stores
  <2>2. QED
    BY <2>1, IdlePlayers, NoRecordOf DEF Players
<1>3. CASE ReaderLoad
  BY <1>3, ReaderLoadPlayers
<1>4. CASE ReaderSave
  BY <1>4, ReaderSavePlayers
<1>5. ASSUME NEW p \in Package, AdoptLoader(p) PROVE PlayersHold'
  <2>1. op' = Idle /\ UNCHANGED <<disk, original, zips, archives, reader, mine>>
    BY <1>5 DEF AdoptLoader, Quiet, stores
  <2>2. records'.sha = records.sha
    BY <1>5, AdoptedLoaderIs DEF Players, Undoable
  <2>3. QED
    BY <2>1, <2>2, IdlePlayers, NoRecordOf DEF Players
<1>6. ASSUME NEW p \in Package, NEW release \in 1..Newest(p), Adopt(p, release) PROVE PlayersHold'
  <2>1. op' = Idle /\ UNCHANGED <<disk, original, zips, archives, reader, mine>>
    BY <1>6 DEF Adopt, Quiet, stores
  <2>2. \A f \in File : records'.sha[f] = records.sha[f] \/ records'.sha[f] \in Content
    BY <1>6, AdoptedIs DEF Players, Undoable
  <2>3. \A f \in File : mine[f] # None => records'.sha[f] # mine[f]
    BY <2>2, NoRecordOf, MineApart DEF Players, Undoable
  <2>4. QED
    BY <2>1, <2>3, IdlePlayers
<1>7. ASSUME NEW f \in File, NEW c \in Value \cup {None}, Touch(f, c) PROVE PlayersHold'
  BY <1>7, TouchPlayers
<1>8. QED
  BY <1>1, <1>2, <1>3, <1>4, <1>5, <1>6, <1>7 DEF Outside

LEMMA NextPlayers == ASSUME Players, InstallerNext PROVE Players'
<1>1. Undoable'
  BY NextUndo DEF Players
<1>2. ASSUME Begin PROVE PlayersHold'
  BY <1>2, BeginPlayers
<1>3. ASSUME Applying PROVE PlayersHold'
  BY <1>3, ApplyBeginPlayers, CheckPlanPlayers, ClearTakenPlayers, SaveInstallPlayers,
     RestoreArchivePlayers, DeleteObsoletePlayers, ArchiveOriginalPlayers, PutFilePlayers DEF Applying
<1>4. ASSUME RemoveSteps PROVE PlayersHold'
  BY <1>4, RestoreTakenPlayers, SaveRemovePlayers, PruneOriginalsPlayers, DisplacePlayers,
     KeepLoaderPlayers, MoveLoaderPlayers, UnpatchPlayers, UnlinkPlayers, WriteManifestPlayers
     DEF RemoveSteps
<1>5. ASSUME Outside PROVE PlayersHold'
  BY <1>5, OutsidePlayers
<1>6. PlayersHold'
  BY <1>2, <1>3, <1>4, <1>5 DEF InstallerNext
<1>7. QED
  BY <1>1, <1>6 DEF Players, PlayersHold

LEMMA StutterPlayers == ASSUME Players, UNCHANGED vars PROVE Players'
<1>1. Undoable'
  BY StutterUndo DEF Players
<1>2. UNCHANGED <<registry, disk, records, original, zips, archives, install, op, reader, mine>>
  BY DEF vars
<1>3. PlayersHold'
  BY <1>2, SamePlayers
<1>4. QED
  BY <1>1, <1>3 DEF Players, PlayersHold

LEMMA InitPlayers == ASSUME InstallerInit PROVE Players
<1>1. Undoable
  BY InitUndo
<1>2. op = Idle /\ \A f \in File : mine[f] = None
  BY DEF InstallerInit, NoSlot
<1>3. QED
  BY <1>1, <1>2, IdleIsTyped DEF Players, PlayerFilesSurvive, Unrecorded, PutsAreTold, OriginalsOk

\* Whatever the index, the operations, the faults, the lost copies and the crashes: a content the
\* player left in a file is in place, among the originals, in a zip or in a loader's archive until
\* a step that says so takes it.
THEOREM PlayerFilesAreKept == InstallerSpec => []PlayerFilesSurvive
<1>1. InstallerInit => Players
  BY InitPlayers
<1>2. Players /\ [InstallerNext]_vars => Players'
  BY NextPlayers, StutterPlayers
<1>3. Players => PlayerFilesSurvive
  BY DEF Players
<1>4. QED
  BY <1>1, <1>2, <1>3, PTL DEF InstallerSpec

(* ------------------------ what the player asked for -------------------- *)
\* Recorded, in an archive, or in what an install is about to save.
Accounted(p, r, a, o) ==
  \/ r.packages[p] # None
  \/ Archived(a, p)
  \/ o.at \in {"restore", "apply"} /\ o.view.packages[p] # None
AskedOk == RequestsRecorded /\ RootIsPlanned /\ RestoringKeeps /\ ApplyingKeeps /\ RemovingKeeps

Requests == ~ConcurrentReader /\ Types /\ ReaderWaits /\ AskedIsAccountedFor /\ AskedOk
RequestsHold == ReaderWaits /\ AskedIsAccountedFor /\ AskedOk

LEMMA AccountedIs ==
  AskedIsAccountedFor <=> \A p \in asked : Accounted(p, records, archives, op)
BY DEF AskedIsAccountedFor, Accounted, Archived

LEMMA AccountedNextIs ==
  AskedIsAccountedFor' <=> \A p \in asked' : Accounted(p, records', archives', op')
BY DEF AskedIsAccountedFor, Accounted, Archived

\* A package somebody asked for is never one that no request reaches.
LEMMA OrphansSpare ==
  ASSUME NEW packages, NEW p \in Package, packages[p] # None, packages[p].requested
  PROVE p \notin Orphans(packages)
<1> DEFINE good(S) == \A q \in S : packages[q].requested \/ Requiring(packages, q) \cap S # {}
<1>1. {p} \in SUBSET Present(packages) /\ good({p})
  BY DEF Present
<1>2. p \in UNION {S \in SUBSET Present(packages) : good(S)}
  BY <1>1
<1>3. QED
  BY <1>2 DEF Orphans

\* What goes with a package that is removed was not asked for.
LEMMA RemovingSpares ==
  ASSUME NEW packages, NEW p \in Package, packages[p] # None, NEW q \in Removing(packages, p), q # p
  PROVE q \in Package /\ packages[q] # None /\ ~packages[q].requested
<1> DEFINE Closed(S) == \A x \in S : \A d \in packages[x].deps \cap Present(packages) :
                          (~packages[d].requested /\ Requiring(packages, d) \subseteq S) => d \in S
           T == {x \in Present(packages) : x = p \/ ~packages[x].requested}
<1>1. T \in SUBSET Present(packages) /\ p \in T /\ Closed(T)
  BY DEF Present
<1>2. q \in Present(packages) /\ \A S \in SUBSET Present(packages) : p \in S /\ Closed(S) => q \in S
  BY DEF Removing
<1> HIDE DEF Closed
<1>3. q \in T
  BY <1>1, <1>2
<1>4. QED
  BY <1>3 DEF Present

\* While an operation is under way nothing has been read by the reader.
LEMMA ReaderAway ==
  ASSUME Requests, op # Idle \/ install # None
  PROVE reader = None
BY DEF Requests, ReaderWaits

\* A step of a transaction that works on the files alone.
LEMMA SameRequests ==
  ASSUME Requests, op # Idle, op'.at = op.at, op'.view.packages = op.view.packages,
         op.at \in {"restore", "apply"} => op'.restored = op.restored,
         \A l \in Package : archives'[l].manifest = archives[l].manifest,
         UNCHANGED <<registry, records, install, reader, asked>>
  PROVE RequestsHold'
<1>1. ReaderWaits'
  BY ReaderAway DEF ReaderWaits
<1>2. \A p : Archived(archives', p) <=> Archived(archives, p)
  BY DEF Archived
<1>3. AskedIsAccountedFor'
  BY <1>2, AccountedIs, AccountedNextIs DEF Requests, Accounted
<1>4. RequestsRecorded' /\ RootIsPlanned'
  BY DEF Requests, AskedOk, RequestsRecorded, RootIsPlanned
<1>5. RestoringKeeps'
  BY DEF Requests, AskedOk, RestoringKeeps
<1>6. ApplyingKeeps'
  <2>1. \A p : p \in Is("replacer")' <=> p \in Is("replacer")
    BY DEF Is, Kind
  <2>2. QED
    BY <1>2, <2>1 DEF Requests, AskedOk, ApplyingKeeps
<1>7. RemovingKeeps'
  BY <1>2 DEF Requests, AskedOk, RemovingKeeps
<1>8. QED
  BY <1>1, <1>3, <1>4, <1>5, <1>6, <1>7 DEF RequestsHold, AskedOk

\* A step that ends a transaction, or comes between two.
LEMMA IdleRequests ==
  ASSUME Requests, op' = Idle, ReaderWaits', RequestsRecorded', RootIsPlanned',
         \A p \in asked' : records'.packages[p] # None \/ Archived(archives', p)
  PROVE RequestsHold'
<1>1. AskedIsAccountedFor'
  BY AccountedNextIs DEF Accounted
<1>2. QED
  BY <1>1, IdleIsTyped DEF RequestsHold, AskedOk, RestoringKeeps, ApplyingKeeps, RemovingKeeps

\* Between two transactions what was asked for is in the records or in an archive.
LEMMA IdleAccounts ==
  ASSUME Requests, op = Idle, NEW p \in asked
  PROVE records.packages[p] # None \/ Archived(archives, p)
BY AccountedIs, IdleIsTyped DEF Requests, Accounted

LEMMA ApplyFilesRequests ==
  ASSUME Requests,
         ClearTaken \/ \E f \in File : DeleteObsolete(f) \/ ArchiveOriginal(f) \/ PutFile(f)
  PROVE RequestsHold'
<1>1. /\ op.at = "apply" /\ op'.view = op.view /\ op'.at = "apply" /\ op'.restored = op.restored
  BY ClearTakenShape, DeleteObsoleteShape, ArchiveOriginalShape, PutFileShape, OpIs DEF Requests, ApplyOp
<1>2. UNCHANGED <<registry, records, archives, install, reader, asked>>
  BY DEF ClearTaken, DeleteObsolete, ArchiveOriginal, PutFile, stores, history
<1>3. QED
  BY <1>1, <1>2, SameRequests, IdleIsTyped

LEMMA RemoveFilesRequests ==
  ASSUME Requests, RestoreTaken \/ \E f \in File : Unpatch(f) \/ Unlink(f)
  PROVE RequestsHold'
<1>1. /\ op.at = "remove" /\ op'.view.packages = op.view.packages /\ op'.at = "remove"
  <2>1. op.at = "remove" /\ op.view \in View
    BY OpIs DEF Requests, RestoreTaken, Unpatch, Unlink, Unlinking, Removal
  <2>2. CASE RestoreTaken
    BY <2>1, <2>2, RestoreTakenShape, WithoutIsTyped DEF Requests
  <2>3. CASE \E f \in File : Unpatch(f)
    BY <2>1, <2>3, UnpatchShape DEF Requests
  <2>4. CASE \E f \in File : Unlink(f)
    BY <2>1, <2>4, UnlinkShape DEF Requests
  <2>5. QED
    BY <2>1, <2>2, <2>3, <2>4
<1>2. UNCHANGED <<registry, records, archives, install, reader, asked>>
  BY DEF RestoreTaken, Unpatch, Unlink, stores
<1>3. QED
  BY <1>1, <1>2, SameRequests, IdleIsTyped

\* remove() begins: what goes besides the package itself was not asked for.
LEMMA StartRemoveRequests ==
  ASSUME Requests, op = Idle, NEW p \in Package, records.packages[p] # None, StartRemove(p),
         asked' = asked \ {p}, reader = None, RootIsPlanned',
         UNCHANGED <<registry, records, archives, reader>>
  PROVE RequestsHold'
<1>1. /\ op'.at = "remove" /\ op'.gone = Removing(records.packages, p)
      /\ \A q \in Package : op'.view.packages[q] = IF q \in op'.gone THEN None ELSE records.packages[q]
  BY StartRemoveTypes DEF Requests
<1>2. \A q \in asked' : q \in Package /\ (records.packages[q] # None \/ Archived(archives, q))
                        /\ (records.packages[q] # None => records.packages[q].requested)
  BY IdleAccounts DEF Requests, AskedOk, RequestsRecorded, Types
<1>3. AskedIsAccountedFor'
  BY <1>2, AccountedNextIs DEF Accounted
<1>4. RequestsRecorded'
  BY <1>2 DEF RequestsRecorded
<1>5. RemovingKeeps'
  <2> SUFFICES ASSUME NEW q \in Package
               PROVE /\ op'.view.packages[q] # None =>
                          records.packages[q] # None
                          /\ (records.packages[q].requested => op'.view.packages[q].requested)
                     /\ q \in asked' /\ records.packages[q] # None =>
                          op'.view.packages[q] # None \/ Archived(archives, q)
    BY DEF RemovingKeeps
  <2>1. q \in asked' => q \notin op'.gone \/ records.packages[q] = None
    BY <1>1, <1>2, RemovingSpares
  <2>2. QED
    BY <1>1, <2>1
<1>6. QED
  BY <1>1, <1>3, <1>4, <1>5 DEF RequestsHold, AskedOk, ReaderWaits, RestoringKeeps, ApplyingKeeps

LEMMA BeginRequests == ASSUME Requests, Begin PROVE RequestsHold'
<1>1. ASSUME NEW p \in Package, BeginRemove(p) PROVE RequestsHold'
  <2>1. /\ op = Idle /\ reader = None /\ records.packages[p] # None
        /\ StartRemove(p) /\ asked' = asked \ {p} /\ UNCHANGED <<registry, records, archives, install, reader>>
    BY <1>1 DEF BeginRemove, Quiet, CanRemove, stores, Requests
  <2>2. RootIsPlanned'
    BY <2>1 DEF Requests, AskedOk, RootIsPlanned
  <2>3. QED
    BY <2>1, <2>2, StartRemoveRequests
<1>2. ASSUME NEW p \in Package, NEW force \in BOOLEAN, NEW release \in 1..Newest(p),
             BeginInstall(p, release, force)
      PROVE RequestsHold'
  <2> DEFINE plan == Plan(p)
             at(q) == IF q = p THEN release
                      ELSE IF records.packages[q] # None /\ records.packages[q].release = Newest(q)
                      THEN 0 ELSE Newest(q)
             items == [q \in Package |-> IF q \in plan THEN at(q) ELSE 0]
             away == InTheWay(plan)
  <2>1. /\ op' = Idle /\ op = Idle /\ reader' = None
        /\ UNCHANGED <<records, archives, asked>>
        /\ install' = [root |-> p, force |-> force, plan |-> plan, items |-> items, displaced |-> away]
    BY <1>2 DEF BeginInstall, Quiet, stores, history, Requests
  <2>2. p \in plan /\ release # 0
    BY IndexTypes DEF Plan, Requests, Types
  <2>3. items[p] # 0
    BY <2>2
  <2> HIDE DEF items, plan, away
  <2>4. RootIsPlanned' /\ ReaderWaits'
    BY <2>1, <2>3 DEF RootIsPlanned, ReaderWaits
  <2>5. RequestsRecorded'
    BY <2>1 DEF Requests, AskedOk, RequestsRecorded
  <2>6. QED
    BY <2>1, <2>4, <2>5, IdleAccounts, IdleRequests
<1>3. QED
  BY <1>1, <1>2 DEF Begin

LEMMA DisplaceRequests == ASSUME Requests, NEW p \in Package, Displace(p) PROVE RequestsHold'
<1>1. /\ op = Idle /\ install # None /\ reader = None
      /\ UNCHANGED <<registry, disk, records, original, zips, archives, reader, used, suspect, mine>>
  BY ReaderAway DEF Displace, stores
<1>2. CASE CanRemove(p)
  <2>1. StartRemove(p) /\ asked' = asked \ {p} /\ records.packages[p] # None
        /\ install' = [install EXCEPT !.displaced = @ \ {p}]
    BY <1>2 DEF Displace, CanRemove
  <2>2. RootIsPlanned'
    BY <1>1, <2>1 DEF Requests, AskedOk, RootIsPlanned, Types, Install
  <2>3. QED
    BY <1>1, <2>1, <2>2, StartRemoveRequests
<1>3. CASE ~CanRemove(p)
  <2>1. op' = Idle /\ install' = None /\ asked' = asked
    BY <1>1, <1>3 DEF Displace
  <2>2. ReaderWaits' /\ RequestsRecorded' /\ RootIsPlanned'
    BY <1>1, <2>1 DEF ReaderWaits, RootIsPlanned, Requests, AskedOk, RequestsRecorded
  <2>3. QED
    BY <1>1, <2>1, <2>2, IdleAccounts, IdleRequests
<1>4. QED
  BY <1>2, <1>3

LEMMA ApplyBeginRequests == ASSUME Requests, ApplyBegin PROVE RequestsHold'
<1>1. op = Idle /\ reader = None
      /\ UNCHANGED <<registry, disk, records, original, zips, archives, reader, used, suspect, mine, asked>>
  BY ReaderAway DEF ApplyBegin, stores, history
<1>2. CASE op' = Idle /\ install' = None
  <2>1. ReaderWaits' /\ RequestsRecorded' /\ RootIsPlanned'
    BY <1>1, <1>2 DEF ReaderWaits, RootIsPlanned, Requests, AskedOk, RequestsRecorded
  <2>2. QED
    BY <1>1, <1>2, <2>1, IdleAccounts, IdleRequests
<1>3. CASE op'.at = "restore" /\ op'.view = Load /\ op'.restored = {} /\ install' = install
  <2>1. op'.view.packages = records.packages
    BY <1>3, LoadIsTyped DEF Requests
  <2>2. ReaderWaits' /\ RequestsRecorded' /\ RootIsPlanned'
    BY <1>1, <1>3 DEF ReaderWaits, RootIsPlanned, Requests, AskedOk, RequestsRecorded
  <2>3. RestoringKeeps'
    BY <1>1, <2>1 DEF RestoringKeeps
  <2>4. AskedIsAccountedFor'
    BY <1>1, IdleAccounts, AccountedNextIs DEF Accounted
  <2>5. QED
    BY <1>3, <2>2, <2>3, <2>4 DEF RequestsHold, AskedOk, ApplyingKeeps, RemovingKeeps
<1>4. QED
  BY <1>1, <1>2, <1>3 DEF ApplyBegin

LEMMA RestoreArchiveRequests ==
  ASSUME Requests, NEW l \in Package, RestoreArchive(l) PROVE RequestsHold'
<1>1. /\ op.at = "restore" /\ l \in op.loaders /\ op'.at = "restore" /\ op'.view = BackView(l)
      /\ op'.restored = op.restored \cup Back(l) /\ archives'[l] = Kept(l)
      /\ \A k \in Package : k # l => archives'[k] = archives[k]
  BY RestoreArchiveShape DEF Requests
<1>2. UNCHANGED <<registry, records, original, zips, install, reader, used, suspect, mine, asked>>
  BY DEF RestoreArchive, history
<1>3. op'.view.packages = BackPackages(l)
  BY <1>1 DEF BackView
<1>4. \A p \in Package :
        /\ (op.view.packages[p] # None \/ p \in Back(l)) <=> BackPackages(l)[p] # None
        /\ op.view.packages[p] # None => BackPackages(l)[p].requested = op.view.packages[p].requested
  BY <1>1, BackIsTyped DEF Requests
<1>5. ReaderWaits'
  BY <1>1, <1>2, IdleIsTyped, ReaderAway DEF ReaderWaits
<1>6. RestoringKeeps'
  BY <1>1, <1>2, <1>3, <1>4 DEF RestoringKeeps, Requests, AskedOk
<1>7. AskedIsAccountedFor'
  <2> SUFFICES ASSUME NEW p \in asked PROVE Accounted(p, records', archives', op')
    BY <1>2, AccountedNextIs
  <2>1. p \in Package /\ Accounted(p, records, archives, op)
    BY AccountedIs DEF Requests, Types
  <2>2. ASSUME NEW k \in Package, archives[k].manifest # None, archives[k].manifest.packages[p] # None
        PROVE Accounted(p, records', archives', op')
    <3>1. CASE k # l
      BY <1>1, <2>2, <3>1 DEF Accounted, Archived
    <3>2. CASE k = l
      <4>1. op.view.packages[p] # None \/ p \in Back(l)
        BY <2>1, <2>2, <3>2 DEF Back
      <4>2. QED
        BY <1>1, <1>3, <1>4, <2>1, <4>1 DEF Accounted
    <3>3. QED
      BY <3>1, <3>2
  <2>3. QED
    BY <1>1, <1>2, <1>3, <1>4, <2>1, <2>2 DEF Accounted, Archived
<1>8. RequestsRecorded' /\ RootIsPlanned'
  BY <1>2 DEF Requests, AskedOk, RequestsRecorded, RootIsPlanned
<1>9. QED
  BY <1>1, <1>5, <1>6, <1>7, <1>8 DEF RequestsHold, AskedOk, ApplyingKeeps, RemovingKeeps

\* What the checks of apply() leave of the packages: only a replacing package gives way, and a
\* package no request reaches.
LEMMA SettledKeeps ==
  ASSUME Requests, op.at = "restore", install # None, NEW p \in Package
  PROVE /\ p \in op.restored /\ op.view.packages[p] # None /\ p \notin Evicted =>
             Settled.packages[p] # None
        /\ p \in asked /\ records.packages[p] # None =>
             IF Settled.packages[p] = None THEN p \in Is("replacer")
             ELSE Settled.packages[p].requested
        /\ p = install.root => Settled.packages[p] # None /\ Settled.packages[p].requested
<1>1. /\ Settled.packages[p] = IF p \in Orphans(Claimed.packages) \ op.restored
                               THEN None ELSE Claimed.packages[p]
      /\ Claimed.packages[p] = IF p \in Items THEN NextRecord(p)
                               ELSE IF p \in Evicted THEN None ELSE op.view.packages[p]
  BY SettledIsTyped, ClaimedIsTyped DEF Requests
<1>2. p \in Items => NextRecord(p) # None /\ NextRecord(p).requested = Wanted(p)
  BY NextRecordIsTyped, ValuesApart DEF Requests
<1>3. Claimed.packages[p] # None /\ Claimed.packages[p].requested =>
        Settled.packages[p] = Claimed.packages[p]
  BY <1>1, OrphansSpare
<1>4. p \in op.restored /\ op.view.packages[p] # None /\ p \notin Evicted => Settled.packages[p] # None
  BY <1>1, <1>2
<1>5. ASSUME p \in asked, records.packages[p] # None
      PROVE IF Settled.packages[p] = None THEN p \in Is("replacer") ELSE Settled.packages[p].requested
  <2>1. records.packages[p].requested /\ op.view.packages[p] # None /\ op.view.packages[p].requested
    BY <1>5 DEF Requests, AskedOk, RequestsRecorded, RestoringKeeps
  <2>2. CASE p \in Items
    BY <1>1, <1>2, <1>3, <1>5, <2>1, <2>2 DEF Wanted
  <2>3. CASE p \notin Items /\ p \in Evicted
    BY <1>1, <2>3 DEF Evicted, Is
  <2>4. CASE p \notin Items /\ p \notin Evicted
    BY <1>1, <1>3, <2>1, <2>4
  <2>5. QED
    BY <2>2, <2>3, <2>4
<1>6. ASSUME p = install.root PROVE Settled.packages[p] # None /\ Settled.packages[p].requested
  <2>1. p \in Items
    BY <1>6 DEF Items, Requests, AskedOk, RootIsPlanned
  <2>2. QED
    BY <1>1, <1>2, <1>3, <1>6, <2>1 DEF Wanted
<1>7. QED
  BY <1>4, <1>5, <1>6

LEMMA CheckPlanRequests == ASSUME Requests, CheckPlan PROVE RequestsHold'
<1>1. /\ op.at = "restore" /\ install # None /\ reader = None /\ op \in RestoreOp
      /\ UNCHANGED <<registry, disk, records, original, zips, archives, reader, used, suspect, mine>>
  BY CheckPlanShape, ReaderAway DEF Requests, Types
<1>2. asked' \subseteq asked /\ asked \subseteq Package
  BY CheckPlanShape DEF Requests, Types
<1>3. \A p \in asked : /\ \/ records.packages[p] # None
                          \/ Archived(archives, p)
                          \/ p \in op.restored /\ op.view.packages[p] # None
                       /\ records.packages[p] # None => records.packages[p].requested
  <2> SUFFICES ASSUME NEW p \in asked
               PROVE /\ \/ records.packages[p] # None
                        \/ Archived(archives, p)
                        \/ p \in op.restored /\ op.view.packages[p] # None
                     /\ records.packages[p] # None => records.packages[p].requested
    OBVIOUS
  <2>1. p \in Package /\ Accounted(p, records, archives, op)
    BY <1>2, AccountedIs DEF Requests
  <2>2. op.view.packages[p] # None => records.packages[p] # None \/ p \in op.restored
    BY <1>1, <2>1 DEF Requests, AskedOk, RestoringKeeps
  <2>3. QED
    BY <2>1, <2>2 DEF Accounted, Requests, AskedOk, RequestsRecorded
<1>4. CASE op' = Idle /\ install' = None /\ asked' = asked \ Forgotten
  <2>1. ReaderWaits' /\ RequestsRecorded' /\ RootIsPlanned'
    BY <1>1, <1>2, <1>3, <1>4 DEF ReaderWaits, RootIsPlanned, RequestsRecorded
  <2>2. \A p \in op.restored \ Forgotten : Archived(archives, p)
    BY DEF Forgotten, Archived
  <2>3. QED
    BY <1>1, <1>3, <1>4, <2>1, <2>2, IdleRequests
<1>5. CASE /\ install' = install /\ asked' = asked \ (Evicted \ Present(records.packages))
           /\ op'.at = "apply" /\ op'.view.packages = Settled.packages /\ op'.restored = op.restored
  <2>1. ReaderWaits' /\ RequestsRecorded' /\ RootIsPlanned'
    BY <1>1, <1>2, <1>3, <1>5
       DEF ReaderWaits, RootIsPlanned, RequestsRecorded, Requests, AskedOk
  <2>2. install.root \in Package
    BY <1>1 DEF Requests, Types, Install
  <2>3. ApplyingKeeps'
    <3>1. ASSUME NEW p \in asked'
          PROVE IF records.packages[p] = None
                THEN Archived(archives, p) \/ (p \in op.restored /\ Settled.packages[p] # None)
                ELSE IF Settled.packages[p] = None THEN p \in Is("replacer")
                ELSE Settled.packages[p].requested
      <4>1. p \in asked /\ p \in Package /\ (records.packages[p] = None => p \notin Evicted)
        BY <1>2, <1>5 DEF Present
      <4>2. QED
        BY <1>1, <1>3, <4>1, SettledKeeps
    <3>2. Settled.packages[install.root] # None /\ Settled.packages[install.root].requested
      BY <1>1, <2>2, SettledKeeps
    <3>3. \A p : p \in Is("replacer")' <=> p \in Is("replacer")
      BY <1>1 DEF Is, Kind
    <3>4. QED
      BY <1>1, <1>5, <3>1, <3>2, <3>3 DEF ApplyingKeeps
  <2>4. AskedIsAccountedFor'
    BY <1>1, <1>5, <2>3, AccountedNextIs DEF ApplyingKeeps, Accounted
  <2>5. QED
    BY <1>5, <2>1, <2>3, <2>4 DEF RequestsHold, AskedOk, RestoringKeeps, RemovingKeeps
<1>6. QED
  BY <1>4, <1>5, CheckPlanShape DEF Requests

LEMMA SaveInstallRequests == ASSUME Requests, SaveInstall PROVE RequestsHold'
<1>1. /\ op.at = "apply" /\ op' = Idle /\ install' = None /\ reader = None
      /\ install # None /\ install.root \in Package
      /\ asked' = (asked \ (Demoted \cup {p \in Is("replacer") : op.view.packages[p] = None}))
                  \cup {install.root}
      /\ UNCHANGED <<registry, archives, reader>>
  BY IdleIsTyped, ReaderAway DEF SaveInstall, stores, Requests, Types, PutsCome, Install
<1>2. records'.packages = op.view.packages
  <2>1. op.view \in View
    BY <1>1, OpIs DEF Requests
  <2>2. QED
    BY <2>1 DEF SaveInstall, Stored, View
<1>3. asked \subseteq Package
  BY DEF Requests, Types
<1>4. ASSUME NEW p \in asked'
      PROVE /\ op.view.packages[p] # None \/ Archived(archives, p)
            /\ op.view.packages[p] # None => op.view.packages[p].requested
  <2>1. CASE p = install.root
    BY <1>1, <2>1 DEF Requests, AskedOk, ApplyingKeeps
  <2>2. CASE p # install.root
    <3>1. /\ p \in asked /\ p \in Package /\ p \notin Demoted
          /\ ~(p \in Is("replacer") /\ op.view.packages[p] = None)
      BY <1>1, <1>3, <2>2
    <3>2. IF records.packages[p] = None
          THEN Archived(archives, p) \/ (p \in op.restored /\ op.view.packages[p] # None)
          ELSE IF op.view.packages[p] = None THEN p \in Is("replacer")
          ELSE op.view.packages[p].requested
      BY <1>1, <3>1 DEF Requests, AskedOk, ApplyingKeeps
    <3>3. CASE records.packages[p] = None
      BY <3>1, <3>2, <3>3 DEF Demoted, Present
    <3>4. CASE records.packages[p] # None
      BY <3>1, <3>2, <3>4
    <3>5. QED
      BY <3>3, <3>4
  <2>3. QED
    BY <2>1, <2>2
<1>5. ReaderWaits' /\ RequestsRecorded' /\ RootIsPlanned'
  BY <1>1, <1>2, <1>4 DEF ReaderWaits, RootIsPlanned, RequestsRecorded
<1>6. QED
  BY <1>1, <1>2, <1>4, <1>5, IdleRequests

LEMMA ApplyingRequests == ASSUME Requests, Applying PROVE RequestsHold'
BY ApplyBeginRequests, CheckPlanRequests, SaveInstallRequests, RestoreArchiveRequests,
   ApplyFilesRequests DEF Applying

\* A step of a removal that deals with a loader: a package leaves the records it works out only
\* into the manifest of an archive.
LEMMA DealingRequests ==
  ASSUME Requests, op.at = "remove", op'.at = "remove",
         UNCHANGED <<registry, records, install, reader, asked>>,
         \A p \in Package : Archived(archives, p) => Archived(archives', p),
         \A p \in Package :
           \/ op.view.packages[p] = None /\ op'.view.packages[p] = None
           \/ op'.view.packages[p] # None /\ op'.view.packages[p] = records.packages[p]
           \/ op.view.packages[p] # None /\ op'.view.packages[p] = None /\ Archived(archives', p)
           \/ /\ op.view.packages[p] # None /\ op'.view.packages[p] # None
              /\ op'.view.packages[p].requested = op.view.packages[p].requested
  PROVE RequestsHold'
<1>1. ReaderWaits'
  BY IdleIsTyped, ReaderAway DEF ReaderWaits
<1>2. \A p \in asked : p \in Package /\ Accounted(p, records, archives, op)
  BY AccountedIs DEF Requests, Types
<1>3. AskedIsAccountedFor'
  BY <1>2, AccountedNextIs DEF Accounted
<1>4. RequestsRecorded' /\ RootIsPlanned'
  BY DEF Requests, AskedOk, RequestsRecorded, RootIsPlanned
<1>5. RemovingKeeps'
  BY DEF Requests, AskedOk, RemovingKeeps
<1>6. QED
  BY <1>1, <1>3, <1>4, <1>5 DEF RequestsHold, AskedOk, RestoringKeeps, ApplyingKeeps

LEMMA KeepLoaderRequests == ASSUME Requests, NEW l \in Package, KeepLoader(l) PROVE RequestsHold'
<1>1. op \in RemoveOp /\ op.at = "remove" /\ op.view \in View /\ Bare(op.view.packages)
  BY OpIs DEF KeepLoader, Moving, Removal, Requests, Types, AllBare
<1>2. op.kept \cup {l} \in SUBSET Package
  BY <1>1 DEF RemoveOp
<1>3. /\ op'.at = "remove"
      /\ \A p \in Package : \/ op'.view.packages[p] = op.view.packages[p]
                            \/ op'.view.packages[p] = records.packages[p]
  BY <1>1, <1>2, DealtIsTyped DEF KeepLoader, Requests
<1>4. UNCHANGED <<registry, records, original, zips, install, reader, mine, asked>>
  BY DEF KeepLoader
<1>5. \A k \in Package : archives'[k].manifest = archives[k].manifest
  <2>1. PICK payload : archives' = [archives EXCEPT ![l].payload = payload]
    BY DEF KeepLoader
  <2>2. QED
    BY <2>1 DEF Requests, Types, Archive
<1>6. \A p : Archived(archives, p) <=> Archived(archives', p)
  BY <1>5 DEF Archived
<1>7. \A p \in Package : op.view.packages[p] # None => records.packages[p] # None
  BY <1>1 DEF Requests, AskedOk, RemovingKeeps
<1>8. QED
  BY <1>1, <1>3, <1>4, <1>6, <1>7, DealingRequests

LEMMA MoveLoaderRequests == ASSUME Requests, NEW l \in Package, MoveLoader(l) PROVE RequestsHold'
<1>1. op.at = "remove" /\ op'.at = "remove"
      /\ \A p \in Package : \/ op'.view.packages[p] = op.view.packages[p]
                            \/ op'.view.packages[p] = records.packages[p]
  BY MoveLoaderShape DEF MoveLoader, Moving, Removal, Requests
<1>2. UNCHANGED <<registry, records, original, zips, install, reader, used, suspect, mine, asked>>
  BY DEF MoveLoader, history
<1>3. \A k \in Package : archives'[k].manifest = archives[k].manifest
  <2>1. PICK payload : archives' = [archives EXCEPT ![l].payload = payload]
    BY DEF MoveLoader
  <2>2. QED
    BY <2>1 DEF Requests, Types, Archive
<1>4. \A p : Archived(archives, p) <=> Archived(archives', p)
  BY <1>3 DEF Archived
<1>5. \A p \in Package : op.view.packages[p] # None => records.packages[p] # None
  BY <1>1 DEF Requests, AskedOk, RemovingKeeps
<1>6. QED
  BY <1>1, <1>2, <1>4, <1>5, DealingRequests

LEMMA WriteManifestRequests ==
  ASSUME Requests, NEW l \in Package, NEW files \in SUBSET File, WriteManifest(l, files)
  PROVE RequestsHold'
<1>1. op.at = "remove" /\ op'.at = "remove"
      /\ \A p \in Package : \/ op'.view.packages[p] = Rest(files).packages[p]
                            \/ op'.view.packages[p] = records.packages[p]
      /\ archives'[l].manifest = Manifest(l, files)
      /\ \A k \in Package : k # l => archives'[k].manifest = archives[k].manifest
  BY WriteManifestShape DEF WriteManifest, Removal, Requests
<1>2. /\ Manifest(l, files) \in View
      /\ \A p \in Package :
           /\ p \in Goes(files) => Manifest(l, files).packages[p] # None
           /\ p \notin Goes(files) /\ archives[l].manifest # None =>
                Manifest(l, files).packages[p] = archives[l].manifest.packages[p]
           /\ IF op.view.packages[p] = None \/ p \in Goes(files) THEN Rest(files).packages[p] = None
              ELSE /\ Rest(files).packages[p] # None
                   /\ Rest(files).packages[p].requested = op.view.packages[p].requested
  BY <1>1, ManifestIsTyped DEF Requests
<1> DEFINE m == Manifest(l, files)
           rest == Rest(files)
<1>3. m # None
  BY <1>2, ValuesApart
<1> HIDE DEF m, rest
<1>4. \A p \in Package : p \in Goes(files) => Archived(archives', p)
  BY <1>1, <1>2, <1>3 DEF Archived, m
<1>5. \A p \in Package : Archived(archives, p) => Archived(archives', p)
  <2> SUFFICES ASSUME NEW p \in Package, NEW k \in Package,
                      archives[k].manifest # None, archives[k].manifest.packages[p] # None
               PROVE Archived(archives', p)
    BY DEF Archived
  <2>1. CASE k # l
    BY <1>1, <2>1 DEF Archived
  <2>2. CASE k = l /\ p \notin Goes(files)
    <3>1. archives'[l].manifest # None /\ archives'[l].manifest.packages[p] # None
      BY <1>1, <1>2, <1>3, <2>2 DEF m
    <3>2. QED
      BY <3>1 DEF Archived
  <2>3. QED
    BY <1>4, <2>1, <2>2
<1>6. \A p \in Package : op.view.packages[p] # None => records.packages[p] # None
  BY <1>1 DEF Requests, AskedOk, RemovingKeeps
<1>7. UNCHANGED <<registry, disk, records, original, zips, install, reader, used, suspect, mine, asked>>
  BY DEF WriteManifest, history
<1>8. \A p \in Package :
        \/ op.view.packages[p] = None /\ op'.view.packages[p] = None
        \/ op'.view.packages[p] # None /\ op'.view.packages[p] = records.packages[p]
        \/ op.view.packages[p] # None /\ op'.view.packages[p] = None /\ Archived(archives', p)
        \/ /\ op.view.packages[p] # None /\ op'.view.packages[p] # None
           /\ op'.view.packages[p].requested = op.view.packages[p].requested
  BY <1>1, <1>2, <1>4, <1>6
<1>9. QED
  BY <1>1, <1>5, <1>7, <1>8, DealingRequests

LEMMA SaveRemoveRequests == ASSUME Requests, SaveRemove PROVE RequestsHold'
<1>1. op \in RemoveOp /\ op.at = "remove" /\ op.view \in View /\ reader = None
  BY OpIs, IdleIsTyped, ReaderAway DEF SaveRemove, Unlinking, Removal, Requests
<1>2. op'.at = "prune" /\ records'.packages = op.view.packages
  BY <1>1 DEF SaveRemove, RemoveOp, Stored, View
<1>3. UNCHANGED <<registry, archives, install, reader, asked>>
  BY DEF SaveRemove, stores, history
<1>4. ASSUME NEW p \in asked
      PROVE /\ op.view.packages[p] # None \/ Archived(archives, p)
            /\ op.view.packages[p] # None => op.view.packages[p].requested
  <2>1. p \in Package /\ Accounted(p, records, archives, op)
    BY AccountedIs DEF Requests, Types
  <2>2. QED
    BY <1>1, <2>1 DEF Accounted, Requests, AskedOk, RequestsRecorded, RemovingKeeps
<1>5. AskedIsAccountedFor'
  BY <1>2, <1>3, <1>4, AccountedNextIs DEF Accounted
<1>6. ReaderWaits' /\ RequestsRecorded' /\ RootIsPlanned'
  BY <1>1, <1>2, <1>3, <1>4 DEF ReaderWaits, RootIsPlanned, RequestsRecorded, Requests, AskedOk
<1>7. QED
  BY <1>2, <1>5, <1>6 DEF RequestsHold, AskedOk, RestoringKeeps, ApplyingKeeps, RemovingKeeps

LEMMA PruneOriginalsRequests == ASSUME Requests, PruneOriginals PROVE RequestsHold'
<1>1. op.at = "prune" /\ op' = Idle /\ reader = None
      /\ UNCHANGED <<registry, disk, records, zips, archives, install, reader, used, suspect, asked>>
  BY IdleIsTyped, ReaderAway DEF PruneOriginals
<1>2. ReaderWaits' /\ RequestsRecorded' /\ RootIsPlanned'
  BY <1>1 DEF ReaderWaits, RootIsPlanned, RequestsRecorded, Requests, AskedOk
<1>3. QED
  BY <1>1, <1>2, AccountedIs, IdleRequests DEF Requests, Accounted

LEMMA RemovingRequests == ASSUME Requests, RemoveSteps PROVE RequestsHold'
BY RemoveFilesRequests, SaveRemoveRequests, PruneOriginalsRequests, DisplaceRequests,
   KeepLoaderRequests, MoveLoaderRequests, WriteManifestRequests DEF RemoveSteps

\* Where an operation breaks off, what was asked for is in the records, in an archive, or was
\* taken out of one for records that are never saved.
LEMMA BrokenAccounts ==
  ASSUME Requests, op # Idle, NEW p \in asked
  PROVE records.packages[p] # None \/ Archived(archives, p) \/ p \in Forgotten
<1>1. p \in Package /\ Accounted(p, records, archives, op)
  BY AccountedIs DEF Requests, Types
<1>2. p \in op.restored /\ ~Archived(archives, p) => p \in Forgotten
  BY DEF Forgotten, Archived
<1>3. CASE op.at = "restore"
  BY <1>1, <1>2, <1>3 DEF Accounted, Requests, AskedOk, RestoringKeeps
<1>4. CASE op.at = "apply"
  BY <1>1, <1>2, <1>4 DEF Requests, AskedOk, ApplyingKeeps
<1>5. CASE op.at \notin {"restore", "apply"}
  BY <1>1, <1>5 DEF Accounted
<1>6. QED
  BY <1>3, <1>4, <1>5

LEMMA FailRequests == ASSUME Requests, NEW lost \in SUBSET File, Fail(lost) PROVE RequestsHold'
<1>1. /\ op.at \in {"apply", "remove"} /\ op # Idle /\ op' = Idle /\ install' = None /\ reader = None
      /\ \A l \in Package : archives'[l] = IF \E i \in 1..Len(Returning) : Returning[i] = l
                                           THEN Cleared(l) ELSE archives[l]
      /\ UNCHANGED <<registry, records, original, zips, reader>>
  BY FailShape, IdleIsTyped, ReaderAway DEF Requests
<1>2. asked' = asked \ (Forgotten \cup (Discarded \ Present(records.packages)))
  BY DEF Fail
<1>3. asked \subseteq Package
  BY DEF Requests, Types
<1>4. ASSUME NEW p \in asked', records.packages[p] = None PROVE Archived(archives', p)
  <2>1. p \in asked /\ p \in Package /\ p \notin Forgotten /\ p \notin Discarded
    BY <1>2, <1>3, <1>4 DEF Present
  <2>2. PICK l \in Package : archives[l].manifest # None /\ archives[l].manifest.packages[p] # None
    BY <1>1, <1>4, <2>1, BrokenAccounts DEF Archived
  <2>3. CASE \E i \in 1..Len(Returning) : Returning[i] = l
    <3>1. Left(Undone, archives[l].payload) # NoSlot
      BY <2>1, <2>2, <2>3 DEF Discarded
    <3>2. archives'[l] = Cleared(l)
      BY <1>1, <2>2, <2>3
    <3> DEFINE left == Left(Undone, archives[l].payload)
    <3>3. Cleared(l) = [payload |-> left, manifest |-> IF left = NoSlot THEN None ELSE archives[l].manifest]
      BY DEF Cleared
    <3> HIDE DEF left
    <3>4. archives'[l].manifest = archives[l].manifest
      BY <3>1, <3>2, <3>3 DEF left
    <3>5. QED
      BY <2>2, <3>4 DEF Archived
  <2>4. CASE ~\E i \in 1..Len(Returning) : Returning[i] = l
    BY <1>1, <2>2, <2>4 DEF Archived
  <2>5. QED
    BY <2>3, <2>4
<1>5. ReaderWaits' /\ RequestsRecorded' /\ RootIsPlanned'
  BY <1>1, <1>2 DEF ReaderWaits, RootIsPlanned, RequestsRecorded, Requests, AskedOk
<1>6. QED
  BY <1>1, <1>4, <1>5, IdleRequests

LEMMA CrashRequests == ASSUME Requests, Crash PROVE RequestsHold'
<1>1. /\ op # Idle /\ op' = Idle /\ install' = None /\ reader' = None /\ asked' = asked \ Forgotten
      /\ UNCHANGED <<registry, disk, records, original, zips, archives, mine>>
  BY DEF Crash, stores
<1>2. ReaderWaits' /\ RequestsRecorded' /\ RootIsPlanned'
  BY <1>1 DEF ReaderWaits, RootIsPlanned, RequestsRecorded, Requests, AskedOk
<1>3. QED
  BY <1>1, <1>2, BrokenAccounts, IdleRequests

LEMMA ReaderLoadRequests == ASSUME Requests, ReaderLoad PROVE RequestsHold'
<1>1. /\ op = Idle /\ op' = Idle /\ install' = None /\ reader' = [read |-> records]
      /\ UNCHANGED <<registry, disk, records, archives, asked>>
  BY DEF ReaderLoad, Quiet, stores, history, Requests
<1>2. ReaderWaits' /\ RequestsRecorded' /\ RootIsPlanned'
  BY <1>1 DEF ReaderWaits, RootIsPlanned, RequestsRecorded, Requests, AskedOk
<1>3. QED
  BY <1>1, <1>2, IdleAccounts, IdleRequests

LEMMA ReaderSaveRequests == ASSUME Requests, ReaderSave PROVE RequestsHold'
<1>1. /\ op = Idle /\ op' = Idle /\ install = None /\ install' = None /\ reader' = None /\ reader.read = records
      /\ UNCHANGED archives
  BY DEF ReaderSave, stores, Requests, ReaderWaits
<1>2. records \in Records /\ Bare(records.packages)
  BY DEF Requests, Types, AllBare
<1>3. /\ records' = Reconciled(records)
      /\ asked' = {p \in asked : records.packages[p] = None \/ records'.packages[p] # None}
  <2>1. records' = IF Reconciled(records) = records THEN records ELSE Reconciled(records)
    BY <1>1 DEF ReaderSave
  <2>2. QED
    BY <1>1, <2>1 DEF ReaderSave
<1>4. \A p \in Package : records'.packages[p] # None =>
        records.packages[p] # None /\ records'.packages[p].requested = records.packages[p].requested
  BY <1>2, <1>3, ReconciledIsTyped
<1>5. ReaderWaits' /\ RequestsRecorded' /\ RootIsPlanned'
  BY <1>1, <1>3, <1>4 DEF ReaderWaits, RootIsPlanned, RequestsRecorded, Requests, AskedOk, Types
<1>6. QED
  BY <1>1, <1>3, <1>5, IdleAccounts, IdleRequests

\* A package is recorded as asked for.
LEMMA AdoptRequests ==
  ASSUME Requests, Quiet, NEW p \in Package, UNCHANGED <<archives, install, op, reader>>,
         asked' = asked \cup {p},
         records'.packages[p] # None, records'.packages[p].requested,
         \A q \in Package : q # p => records'.packages[q] = records.packages[q]
  PROVE RequestsHold'
<1>1. /\ op = Idle /\ install = None /\ reader = None /\ asked \subseteq Package
  BY DEF Quiet, Requests, Types
<1>2. ReaderWaits' /\ RequestsRecorded' /\ RootIsPlanned'
  BY <1>1 DEF ReaderWaits, RootIsPlanned, RequestsRecorded, Requests, AskedOk
<1>3. \A q \in asked' : records'.packages[q] # None \/ Archived(archives', q)
  BY <1>1, IdleAccounts
<1>4. QED
  BY <1>1, <1>2, <1>3, IdleRequests

LEMMA OutsideRequests == ASSUME Requests, Outside PROVE RequestsHold'
<1>1. ASSUME NEW p \in Package, AdoptLoader(p) PROVE RequestsHold'
  <2>1. Quiet /\ UNCHANGED <<archives, install, op, reader>> /\ asked' = asked \cup {p}
    BY <1>1 DEF AdoptLoader, stores
  <2>2. QED
    BY <1>1, <2>1, AdoptedLoaderIs, AdoptRequests DEF Requests
<1>2. ASSUME NEW p \in Package, NEW release \in 1..Newest(p), Adopt(p, release) PROVE RequestsHold'
  <2>1. Quiet /\ UNCHANGED <<archives, install, op, reader>> /\ asked' = asked \cup {p}
    BY <1>2 DEF Adopt, stores
  <2>2. QED
    BY <1>2, <2>1, AdoptedIs, AdoptRequests DEF Requests
<1>3. ASSUME NEW f \in File, NEW c \in Value \cup {None}, Touch(f, c) PROVE RequestsHold'
  <2>1. op = Idle /\ op' = Idle /\ install' = None /\ reader' = None
        /\ UNCHANGED <<records, archives, asked>>
    BY <1>3 DEF Touch, Quiet, stores, Requests
  <2>2. ReaderWaits' /\ RequestsRecorded' /\ RootIsPlanned'
    BY <2>1 DEF ReaderWaits, RootIsPlanned, RequestsRecorded, Requests, AskedOk
  <2>3. QED
    BY <2>1, <2>2, IdleAccounts, IdleRequests
<1>4. QED
  BY <1>1, <1>2, <1>3, FailRequests, CrashRequests, ReaderLoadRequests, ReaderSaveRequests DEF Outside

LEMMA NextRequests == ASSUME Requests, InstallerNext PROVE Requests'
<1>1. Types'
  BY NextTypes DEF Requests
<1>2. RequestsHold'
  BY BeginRequests, ApplyingRequests, RemovingRequests, OutsideRequests DEF InstallerNext
<1>3. QED
  BY <1>1, <1>2 DEF Requests, RequestsHold

LEMMA StutterRequests == ASSUME Requests, UNCHANGED vars PROVE Requests'
<1>1. Types'
  BY StutterTypes DEF Requests
<1>2. UNCHANGED <<registry, records, archives, install, op, reader, asked>>
  BY DEF vars
<1>3. ReaderWaits' /\ RequestsRecorded' /\ RootIsPlanned'
  BY <1>2 DEF ReaderWaits, RootIsPlanned, RequestsRecorded, Requests, AskedOk
<1>4. AskedIsAccountedFor'
  BY <1>2, AccountedIs, AccountedNextIs DEF Requests
<1>5. RestoringKeeps' /\ RemovingKeeps'
  BY <1>2 DEF RestoringKeeps, RemovingKeeps, Requests, AskedOk
<1>6. ApplyingKeeps'
  BY <1>2 DEF ApplyingKeeps, Is, Kind, Requests, AskedOk
<1>7. QED
  BY <1>1, <1>3, <1>4, <1>5, <1>6 DEF Requests, AskedOk

LEMMA InitRequests == ASSUME ~ConcurrentReader, InstallerInit PROVE Requests
<1>1. Types /\ op = Idle /\ install = None /\ reader = None /\ asked = {}
  BY InitTypes DEF InstallerInit
<1>2. QED
  BY <1>1, IdleIsTyped
     DEF Requests, AskedOk, ReaderWaits, RequestsRecorded, RootIsPlanned, RestoringKeeps, ApplyingKeeps,
         RemovingKeeps, AskedIsAccountedFor

\* As long as the reader of the environment does not save between an operation's reading of
\* the records and its saving them: whatever the index, the faults and the crashes, a package
\* that was asked for is recorded, in the manifest of an archive, or in the records an install
\* is about to save.
THEOREM RequestsAreAccountedFor ==
  ASSUME ~ConcurrentReader PROVE InstallerSpec => []AskedIsAccountedFor
<1>1. InstallerInit => Requests
  BY InitRequests
<1>2. Requests /\ [InstallerNext]_vars => Requests'
  BY NextRequests, StutterRequests
<1>3. Requests => AskedIsAccountedFor
  BY DEF Requests
<1>4. QED
  BY <1>1, <1>2, <1>3, PTL DEF InstallerSpec
================================================================================
