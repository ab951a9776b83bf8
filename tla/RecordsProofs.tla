------------------------------ MODULE RecordsProofs ------------------------------
(* What the installer's records say, for any index, files, faults, crashes    *)
(* and moves of the player, without a reader beside the operations: against   *)
(* the disk (RecordedIsOnDisk: what an operation is about to record is there, *)
(* or is still to be put there), and against each other (DependenciesStay:    *)
(* what an operation saves keeps what its packages need).                     *)
EXTENDS InstallerProofs

\* What the records, or a view of them, say of a file against what the disk holds.
Lists(packages, p, f) == packages[p] # None /\ f \in packages[p].files
Fits(e, d, s, f) == e = None \/ e.sha \in {Blank, d[f]} \/ f \in s
Agree(r, d, s) == \A p \in Package, f \in File :
                    Lists(r.packages, p, f) => r.sha[f] \in {Blank, d[f]} \/ f \in s
\* A transaction keeps what the disk was when it began: that is what the records describe.
RecordsFit == Agree(records, IF op.at \in {"apply", "remove"} THEN op.before ELSE disk, suspect)
ListedAreKept == \A p \in Package, f \in File : Lists(records.packages, p, f) => records.sha[f] # None
\* A package goes to an archive when it has no file left; an entry has a digest or is blank.
ArchivedAreBare ==
  \A l \in Package : archives[l].manifest # None =>
    /\ \A p \in Package : archives[l].manifest.packages[p] = None
                          \/ archives[l].manifest.packages[p].files = {}
    /\ \A f \in File : archives[l].manifest.files[f] = None \/ archives[l].manifest.files[f].sha # None
ViewHasDigests == op.at # "idle" => \A f \in File : op.view.files[f] = None \/ op.view.files[f].sha # None
RestoringAgrees ==
  op.at = "restore" => \A p \in Package, f \in File : Lists(op.view.packages, p, f) =>
    /\ op.view.files[f] # None /\ p \in op.view.files[f].owners
    /\ Fits(op.view.files[f], disk, suspect, f)
\* What an install is about to record is on disk, or is yet to be put.
ApplyingAgrees ==
  op.at = "apply" =>
    /\ \A f \in File : op.obsolete[f] # None => op.view.files[f] = None
    /\ \A p \in Package, f \in File : Lists(op.view.packages, p, f) /\ op.view.files[f] # None =>
         \/ f \in op.put /\ op.view.files[f].sha = Chosen(f)
         \/ /\ Fits(op.view.files[f], disk, suspect, f)
            /\ ~(op.clear /\ f \in registry.area)
            /\ f \in op.put => ClaimedByAnother(f)
\* What a removal keeps recorded is on disk, but where a manifest is yet to be written.
Unnoted(f) == \E u \in op.unwritten : f \in u.files
RemovingAgrees ==
  op.at = "remove" =>
    /\ \A f \in op.unpatch : original[f] # None
    /\ \A u \in op.unwritten : u.loader \in op.loaders
    /\ \A p \in Package, f \in File :
         /\ Lists(op.view.packages, p, f) => Lists(records.packages, p, f)
         /\ Lists(records.packages, p, f) => Fits(op.view.files[f], disk, suspect, f) \/ Unnoted(f)


Accords == /\ RecordsFit /\ ListedAreKept /\ ArchivedAreBare /\ ViewHasDigests
           /\ RestoringAgrees /\ ApplyingAgrees /\ RemovingAgrees
Recorded == Undoable /\ Requests /\ Accords

\* A step that ends an operation, or comes between two.
LEMMA IdleAccords ==
  ASSUME op' = Idle, Agree(records', disk', suspect'), ListedAreKept', ArchivedAreBare'
  PROVE Accords'
BY IdleIsTyped DEF Accords, RecordsFit, ViewHasDigests, RestoringAgrees, ApplyingAgrees, RemovingAgrees

\* The records and the archives stay, and the disk is still what they describe.
LEMMA EndAccords ==
  ASSUME Recorded, op' = Idle, UNCHANGED <<records, archives, suspect>>, disk' = disk,
         op.at \notin {"apply", "remove"}
  PROVE Accords'
<1>1. Agree(records', disk', suspect')
  BY DEF Recorded, Accords, RecordsFit
<1>2. ListedAreKept' /\ ArchivedAreBare'
  BY DEF Recorded, Accords, ListedAreKept, ArchivedAreBare
<1>3. QED
  BY <1>1, <1>2, IdleAccords

LEMMA SameClaims ==
  ASSUME UNCHANGED <<registry, install>>, op'.view = op.view
  PROVE \A f : ClaimedByAnother(f)' <=> ClaimedByAnother(f)
BY SameIncoming DEF ClaimedByAnother

LEMMA SameAccords ==
  ASSUME Recorded, UNCHANGED <<registry, disk, records, archives, install, op, suspect>>,
         original' = original \/ op.at # "remove"
  PROVE Accords'
<1>1. RecordsFit' /\ ListedAreKept' /\ ArchivedAreBare' /\ ViewHasDigests'
  BY DEF Recorded, Accords, RecordsFit, ListedAreKept, ArchivedAreBare, ViewHasDigests
<1>2. RestoringAgrees'
  BY DEF Recorded, Accords, RestoringAgrees
<1>3. ApplyingAgrees'
  <2>1. \A f : /\ ClaimedByAnother(f)' <=> ClaimedByAnother(f)
               /\ Chosen(f)' = Chosen(f)
    BY SameClaims, SameIncoming
  <2>2. QED
    BY <2>1 DEF Recorded, Accords, ApplyingAgrees
<1>4. RemovingAgrees'
  BY DEF Recorded, Accords, RemovingAgrees, Unnoted
<1>5. QED
  BY <1>1, <1>2, <1>3, <1>4 DEF Accords

LEMMA ApplyBeginAccords == ASSUME Recorded, ApplyBegin PROVE Accords'
<1>1. op = Idle /\ Types
      /\ UNCHANGED <<registry, disk, records, original, zips, archives, reader, used, suspect, mine, asked>>
  BY DEF ApplyBegin, stores, history, Recorded, Undoable
<1>2. CASE op' = Idle
  BY <1>1, <1>2, EndAccords, IdleIsTyped
<1>3. CASE op'.at = "restore" /\ op'.view = Load
  <2>1. Agree(records, disk, suspect)
    BY <1>1, IdleIsTyped DEF Recorded, Accords, RecordsFit
  <2>2. RecordsFit' /\ ListedAreKept' /\ ArchivedAreBare'
    BY <1>1, <1>3, <2>1 DEF RecordsFit, Recorded, Accords, ListedAreKept, ArchivedAreBare
  <2>3. \A f \in File : /\ Load.files[f] = None <=> records.sha[f] = None
                        /\ Load.files[f] # None => Load.files[f].sha = records.sha[f]
                                                   /\ Load.files[f].owners = Listing(records.packages, f)
    <3>1. \A f \in File : records.sha[f] # None => Load.files[f].owners = Listing(records.packages, f)
      BY DEF Load
    <3>2. QED
      BY <1>1, <3>1, LoadIsTyped
  <2>4. ViewHasDigests'
    BY <1>3, <2>3 DEF ViewHasDigests
  <2>5. RestoringAgrees'
    <3> SUFFICES ASSUME NEW p \in Package, NEW f \in File, Lists(Load.packages, p, f)
                 PROVE /\ Load.files[f] # None /\ p \in Load.files[f].owners
                       /\ Fits(Load.files[f], disk, suspect, f)
      BY <1>1, <1>3 DEF RestoringAgrees
    <3>1. Lists(records.packages, p, f) /\ records.sha[f] # None
      BY <1>1, LoadIsTyped DEF Recorded, Accords, ListedAreKept
    <3>2. records.sha[f] \in {Blank, disk[f]} \/ f \in suspect
      BY <2>1, <3>1 DEF Agree
    <3>3. p \in Listing(records.packages, f)
      BY <3>1 DEF Lists, Listing, Present
    <3>4. QED
      BY <2>3, <3>1, <3>2, <3>3 DEF Fits
  <2>6. QED
    BY <1>3, <2>2, <2>4, <2>5 DEF Accords, ApplyingAgrees, RemovingAgrees
<1>4. QED
  BY <1>1, <1>2, <1>3 DEF ApplyBegin

LEMMA RestoreArchiveAccords ==
  ASSUME Recorded, NEW l \in Package, RestoreArchive(l) PROVE Accords'
<1>1. /\ op.at = "restore" /\ l \in op.loaders /\ op'.at = "restore" /\ Types
      /\ op'.view = BackView(l) /\ archives'[l] = Kept(l)
      /\ \A k \in Package : k # l => archives'[k] = archives[k]
      /\ UNCHANGED <<registry, records, install, suspect>>
  BY RestoreArchiveShape DEF Recorded, Undoable, RestoreArchive, history
<1>2. op'.view.packages = BackPackages(l) /\ op'.view.files = BackFiles(l)
  BY <1>1 DEF BackView
<1>3. \A f \in File : disk[f] # None => disk'[f] = disk[f]
  BY RestoreArchiveShape, ReturnedIsTyped DEF Recorded, Undoable, Types, Archive
<1> DEFINE m == archives[l].manifest
<1>4. /\ m # None
      /\ \A p \in Package : m.packages[p] = None \/ m.packages[p].files = {}
      /\ \A f \in File : m.files[f] = None \/ m.files[f].sha # None
  BY <1>1 DEF Types, Recorded, Accords, ArchivedAreBare
<1>5. \A p \in Package, f \in File : Lists(BackPackages(l), p, f) => Lists(op.view.packages, p, f)
  <2> SUFFICES ASSUME NEW p \in Package, NEW f \in File, BackPackages(l)[p] # None,
                      f \in BackPackages(l)[p].files
               PROVE Lists(op.view.packages, p, f)
    BY DEF Lists
  <2>1. /\ op.view.packages[p] # None \/ p \in Back(l)
        /\ p \in Back(l) => op.view.packages[p] = None
    BY <1>1, BackIsTyped
  <2> DEFINE r == BackRecord(l, p)
             s == {g \in r.files : BackFiles(l)[g] # None}
  <2>2. r \in PackageRecord
    <3>1. m \in View /\ op.view \in View
      BY <1>1, <1>4, OpIs DEF Types, Archive
    <3>2. QED
      BY <2>1, <3>1 DEF BackRecord, Back, View
  <2>3. BackPackages(l)[p] = r \/ BackPackages(l)[p] = [r EXCEPT !.files = s]
    BY DEF BackPackages
  <2> HIDE DEF s
  <2>4. BackPackages(l)[p].files \in {r.files, s}
    BY <2>2, <2>3 DEF PackageRecord
  <2>5. f \in r.files
    BY <2>4 DEF s
  <2>6. CASE p \in Back(l)
    BY <1>4, <2>5, <2>6 DEF BackRecord, Back
  <2>7. CASE p \notin Back(l)
    BY <2>1, <2>5, <2>7 DEF BackRecord, Lists
  <2>8. QED
    BY <2>6, <2>7
<1>6. \A f \in File : /\ op.view.files[f] # None => BackFiles(l)[f] = op.view.files[f]
                      /\ BackFiles(l)[f] \in {None, op.view.files[f], m.files[f]}
  BY DEF BackFiles
<1>7. ListedAreKept' /\ RecordsFit'
  <2>1. ASSUME NEW p \in Package, NEW f \in File, Lists(records.packages, p, f)
        PROVE records.sha[f] \in {Blank, disk'[f]} \/ f \in suspect
    <3>1. records.sha[f] # None /\ (records.sha[f] \in {Blank, disk[f]} \/ f \in suspect)
      BY <1>1, <2>1 DEF Recorded, Accords, ListedAreKept, RecordsFit, Agree
    <3>2. QED
      BY <1>3, <3>1
  <2>2. QED
    BY <1>1, <2>1 DEF Recorded, Accords, ListedAreKept, RecordsFit, Agree
<1>8. ArchivedAreBare'
  <2>1. Kept(l).manifest # None =>
          /\ \A p \in Package : Kept(l).manifest.packages[p] = None
          /\ \A f \in File : Kept(l).manifest.files[f] \in {None, m.files[f]}
    BY <1>1, BackIsTyped
  <2>2. QED
    BY <1>1, <1>4, <2>1 DEF Recorded, Accords, ArchivedAreBare
<1>9. ViewHasDigests'
  BY <1>1, <1>2, <1>4, <1>6 DEF Recorded, Accords, ViewHasDigests
<1>10. RestoringAgrees'
  <2> SUFFICES ASSUME NEW p \in Package, NEW f \in File, Lists(BackPackages(l), p, f)
               PROVE /\ BackFiles(l)[f] # None /\ p \in BackFiles(l)[f].owners
                     /\ Fits(BackFiles(l)[f], disk', suspect, f)
    BY <1>1, <1>2 DEF RestoringAgrees
  <2>1. /\ op.view.files[f] # None /\ p \in op.view.files[f].owners /\ op.view.files[f].sha # None
        /\ op.view.files[f].sha \in {Blank, disk[f]} \/ f \in suspect
    BY <1>1, <1>5 DEF Recorded, Accords, RestoringAgrees, ViewHasDigests, Fits
  <2>2. QED
    BY <1>3, <1>6, <2>1 DEF Fits
<1>11. QED
  BY <1>1, <1>7, <1>8, <1>9, <1>10 DEF Accords, ApplyingAgrees, RemovingAgrees

\* The owners an entry keeps when packages leave it.
LEMMA DisownedOwners ==
  ASSUME NEW v \in View, NEW gone, NEW f \in File, v.files[f] # None
  PROVE Disowned(v, gone).files[f] # None /\ Disowned(v, gone).files[f].owners = v.files[f].owners \ gone
<1> DEFINE e(g) == [v.files[g] EXCEPT !.owners = @ \ gone]
<1>1. Disowned(v, gone).files[f] = e(f)
  BY DEF Disowned, View
<1>2. e(f).owners = v.files[f].owners \ gone
  BY DEF View, Entry
<1> HIDE DEF e
<1>3. QED
  BY <1>1, <1>2, DisownedIsTyped

\* A file the next records list for a package is one the plan lays, or one the package keeps.
LEMMA SettledLists ==
  ASSUME Types, op.at = "restore", NEW p \in Package, NEW f \in File,
         Lists(Settled.packages, p, f), Settled.files[f] # None
  PROVE \/ f \in Targets /\ Settled.files[f].sha = Chosen(f)
        \/ /\ f \notin Targets /\ f \notin Taken /\ p \notin Items
           /\ Lists(op.view.packages, p, f)
           /\ op.view.files[f] # None /\ Settled.files[f].sha = op.view.files[f].sha
           /\ p \in op.view.files[f].owners => p \in Settled.files[f].owners
<1> DEFINE gone == Orphans(Claimed.packages) \ op.restored
<1>1. /\ p \notin gone /\ Lists(Claimed.packages, p, f)
      /\ Claimed.files[f] # None /\ Settled.files[f].sha = Claimed.files[f].sha
  BY SettledIsTyped DEF Lists
<1>2. Claimed \in View /\ Vacated \in View /\ op.view \in View
  BY ClaimedIsTyped, VacatedIsTyped, OpIs
<1>3. Settled.files[f].owners = Claimed.files[f].owners \ gone
  <2>1. Disowned(Claimed, gone).files[f].owners = Claimed.files[f].owners \ gone
    BY <1>1, <1>2, DisownedOwners
  <2>2. Settled.files = Disowned(Claimed, gone).files
    <3> DEFINE packages == [q \in Package |-> IF q \in gone THEN None ELSE Disowned(Claimed, gone).packages[q]]
    <3>1. Settled = [Disowned(Claimed, gone) EXCEPT !.packages = packages]
      BY DEF Settled
    <3> HIDE DEF packages
    <3>2. Disowned(Claimed, gone) \in View
      BY <1>2, DisownedIsTyped
    <3>3. QED
      BY <3>1, <3>2 DEF View
  <2>3. QED
    BY <2>1, <2>2
<1>4. CASE f \in Targets
  <2>1. Claimed.files[f].sha = Chosen(f)
    BY <1>4 DEF Claimed
  <2>2. QED
    BY <1>1, <1>4, <2>1
<1>5. CASE f \notin Targets
  <2>1. Claimed.files[f] = Vacated.files[f]
    BY <1>5 DEF Claimed
  <2>2. p \notin Items
    <3> SUFFICES ASSUME p \in Items PROVE f \in Targets
      BY <1>5
    <3>1. f \in NextRecord(p).files
      BY <1>1, ClaimedIsTyped DEF Lists
    <3>2. Kind(p) # "loader" /\ Holds(p, f) # None
      BY <3>1 DEF NextRecord
    <3>3. p \in Recorders(f)
      BY <3>2 DEF Recorders, Incoming, Is
    <3>4. QED
      BY <3>3 DEF Targets
  <2>3. Lists(op.view.packages, p, f)
    BY <1>1, <2>2, ClaimedIsTyped DEF Lists
  <2>4. /\ f \notin Taken /\ op.view.files[f] # None /\ Vacated.files[f].sha = op.view.files[f].sha
    BY <1>1, <2>1, VacatedIsTyped
  <2>5. Vacated.files[f].owners = op.view.files[f].owners \ Items
    <3> DEFINE packages == [q \in Package |-> IF q \in Evicted THEN None ELSE op.view.packages[q]]
               v == [op.view EXCEPT !.packages = packages]
               w == Without(v, Taken)
    <3>1. packages \in [Package -> PackageRecord \cup {None}]
      BY <1>2 DEF View
    <3> HIDE DEF packages
    <3>2. v \in View /\ v.files = op.view.files
      BY <1>2, <3>1, DroppedIsTyped
    <3> HIDE DEF v
    <3>3. w \in View /\ w.files[f] = op.view.files[f]
      BY <2>4, <3>2, WithoutIsTyped
    <3>4. Vacated = Disowned(w, Items)
      BY DEF Vacated, w, v, packages
    <3> HIDE DEF w
    <3>5. QED
      BY <2>4, <3>3, <3>4, DisownedOwners
  <2>6. p \in op.view.files[f].owners => p \in Settled.files[f].owners
    BY <1>1, <1>3, <2>1, <2>2, <2>5
  <2>7. QED
    BY <1>1, <1>5, <2>1, <2>2, <2>3, <2>4, <2>6
<1>6. QED
  BY <1>4, <1>5

LEMMA CheckPlanAccords == ASSUME Recorded, CheckPlan PROVE Accords'
<1>1. /\ op.at = "restore" /\ Types
      /\ UNCHANGED <<registry, disk, records, original, zips, archives, reader, used, suspect, mine>>
  BY CheckPlanShape DEF Recorded, Undoable
<1>2. CASE op' = Idle
  BY <1>1, <1>2, EndAccords
<1>3. CASE /\ install' = install /\ op'.at = "apply" /\ op'.view.packages = Settled.packages
           /\ \A f \in File : op'.view.files[f] \in {None, Settled.files[f]}
           /\ \A f \in File : op'.obsolete[f] # None => op'.view.files[f] = None
           /\ op'.clear = Clearing /\ op'.put = Putable /\ op'.before = disk
  <2>1. RecordsFit' /\ ListedAreKept' /\ ArchivedAreBare'
    BY <1>1, <1>3 DEF RecordsFit, Recorded, Accords, ListedAreKept, ArchivedAreBare
  <2>2. ASSUME NEW f \in Targets PROVE f \in File /\ f \in Putable /\ Chosen(f) # None
    <3>1. f \in File /\ Incoming(f) # {} /\ install # None
      BY <1>1 DEF Targets, Recorders, Types
    <3>2. QED
      BY <1>1, <3>1, ChosenIsContent, ValuesApart DEF Putable
  <2>3. \A f \in File : Settled.files[f] # None => Settled.files[f].sha # None
    BY <1>1, <2>2, SettledIsTyped, ClaimedIsTyped DEF Recorded, Accords, ViewHasDigests
  <2>4. ViewHasDigests'
    BY <1>3, <2>3 DEF ViewHasDigests
  <2>5. ASSUME NEW p \in Package, NEW f \in File, Lists(op'.view.packages, p, f), op'.view.files[f] # None
        PROVE \/ f \in op'.put /\ op'.view.files[f].sha = Chosen(f)'
              \/ /\ Fits(op'.view.files[f], disk, suspect, f)
                 /\ ~(op'.clear /\ f \in registry.area)
                 /\ f \in op'.put => ClaimedByAnother(f)'
    <3>1. op'.view.files[f] = Settled.files[f] /\ Chosen(f)' = Chosen(f)
          /\ Patches(f)' = Patches(f) /\ Items' = Items
      BY <1>1, <1>3, <2>5, SameIncoming
    <3>2. CASE f \in Targets /\ Settled.files[f].sha = Chosen(f)
      BY <1>3, <2>2, <3>1, <3>2
    <3>3. CASE /\ f \notin Targets /\ f \notin Taken /\ p \notin Items
               /\ Lists(op.view.packages, p, f)
               /\ op.view.files[f] # None /\ Settled.files[f].sha = op.view.files[f].sha
               /\ p \in op.view.files[f].owners => p \in Settled.files[f].owners
      <4>1. p \in op.view.files[f].owners /\ Fits(op.view.files[f], disk, suspect, f)
        BY <1>1, <3>3 DEF Recorded, Accords, RestoringAgrees
      <4>2. Fits(op'.view.files[f], disk, suspect, f)
        BY <3>1, <3>3, <4>1 DEF Fits
      <4>3. ~(op'.clear /\ f \in registry.area)
        BY <1>3, <3>3 DEF Clearing, Taken
      <4>4. Patches(f) = {}
        BY <3>3 DEF Targets, Recorders, Patches, Is
      <4>5. op'.view.files[f].sha # Chosen(f) => ClaimedByAnother(f)'
        BY <2>5, <3>1, <3>3, <4>1, <4>4 DEF ClaimedByAnother
      <4>6. QED
        BY <3>1, <4>2, <4>3, <4>5
    <3>4. QED
      BY <1>1, <1>3, <2>5, <3>1, <3>2, <3>3, SettledLists
  <2>6. ApplyingAgrees'
    BY <1>1, <1>3, <2>5 DEF ApplyingAgrees
  <2>7. QED
    BY <1>3, <2>1, <2>4, <2>6 DEF Accords, RestoringAgrees, RemovingAgrees
<1>4. QED
  BY <1>1, <1>2, <1>3, CheckPlanShape

(* ------------------------ the transaction of an install ----------------- *)
LEMMA ApplyStepAccords ==
  ASSUME Recorded, op.at = "apply", op'.at = "apply", op'.view = op.view, op'.before = op.before,
         UNCHANGED <<records, archives, suspect>>, ApplyingAgrees'
  PROVE Accords'
BY DEF Recorded, Accords, RecordsFit, ListedAreKept, ArchivedAreBare, ViewHasDigests,
       RestoringAgrees, RemovingAgrees

LEMMA ClearTakenAccords == ASSUME Recorded, ClearTaken PROVE Accords'
<1>1. /\ op.at = "apply" /\ op.clear /\ op'.at = "apply" /\ op'.before = op.before /\ op'.view = op.view
      /\ op'.put = op.put /\ op'.obsolete = op.obsolete /\ op'.clear = FALSE
      /\ \A f \in File : f \notin registry.area => disk'[f] = disk[f]
  BY ClearTakenShape DEF ClearTaken, ApplyOp, Recorded, Undoable
<1>2. UNCHANGED <<registry, records, archives, install, suspect>>
  BY DEF ClearTaken
<1>3. \A f : /\ ClaimedByAnother(f)' <=> ClaimedByAnother(f)
             /\ Chosen(f)' = Chosen(f)
  BY <1>1, <1>2, SameClaims, SameIncoming
<1>4. ApplyingAgrees'
  BY <1>1, <1>2, <1>3 DEF Recorded, Accords, ApplyingAgrees, Fits
<1>5. QED
  BY <1>1, <1>2, <1>4, ApplyStepAccords

LEMMA DeleteObsoleteAccords ==
  ASSUME Recorded, NEW f \in File, DeleteObsolete(f) PROVE Accords'
<1>0. Types /\ op.obsolete[f] # None
  BY DEF DeleteObsolete, Recorded, Undoable
<1>1. /\ op.at = "apply" /\ op'.at = "apply" /\ op'.before = op.before /\ op'.view = op.view
      /\ op'.put = op.put /\ op'.clear = op.clear
      /\ \A g \in File : op'.obsolete[g] # None => op.obsolete[g] # None
      /\ \A g \in File : g # f => disk'[g] = disk[g]
  BY <1>0, DeleteObsoleteShape DEF ApplyOp
<1>2. UNCHANGED <<registry, records, archives, install, suspect>>
  BY DEF DeleteObsolete, stores
<1>3. \A g : /\ ClaimedByAnother(g)' <=> ClaimedByAnother(g)
             /\ Chosen(g)' = Chosen(g)
  BY <1>1, <1>2, SameClaims, SameIncoming
<1>4. op.view.files[f] = None
  BY <1>0, <1>1 DEF Recorded, Accords, ApplyingAgrees
<1>5. ApplyingAgrees'
  BY <1>1, <1>2, <1>3, <1>4 DEF Recorded, Accords, ApplyingAgrees, Fits
<1>6. QED
  BY <1>1, <1>2, <1>5, ApplyStepAccords

LEMMA PutFileAccords ==
  ASSUME Recorded, NEW f \in File, PutFile(f) PROVE Accords'
<1> DEFINE skip == disk[f] = Chosen(f) \/ ClaimedByAnother(f)
<1>1. /\ op.at = "apply" /\ op'.at = "apply" /\ op'.before = op.before /\ op'.view = op.view
      /\ op'.put = op.put \ {f} /\ op'.clear = op.clear /\ op'.obsolete = op.obsolete
      /\ f \in op.put /\ ~op.clear
      /\ \A g \in File : disk'[g] = IF ~skip /\ g = f THEN Chosen(f) ELSE disk[g]
  BY PutFileShape DEF PutFile, Putting, ApplyOp, Recorded, Undoable
<1>2. UNCHANGED <<registry, records, archives, install, suspect>>
  BY DEF PutFile, stores
<1>3. \A g : /\ ClaimedByAnother(g)' <=> ClaimedByAnother(g)
             /\ Chosen(g)' = Chosen(g)
  BY <1>1, <1>2, SameClaims, SameIncoming
<1>4. ASSUME NEW p \in Package, Lists(op.view.packages, p, f), op.view.files[f] # None
      PROVE Fits(op.view.files[f], disk', suspect, f)
  <2>1. \/ op.view.files[f].sha = Chosen(f)
        \/ Fits(op.view.files[f], disk, suspect, f) /\ ClaimedByAnother(f)
    BY <1>1, <1>4 DEF Recorded, Accords, ApplyingAgrees
  <2>2. CASE op.view.files[f].sha = Chosen(f)
    <3>1. ~ClaimedByAnother(f)
      BY <2>2 DEF ClaimedByAnother
    <3>2. disk'[f] = Chosen(f)
      BY <1>1, <3>1
    <3>3. QED
      BY <2>2, <3>2 DEF Fits
  <2>3. CASE Fits(op.view.files[f], disk, suspect, f) /\ ClaimedByAnother(f)
    BY <1>1, <2>3 DEF Fits
  <2>4. QED
    BY <2>1, <2>2, <2>3
<1>5. ApplyingAgrees'
  <2>1. \A g \in File : op'.obsolete[g] # None => op'.view.files[g] = None
    BY <1>1 DEF Recorded, Accords, ApplyingAgrees
  <2>2. ASSUME NEW p \in Package, NEW g \in File, Lists(op.view.packages, p, g), op.view.files[g] # None
        PROVE \/ g \in op'.put /\ op.view.files[g].sha = Chosen(g)'
              \/ /\ Fits(op.view.files[g], disk', suspect, g)
                 /\ ~(op'.clear /\ g \in registry.area)
                 /\ g \in op'.put => ClaimedByAnother(g)'
    <3>1. CASE g = f
      BY <1>1, <1>4, <2>2, <3>1
    <3>2. CASE g # f
      <4>1. disk'[g] = disk[g] /\ (g \in op'.put <=> g \in op.put)
        BY <1>1, <3>2
      <4>2. QED
        BY <1>1, <1>3, <2>2, <4>1 DEF Recorded, Accords, ApplyingAgrees, Fits
    <3>3. QED
      BY <3>1, <3>2
  <2>3. QED
    BY <1>1, <1>2, <2>1, <2>2 DEF ApplyingAgrees
<1>6. QED
  BY <1>1, <1>2, <1>5, ApplyStepAccords

\* What save() writes for a file: its entry, or a blank digest if a package lists it without one.
LEMMA StoredIs ==
  ASSUME NEW v \in View, NEW d, NEW s,
         \A f \in File : v.files[f] = None \/ v.files[f].sha # None,
         \A p \in Package, f \in File : Lists(v.packages, p, f) => Fits(v.files[f], d, s, f)
  PROVE /\ Stored(v).packages = v.packages
        /\ \A p \in Package, f \in File : Lists(v.packages, p, f) =>
             Stored(v).sha[f] # None /\ (Stored(v).sha[f] \in {Blank, d[f]} \/ f \in s)
<1>1. Stored(v).packages = v.packages
  BY DEF Stored
<1>2. ASSUME NEW p \in Package, NEW f \in File, Lists(v.packages, p, f)
      PROVE Stored(v).sha[f] # None /\ (Stored(v).sha[f] \in {Blank, d[f]} \/ f \in s)
  <2>1. p \in Listing(v.packages, f)
    BY <1>2 DEF Lists, Listing, Present
  <2>2. Stored(v).sha[f] = IF v.files[f] # None THEN v.files[f].sha ELSE Blank
    BY <2>1 DEF Stored
  <2>3. QED
    BY <1>2, <2>2, ValuesApart DEF Fits
<1>3. QED
  BY <1>1, <1>2

LEMMA SaveInstallAccords == ASSUME Recorded, SaveInstall PROVE Accords'
<1>1. /\ op.at = "apply" /\ op.put = {} /\ op.view \in View /\ op' = Idle
      /\ records' = Stored(op.view) /\ suspect' = {f \in suspect : disk[f] # records'.sha[f]}
      /\ disk' = disk /\ archives' = archives
  BY OpIs DEF SaveInstall, stores, Recorded, Undoable
<1>2. \A f \in File : op.view.files[f] = None \/ op.view.files[f].sha # None
  BY <1>1 DEF Recorded, Accords, ViewHasDigests
<1>3. \A p \in Package, f \in File : Lists(op.view.packages, p, f) => Fits(op.view.files[f], disk, suspect, f)
  BY <1>1 DEF Recorded, Accords, ApplyingAgrees, Fits
<1>4. \A p \in Package, f \in File : Lists(records'.packages, p, f) =>
        records'.sha[f] # None /\ (records'.sha[f] \in {Blank, disk[f]} \/ f \in suspect)
  <2> DEFINE v == op.view
  <2> HIDE DEF v
  <2>1. v \in View /\ records' = Stored(v) /\ v = op.view
    BY <1>1 DEF v
  <2>2. QED
    BY <1>2, <1>3, <2>1, StoredIs
<1>5. Agree(records', disk', suspect')
  BY <1>1, <1>4 DEF Agree
<1>6. ListedAreKept' /\ ArchivedAreBare'
  BY <1>1, <1>4 DEF ListedAreKept, ArchivedAreBare, Recorded, Accords
<1>7. QED
  BY <1>1, <1>5, <1>6, IdleAccords

LEMMA ApplyingAccords == ASSUME Recorded, Applying PROVE Accords'
<1>1. ASSUME NEW f \in File, ArchiveOriginal(f) PROVE Accords'
  BY <1>1, ArchiveOriginalShape, SameAccords DEF Recorded, Undoable
<1>2. QED
  BY <1>1, ApplyBeginAccords, RestoreArchiveAccords, CheckPlanAccords, ClearTakenAccords,
     DeleteObsoleteAccords, PutFileAccords, SaveInstallAccords DEF Applying

(* ------------------------------ a removal ------------------------------- *)
LEMMA StartRemoveAccords ==
  ASSUME Recorded, op = Idle, NEW p \in Package, StartRemove(p),
         UNCHANGED <<disk, records, original, archives, suspect>>
  PROVE Accords'
<1>1. /\ op'.at = "remove" /\ op'.unwritten = {} /\ op'.before = disk
      /\ \A f \in op'.unpatch : original[f] # None
      /\ \A q \in Package : op'.view.packages[q] \in {None, records.packages[q]}
      /\ \A f \in File : op'.view.files[f] # None => op'.view.files[f].sha = records.sha[f]
                                                     /\ records.sha[f] # None
  BY StartRemoveTypes DEF Recorded, Undoable
<1>2. Agree(records, disk, suspect)
  BY IdleIsTyped DEF Recorded, Accords, RecordsFit
<1>3. RecordsFit' /\ ListedAreKept' /\ ArchivedAreBare' /\ ViewHasDigests'
  BY <1>1, <1>2 DEF RecordsFit, Recorded, Accords, ListedAreKept, ArchivedAreBare, ViewHasDigests
<1>4. ASSUME NEW q \in Package, NEW f \in File
      PROVE /\ Lists(op'.view.packages, q, f) => Lists(records.packages, q, f)
            /\ Lists(records.packages, q, f) => Fits(op'.view.files[f], disk, suspect, f)
  BY <1>1, <1>2 DEF Lists, Fits, Agree
<1>5. RemovingAgrees'
  BY <1>1, <1>4 DEF RemovingAgrees
<1>6. QED
  BY <1>1, <1>3, <1>5 DEF Accords, RestoringAgrees, ApplyingAgrees

LEMMA BeginAccords == ASSUME Recorded, Begin PROVE Accords'
<1>1. ASSUME NEW p \in Package, BeginRemove(p) PROVE Accords'
  BY <1>1, StartRemoveAccords DEF BeginRemove, Quiet, stores
<1>2. ASSUME NEW p \in Package, NEW force \in BOOLEAN, NEW release \in 1..Newest(p),
             BeginInstall(p, release, force)
      PROVE Accords'
  BY <1>2, EndAccords, IdleIsTyped DEF BeginInstall, Quiet, stores, history
<1>3. QED
  BY <1>1, <1>2 DEF Begin

LEMMA DisplaceAccords == ASSUME Recorded, NEW p \in Package, Displace(p) PROVE Accords'
<1>1. op = Idle /\ UNCHANGED <<disk, records, original, archives, suspect>>
  BY DEF Displace, stores
<1>2. CASE CanRemove(p)
  BY <1>1, <1>2, StartRemoveAccords DEF Displace
<1>3. CASE ~CanRemove(p)
  BY <1>1, <1>3, EndAccords, IdleIsTyped DEF Displace
<1>4. QED
  BY <1>2, <1>3

LEMMA RemoveStepAccords ==
  ASSUME Recorded, op.at = "remove", op'.at = "remove", op'.before = op.before,
         records' = records, suspect \subseteq suspect', ArchivedAreBare', ViewHasDigests',
         RemovingAgrees'
  PROVE Accords'
<1>1. RecordsFit'
  BY DEF Recorded, Accords, RecordsFit, Agree
<1>2. ListedAreKept'
  BY DEF Recorded, Accords, ListedAreKept
<1>3. QED
  BY <1>1, <1>2 DEF Accords, RestoringAgrees, ApplyingAgrees

\* A step on the files alone: an entry of the view goes, or is on disk.
LEMMA RemoveFilesAccords ==
  ASSUME Recorded, op.at = "remove", op'.at = "remove", SameDealings, op'.unpatch \subseteq op.unpatch,
         op'.view.packages = op.view.packages,
         UNCHANGED <<records, original, archives, suspect>>,
         \A f \in File : \/ op'.view.files[f] = op.view.files[f] /\ disk'[f] = disk[f]
                         \/ op'.view.files[f] = None
                         \/ op'.view.files[f].sha = disk'[f] /\ disk'[f] # None
  PROVE Accords'
<1>1. ArchivedAreBare' /\ ViewHasDigests'
  BY DEF Recorded, Accords, ArchivedAreBare, ViewHasDigests
<1>2. \A f : Unnoted(f)' <=> Unnoted(f)
  BY DEF Unnoted, SameDealings
<1>3. RemovingAgrees'
  BY <1>2 DEF Recorded, Accords, RemovingAgrees, SameDealings, Fits
<1>4. QED
  BY <1>1, <1>3, RemoveStepAccords DEF SameDealings

LEMMA RestoreTakenAccords == ASSUME Recorded, RestoreTaken PROVE Accords'
<1>1. /\ op.at = "remove" /\ op'.at = "remove" /\ SameDealings /\ op'.unpatch = op.unpatch
      /\ op'.view = Without(op.view, registry.area) /\ op.view \in View
  BY RestoreTakenShape, OpIs DEF RestoreTaken, Removal, Recorded, Undoable
<1>2. \A f \in File : f \notin registry.area => disk'[f] = disk[f]
  BY DEF RestoreTaken
<1>3. UNCHANGED <<records, original, archives, suspect>>
  BY DEF RestoreTaken, stores
<1>4. QED
  BY <1>1, <1>2, <1>3, WithoutIsTyped, RemoveFilesAccords

LEMMA UnpatchAccords == ASSUME Recorded, NEW f \in File, Unpatch(f) PROVE Accords'
<1>1. op.at = "remove" /\ f \in op.unpatch /\ UNCHANGED <<records, original, archives, suspect>>
  BY DEF Unpatch, Removal, stores
<1>2. Types /\ original[f] # None
  BY <1>1 DEF Recorded, Undoable, Accords, RemovingAgrees
<1> DEFINE e == op.view.files[f]
           puts == /\ e # None /\ disk[f] # None
                   /\ e.owners \cap Is("patch") = {} /\ disk[f] = e.sha
<1>3. /\ op'.at = "remove" /\ SameDealings /\ op'.unpatch \subseteq op.unpatch
      /\ op'.view.packages = op.view.packages
      /\ \A g \in File : g # f => op'.view.files[g] = op.view.files[g]
      /\ IF puts THEN op'.view.files[f] = None \/ op'.view.files[f].sha = original[f]
         ELSE op'.view.files[f] = e
  BY <1>2, UnpatchShape
<1>4. \A g \in File : disk'[g] = IF puts /\ g = f THEN original[f] ELSE disk[g]
  BY <1>2 DEF Unpatch, Types, Slot
<1> HIDE DEF puts, e
<1>5. \A g \in File : \/ op'.view.files[g] = op.view.files[g] /\ disk'[g] = disk[g]
                      \/ op'.view.files[g] = None
                      \/ op'.view.files[g].sha = disk'[g] /\ disk'[g] # None
  BY <1>2, <1>3, <1>4 DEF e
<1>6. QED
  BY <1>1, <1>3, <1>5, RemoveFilesAccords

LEMMA UnlinkAccords == ASSUME Recorded, NEW f \in File, Unlink(f) PROVE Accords'
<1>1. op.at = "remove" /\ Types /\ UNCHANGED <<records, original, archives, suspect>>
  BY DEF Unlink, Unlinking, Removal, stores, Recorded, Undoable
<1>2. /\ op'.at = "remove" /\ SameDealings /\ op'.unpatch = op.unpatch
      /\ op'.view.packages = op.view.packages /\ op'.view.files[f] = None
      /\ \A g \in File : g # f => op'.view.files[g] = op.view.files[g]
  BY <1>1, UnlinkShape
<1>3. \A g \in File : g # f => disk'[g] = disk[g]
  BY <1>1 DEF Unlink, Types, Slot
<1>4. QED
  BY <1>1, <1>2, <1>3, RemoveFilesAccords

LEMMA ManifestsStay ==
  ASSUME Recorded, \A k \in Package : archives'[k].manifest = archives[k].manifest
  PROVE ArchivedAreBare'
BY DEF Recorded, Accords, ArchivedAreBare

LEMMA KeepLoaderAccords == ASSUME Recorded, NEW l \in Package, KeepLoader(l) PROVE Accords'
<1>1. op \in RemoveOp /\ op.at = "remove" /\ op.view \in View /\ Bare(op.view.packages) /\ op.unwritten = {}
  BY OpIs DEF KeepLoader, Moving, Removal, Types, AllBare, Recorded, Undoable
<1>2. op.kept \cup {l} \in SUBSET Package
  BY <1>1 DEF RemoveOp
<1>3. /\ op'.at = "remove" /\ op'.before = op.before /\ op'.unpatch = op.unpatch /\ op'.unwritten = {}
      /\ op'.view.files = op.view.files
      /\ \A p \in Package : op'.view.packages[p] \in {op.view.packages[p], records.packages[p]}
  BY <1>1, <1>2, DealtIsTyped DEF KeepLoader, Recorded, Undoable
<1>4. suspect' = suspect \cup {f \in File : disk[f] # None /\ disk'[f] # disk[f]}
  BY DEF KeepLoader
<1>5. records' = records /\ original' = original
  BY DEF KeepLoader
<1>6. ArchivedAreBare'
  <2>1. PICK payload : archives' = [archives EXCEPT ![l].payload = payload]
    BY DEF KeepLoader
  <2>2. \A k \in Package : archives'[k].manifest = archives[k].manifest
    BY <2>1 DEF Recorded, Undoable, Types, Archive
  <2>3. QED
    BY <2>2, ManifestsStay
<1>7. ViewHasDigests'
  BY <1>1, <1>3 DEF Recorded, Accords, ViewHasDigests
<1>8. ASSUME NEW p \in Package, NEW f \in File
      PROVE /\ Lists(op'.view.packages, p, f) => Lists(records.packages, p, f)
            /\ Lists(records.packages, p, f) => Fits(op'.view.files[f], disk', suspect', f)
  <2>1. Lists(op'.view.packages, p, f) => Lists(records.packages, p, f)
    BY <1>1, <1>3 DEF Recorded, Accords, RemovingAgrees, Lists
  <2>2. ASSUME Lists(records.packages, p, f) PROVE Fits(op.view.files[f], disk', suspect', f)
    <3>1. Fits(op.view.files[f], disk, suspect, f)
      BY <1>1, <2>2 DEF Recorded, Accords, RemovingAgrees, Unnoted
    <3>2. op.view.files[f] # None => op.view.files[f].sha # None
      BY <1>1 DEF Recorded, Accords, ViewHasDigests
    <3>3. disk[f] = None \/ disk'[f] = disk[f] \/ f \in suspect'
      BY <1>4
    <3>4. QED
      BY <1>4, <3>1, <3>2, <3>3 DEF Fits
  <2>3. QED
    BY <1>3, <2>1, <2>2
<1>9. RemovingAgrees'
  BY <1>1, <1>3, <1>5, <1>8 DEF RemovingAgrees, Recorded, Accords
<1>10. QED
  BY <1>1, <1>3, <1>4, <1>5, <1>6, <1>7, <1>9, RemoveStepAccords

LEMMA MoveLoaderAccords == ASSUME Recorded, NEW l \in Package, MoveLoader(l) PROVE Accords'
<1> DEFINE files == UNION Occupied(l)
<1>1. /\ op.at = "remove" /\ op.unwritten = {} /\ l \in op.loaders /\ Types
      /\ UNCHANGED <<registry, records, original, suspect>>
  BY DEF MoveLoader, Moving, Removal, history, Recorded, Undoable
<1>2. /\ op'.at = "remove" /\ op'.before = op.before /\ op'.unpatch = op.unpatch
      /\ op'.view.files = op.view.files
      /\ \A p \in Package : op'.view.packages[p] \in {op.view.packages[p], records.packages[p]}
      /\ IF Occupied(l) = {} THEN op'.unwritten = {}
         ELSE op'.unwritten = {[loader |-> l, files |-> files]} /\ op'.loaders = op.loaders
  BY <1>1, MoveLoaderShape
<1>3. \A f \in File : f \notin files => disk'[f] = disk[f]
  BY MoveLoaderDisk DEF Recorded
<1>4. ArchivedAreBare'
  <2>1. PICK payload : archives' = [archives EXCEPT ![l].payload = payload]
    BY DEF MoveLoader
  <2>2. \A k \in Package : archives'[k].manifest = archives[k].manifest
    BY <2>1 DEF Recorded, Undoable, Types, Archive
  <2>3. QED
    BY <2>2, ManifestsStay
<1>5. ViewHasDigests'
  BY <1>1, <1>2 DEF Recorded, Accords, ViewHasDigests
<1>6. ASSUME NEW f \in files PROVE Unnoted(f)'
  <2>1. Occupied(l) # {}
    BY <1>6
  <2> DEFINE u == [loader |-> l, files |-> files]
  <2>2. u \in op'.unwritten /\ f \in u.files
    BY <1>2, <1>6, <2>1
  <2> HIDE DEF u, files
  <2>3. QED
    BY <2>2 DEF Unnoted
<1>7. \A u \in op'.unwritten : u.loader \in op'.loaders
  <2> HIDE DEF files
  <2>1. QED
    BY <1>1, <1>2
<1> HIDE DEF files
<1>8. ASSUME NEW p \in Package, NEW f \in File
      PROVE /\ Lists(op'.view.packages, p, f) => Lists(records.packages, p, f)
            /\ Lists(records.packages, p, f) => Fits(op'.view.files[f], disk', suspect, f) \/ Unnoted(f)'
  <2>1. Lists(op'.view.packages, p, f) => Lists(records.packages, p, f)
    BY <1>1, <1>2 DEF Recorded, Accords, RemovingAgrees, Lists
  <2>2. Lists(records.packages, p, f) => Fits(op.view.files[f], disk, suspect, f)
    BY <1>1 DEF Recorded, Accords, RemovingAgrees, Unnoted
  <2>3. QED
    BY <1>2, <1>3, <1>6, <2>1, <2>2 DEF Fits
<1>9. RemovingAgrees'
  BY <1>1, <1>2, <1>7, <1>8 DEF RemovingAgrees, Recorded, Accords
<1>10. QED
  BY <1>1, <1>2, <1>4, <1>5, <1>9, RemoveStepAccords

\* What a manifest takes along of the packages has no file; what it leaves lists no more than before.
LEMMA ManifestIsBare ==
  ASSUME Recorded, op.at # "idle", NEW l \in Package, NEW files \in SUBSET File
  PROVE /\ \A p \in Package : Manifest(l, files).packages[p] = None
                              \/ Manifest(l, files).packages[p].files = {}
        /\ \A f \in File : Manifest(l, files).files[f] = None \/ Manifest(l, files).files[f].sha # None
        /\ \A p \in Package, f \in File : Lists(Rest(files).packages, p, f) => Lists(op.view.packages, p, f)
        /\ \A f \in File : Rest(files).files[f] = IF f \in files THEN None ELSE op.view.files[f]
<1>1. op.view \in View /\ Types
  BY OpIs DEF Recorded, Undoable
<1>2. ASSUME NEW p \in Package, op.view.packages[p] # None
      PROVE Lifted(p, files).files = Stays(p, files)
  <2> DEFINE r == op.view.packages[p]
             s == Stays(p, files)
  <2>1. r \in PackageRecord
    BY <1>1, <1>2 DEF View
  <2>2. Lifted(p, files) = [r EXCEPT !.files = s]
    BY DEF Lifted
  <2> HIDE DEF r, s
  <2>3. Lifted(p, files).files = s
    BY <2>1, <2>2 DEF PackageRecord
  <2>4. QED
    BY <2>3 DEF s
<1>3. \A p \in Package : Stays(p, files) \subseteq op.view.packages[p].files
  BY DEF Stays
<1>4. /\ \A p \in Package : Written(l).packages[p] = None \/ Written(l).packages[p].files = {}
      /\ \A f \in File : Written(l).files[f] = None \/ Written(l).files[f].sha # None
  BY DEF Written, NoSlot, Recorded, Accords, ArchivedAreBare
<1>5. \A p \in Goes(files) : op.view.packages[p] # None /\ Stays(p, files) = {}
  BY DEF Goes, Present
<1> HIDE DEF Lifted, Stays
<1>6. \A p \in Package : Manifest(l, files).packages[p] = None \/ Manifest(l, files).packages[p].files = {}
  BY <1>2, <1>4, <1>5 DEF Manifest
<1>7. \A f \in File : Manifest(l, files).files[f] = None \/ Manifest(l, files).files[f].sha # None
  BY <1>4 DEF Manifest, TakenAlong, Recorded, Accords, ViewHasDigests
<1>8. /\ Rest(files).packages = Trimmed(files)
      /\ \A f \in File : Rest(files).files[f] = IF f \in files THEN None ELSE op.view.files[f]
  <2> DEFINE w == Without(op.view, files)
             t == Trimmed(files)
  <2>1. w \in View /\ \A f \in File : w.files[f] = IF f \in files THEN None ELSE op.view.files[f]
    BY <1>1, WithoutIsTyped
  <2>2. Rest(files) = [w EXCEPT !.packages = t]
    BY DEF Rest
  <2> HIDE DEF w, t
  <2>3. Rest(files).packages = t /\ Rest(files).files = w.files
    BY <2>1, <2>2 DEF View
  <2>4. QED
    BY <2>1, <2>3 DEF t
<1>9. ASSUME NEW p \in Package, NEW f \in File, Lists(Rest(files).packages, p, f)
      PROVE Lists(op.view.packages, p, f)
  <2>1. op.view.packages[p] # None /\ Trimmed(files)[p] = Lifted(p, files)
    BY <1>8, <1>9 DEF Lists, Trimmed
  <2>2. QED
    BY <1>2, <1>3, <1>8, <1>9, <2>1 DEF Lists
<1>10. QED
  BY <1>6, <1>7, <1>8, <1>9

LEMMA WriteManifestAccords ==
  ASSUME Recorded, NEW l \in Package, NEW files \in SUBSET File, WriteManifest(l, files)
  PROVE Accords'
<1>1. /\ op.at = "remove" /\ Types /\ [loader |-> l, files |-> files] \in op.unwritten
      /\ UNCHANGED <<disk, records, original, suspect>>
  BY DEF WriteManifest, Removal, history, Recorded, Undoable
<1>2. /\ op'.at = "remove" /\ op'.before = op.before /\ op'.unpatch = op.unpatch /\ op'.unwritten = {}
      /\ op'.view.files = Rest(files).files
      /\ \A p \in Package : op'.view.packages[p] \in {Rest(files).packages[p], records.packages[p]}
      /\ archives'[l].manifest = Manifest(l, files)
      /\ \A k \in Package : k # l => archives'[k].manifest = archives[k].manifest
  BY <1>1, WriteManifestShape
<1>3. /\ \A p \in Package : Manifest(l, files).packages[p] = None \/ Manifest(l, files).packages[p].files = {}
      /\ \A f \in File : Manifest(l, files).files[f] = None \/ Manifest(l, files).files[f].sha # None
      /\ \A p \in Package, f \in File : Lists(Rest(files).packages, p, f) => Lists(op.view.packages, p, f)
      /\ \A f \in File : Rest(files).files[f] = IF f \in files THEN None ELSE op.view.files[f]
  BY <1>1, ManifestIsBare
<1>4. ASSUME NEW f \in File, Unnoted(f) PROVE f \in files
  <2> DEFINE u == [loader |-> l, files |-> files]
  <2>1. MovedOnce
    BY <1>1 DEF Recorded, Undoable, RemovalUndoable
  <2>2. u \in op.unwritten /\ u.files = files
    BY <1>1
  <2> HIDE DEF u
  <2>3. \A v \in op.unwritten : v = u
    BY <2>1, <2>2 DEF MovedOnce
  <2>4. QED
    BY <1>4, <2>2, <2>3 DEF Unnoted
<1>5. ArchivedAreBare'
  BY <1>2, <1>3 DEF Recorded, Accords, ArchivedAreBare
<1>6. ViewHasDigests'
  BY <1>1, <1>2, <1>3 DEF Recorded, Accords, ViewHasDigests
<1>7. ASSUME NEW p \in Package, NEW f \in File
      PROVE /\ Lists(op'.view.packages, p, f) => Lists(records.packages, p, f)
            /\ Lists(records.packages, p, f) => Fits(op'.view.files[f], disk, suspect, f)
  <2>1. Lists(op'.view.packages, p, f) => Lists(op.view.packages, p, f) \/ Lists(records.packages, p, f)
    <3>1. CASE op'.view.packages[p] = Rest(files).packages[p]
      BY <1>3, <3>1 DEF Lists
    <3>2. CASE op'.view.packages[p] = records.packages[p]
      BY <3>2 DEF Lists
    <3>3. QED
      BY <1>2, <3>1, <3>2
  <2>2. /\ Lists(op.view.packages, p, f) => Lists(records.packages, p, f)
        /\ Lists(records.packages, p, f) => Fits(op.view.files[f], disk, suspect, f) \/ Unnoted(f)
    BY <1>1 DEF Recorded, Accords, RemovingAgrees
  <2>3. QED
    BY <1>2, <1>3, <1>4, <2>1, <2>2 DEF Fits
<1>8. RemovingAgrees'
  BY <1>1, <1>2, <1>7 DEF RemovingAgrees, Recorded, Accords
<1>9. QED
  BY <1>1, <1>2, <1>5, <1>6, <1>8, RemoveStepAccords

LEMMA SaveRemoveAccords == ASSUME Recorded, SaveRemove PROVE Accords'
<1>1. /\ op \in RemoveOp /\ op.at = "remove" /\ op.view \in View /\ op.loaders = {} /\ records' = Stored(op.view)
      /\ UNCHANGED <<disk, archives, suspect>>
  BY OpIs DEF SaveRemove, Unlinking, Removal, stores, history, Recorded, Undoable
<1>2. op'.at = "prune" /\ op'.view = op.view
  BY <1>1 DEF SaveRemove, RemoveOp
<1>3. \A f \in File : op.view.files[f] = None \/ op.view.files[f].sha # None
  BY <1>1 DEF Recorded, Accords, ViewHasDigests
<1>4. \A p \in Package, f \in File : Lists(op.view.packages, p, f) => Fits(op.view.files[f], disk, suspect, f)
  BY <1>1 DEF Recorded, Accords, RemovingAgrees, Unnoted
<1>5. \A p \in Package, f \in File : Lists(records'.packages, p, f) =>
        records'.sha[f] # None /\ (records'.sha[f] \in {Blank, disk[f]} \/ f \in suspect)
  <2> DEFINE v == op.view
  <2> HIDE DEF v
  <2>1. v \in View /\ records' = Stored(v) /\ v = op.view
    BY <1>1 DEF v
  <2>2. QED
    BY <1>3, <1>4, <2>1, StoredIs
<1>6. RecordsFit' /\ ListedAreKept' /\ ArchivedAreBare' /\ ViewHasDigests'
  BY <1>1, <1>2, <1>3, <1>5 DEF RecordsFit, Agree, ListedAreKept, ArchivedAreBare, ViewHasDigests, Recorded, Accords
<1>7. QED
  BY <1>2, <1>6 DEF Accords, RestoringAgrees, ApplyingAgrees, RemovingAgrees

LEMMA RemovingAccords == ASSUME Recorded, RemoveSteps PROVE Accords'
<1>1. CASE PruneOriginals
  BY <1>1, EndAccords DEF PruneOriginals
<1>2. QED
  BY <1>1, RestoreTakenAccords, UnpatchAccords, UnlinkAccords, KeepLoaderAccords, MoveLoaderAccords,
     WriteManifestAccords, SaveRemoveAccords, DisplaceAccords DEF RemoveSteps

(* --------------- what goes wrong, and who else is there ------------------ *)
LEMMA FailAccords == ASSUME Recorded, NEW lost \in SUBSET File, Fail(lost) PROVE Accords'
<1>1. /\ op.at \in {"apply", "remove"} /\ op' = Idle /\ records' = records /\ Types
      /\ \A l \in Package : archives'[l] = IF \E i \in 1..Len(Returning) : Returning[i] = l
                                           THEN Cleared(l) ELSE archives[l]
  BY FailShape DEF Recorded, Undoable
<1>2. suspect' = suspect \cup lost \cup Adrift \cup {f \in File : op.kept # {} /\ disk'[f] # op.before[f]}
  BY DEF Fail
<1>3. ASSUME NEW p \in Package, NEW f \in File, Lists(records.packages, p, f), f \notin suspect'
      PROVE records.sha[f] \in {Blank, disk'[f]}
  <2>1. records.sha[f] # None /\ records.sha[f] \in {Blank, op.before[f]}
    BY <1>1, <1>2, <1>3 DEF Recorded, Accords, ListedAreKept, RecordsFit, Agree
  <2>2. CASE op.kept = {}
    <3>1. disk'[f] = op.before[f] \/ op.before[f] = None
      BY <1>2, <1>3, <2>2, FailUndoes DEF Recorded
    <3>2. QED
      BY <2>1, <3>1
  <2>3. CASE op.kept # {}
    BY <1>2, <1>3, <2>1, <2>3
  <2>4. QED
    BY <2>2, <2>3
<1>4. Agree(records', disk', suspect') /\ ListedAreKept'
  BY <1>1, <1>3 DEF Agree, Recorded, Accords, ListedAreKept
<1>5. \A l \in Package : archives'[l].manifest \in {None, archives[l].manifest}
  BY <1>1, ClearedIsTyped
<1>6. ArchivedAreBare'
  BY <1>5 DEF Recorded, Accords, ArchivedAreBare
<1>7. QED
  BY <1>1, <1>4, <1>6, IdleAccords

LEMMA CrashAccords == ASSUME Recorded, Crash PROVE Accords'
<1>1. /\ op' = Idle /\ UNCHANGED <<disk, records, archives>>
      /\ suspect' = suspect \cup {f \in File : op.at \in {"apply", "remove"} /\ disk[f] # op.before[f]}
  BY DEF Crash, stores
<1>2. Agree(records', disk', suspect')
  BY <1>1 DEF Recorded, Accords, RecordsFit, Agree
<1>3. ListedAreKept' /\ ArchivedAreBare'
  BY <1>1 DEF Recorded, Accords, ListedAreKept, ArchivedAreBare
<1>4. QED
  BY <1>1, <1>2, <1>3, IdleAccords

\* Between two operations: what is listed from now on was listed, or is on disk.
LEMMA QuietAccords ==
  ASSUME Recorded, op = Idle, op' = Idle, archives' = archives, suspect \subseteq suspect',
         \A p \in Package, f \in File : Lists(records'.packages, p, f) =>
           \/ records'.sha[f] = disk'[f] /\ disk'[f] # None
           \/ /\ Lists(records.packages, p, f) /\ records'.sha[f] \in {Blank, records.sha[f]}
              /\ disk'[f] = disk[f] \/ f \in suspect'
  PROVE Accords'
<1>1. Agree(records, disk, suspect)
  BY IdleIsTyped DEF Recorded, Accords, RecordsFit
<1>2. Agree(records', disk', suspect') /\ ListedAreKept'
  BY <1>1, ValuesApart DEF Agree, ListedAreKept, Recorded, Accords
<1>3. ArchivedAreBare'
  BY DEF Recorded, Accords, ArchivedAreBare
<1>4. QED
  BY <1>2, <1>3, IdleAccords

LEMMA ReconciledLists ==
  ASSUME NEW r \in Records, Bare(r.packages), NEW p \in Package, NEW f \in File,
         Lists(Reconciled(r).packages, p, f)
  PROVE Lists(r.packages, p, f) /\ Reconciled(r).sha[f] \in {Blank, r.sha[f]}
<1>1. Reconciled(r) = Stored(KeptView(r))
  BY DEF Reconciled, KeptView, KeptRecord, KeptEntry, KeptFiles, LostPackages, Vanished
<1>2. KeptView(r).packages[p] # None /\ f \in KeptView(r).packages[p].files
  BY <1>1 DEF Stored, Lists
<1>3. r.packages[p] # None /\ f \in KeptRecord(r, p).files
  BY <1>2 DEF KeptView
<1>4. f \in KeptFiles(r, p)
  <2> DEFINE q == r.packages[p]
             s == KeptFiles(r, p)
  <2>1. q \in PackageRecord /\ KeptRecord(r, p) = [q EXCEPT !.files = s]
    BY <1>3 DEF Records, KeptRecord
  <2> HIDE DEF q, s
  <2>2. KeptRecord(r, p).files = s
    BY <2>1 DEF PackageRecord
  <2>3. QED
    BY <1>3, <2>2 DEF s
<1>5. /\ f \in r.packages[p].files /\ r.sha[f] # None /\ f \notin Vanished(r)
  BY <1>4 DEF KeptFiles
<1>6. KeptView(r).files[f] = KeptEntry(r, f)
  BY <1>5 DEF KeptView
<1>7. p \in Listing(KeptView(r).packages, f)
  BY <1>2 DEF Listing, Present
<1>8. Reconciled(r).sha[f] \in {Blank, r.sha[f]}
  BY <1>1, <1>6, <1>7 DEF Stored, KeptEntry
<1>9. QED
  BY <1>3, <1>5, <1>8 DEF Lists

LEMMA ReaderSaveAccords == ASSUME Recorded, ReaderSave PROVE Accords'
<1>1. /\ op = Idle /\ op' = Idle /\ reader.read = records /\ UNCHANGED <<disk, archives, suspect>>
      /\ records' = IF Reconciled(records) = records THEN records ELSE Reconciled(records)
  BY DEF ReaderSave, stores, Recorded, Requests, ReaderWaits
<1>2. records \in Records /\ Bare(records.packages)
  BY DEF Recorded, Undoable, Types, AllBare
<1>3. records' = Reconciled(records)
  BY <1>1
<1>4. \A p \in Package, f \in File : Lists(records'.packages, p, f) =>
        Lists(records.packages, p, f) /\ records'.sha[f] \in {Blank, records.sha[f]}
  BY <1>2, <1>3, ReconciledLists
<1>5. QED
  BY <1>1, <1>4, QuietAccords

LEMMA AdoptAccords ==
  ASSUME Recorded, NEW p \in Package, NEW release \in 1..Newest(p), Adopt(p, release) PROVE Accords'
<1>1. /\ op = Idle /\ op' = Idle /\ Types /\ UNCHANGED <<disk, archives, suspect>>
  BY DEF Adopt, Quiet, stores, Recorded, Undoable
<1>2. /\ \A q \in Package : q # p => records'.packages[q] = records.packages[q]
      /\ \A f \in File : records'.sha[f] = records.sha[f] \/ (records'.sha[f] = disk[f] /\ disk[f] \in Content)
  BY <1>1, AdoptedIs
<1> DEFINE match == {f \in File : registry.payload[p][release][f] # None
                                  /\ disk[f] = registry.payload[p][release][f]}
           r == [release |-> release, requested |-> TRUE, files |-> match, deps |-> registry.declared[p]]
           sha == [f \in File |-> IF f \in match THEN disk[f] ELSE records.sha[f]]
<1>3. records' = [packages |-> [records.packages EXCEPT ![p] = r], sha |-> sha] /\ r.files = match
  BY DEF Adopt
<1> HIDE DEF r
<1>4. records'.packages[p].files = match /\ \A f \in match : records'.sha[f] = disk[f] /\ disk[f] # None
  BY <1>1, <1>3 DEF Types, Records
<1> HIDE DEF match, sha
<1>5. \A q \in Package, f \in File : Lists(records'.packages, q, f) =>
        \/ records'.sha[f] = disk[f] /\ disk[f] # None
        \/ Lists(records.packages, q, f) /\ records'.sha[f] = records.sha[f]
  BY <1>2, <1>4, ValuesApart DEF Lists
<1>6. QED
  BY <1>1, <1>5, QuietAccords

LEMMA AdoptLoaderAccords == ASSUME Recorded, NEW p \in Package, AdoptLoader(p) PROVE Accords'
<1>1. /\ op = Idle /\ op' = Idle /\ Types /\ p \in Is("loader") /\ UNCHANGED <<registry, disk, archives, suspect>>
  BY DEF AdoptLoader, Quiet, stores, Is, Recorded, Undoable
<1>2. /\ Bare(records'.packages) /\ records'.sha = records.sha
      /\ \A q \in Package : q # p => records'.packages[q] = records.packages[q]
  BY <1>1, AdoptedLoaderIs
<1>3. \A q \in Package, f \in File : Lists(records'.packages, q, f) => Lists(records.packages, q, f)
  BY <1>1, <1>2 DEF Bare, Lists
<1>4. QED
  BY <1>1, <1>2, <1>3, QuietAccords

LEMMA TouchAccords ==
  ASSUME Recorded, NEW f \in File, NEW c \in Value \cup {None}, Touch(f, c) PROVE Accords'
<1>1. /\ op = Idle /\ op' = Idle /\ UNCHANGED <<records, archives>> /\ suspect' = suspect \cup {f}
      /\ disk' = [disk EXCEPT ![f] = c]
  BY DEF Touch, Quiet, stores
<1>2. \A g \in File : disk'[g] = disk[g] \/ g \in suspect'
  BY <1>1 DEF Recorded, Undoable, Types, Slot
<1>3. QED
  BY <1>1, <1>2, QuietAccords

LEMMA OutsideAccords == ASSUME Recorded, Outside PROVE Accords'
<1>1. CASE ReaderLoad
  BY <1>1, SameAccords DEF ReaderLoad, stores, history
<1>2. QED
  BY <1>1, FailAccords, CrashAccords, ReaderSaveAccords, AdoptAccords, AdoptLoaderAccords, TouchAccords
     DEF Outside

LEMMA NextRecorded == ASSUME Recorded, [InstallerNext]_vars PROVE Recorded'
<1>1. Undoable'
  BY NextUndo, StutterUndo DEF Recorded
<1>2. Requests'
  BY NextRequests, StutterRequests DEF Recorded
<1>3. CASE UNCHANGED vars
  <2>1. Accords'
    BY <1>3, SameAccords DEF vars
  <2>2. QED
    BY <1>1, <1>2, <2>1 DEF Recorded
<1>4. CASE InstallerNext
  <2>1. Accords'
    BY <1>4, BeginAccords, ApplyingAccords, RemovingAccords, OutsideAccords DEF InstallerNext
  <2>2. QED
    BY <1>1, <1>2, <2>1 DEF Recorded
<1>5. QED
  BY <1>3, <1>4

LEMMA InitRecorded == ASSUME ~ConcurrentReader, InstallerInit PROVE Recorded
<1>1. Undoable /\ Requests
  BY InitUndo, InitRequests
<1>2. /\ op = Idle /\ \A p \in Package : records.packages[p] = None
      /\ \A l \in Package : archives[l].manifest = None
  BY DEF InstallerInit
<1>3. QED
  BY <1>1, <1>2, IdleIsTyped
     DEF Recorded, Accords, RecordsFit, Agree, Lists, ListedAreKept, ArchivedAreBare, ViewHasDigests,
         RestoringAgrees, ApplyingAgrees, RemovingAgrees

\* As long as the reader of the environment does not save between an operation's reading of the
\* records and its saving them: between operations a file that a package lists is on disk with
\* the digest recorded for it, unless the digest is blank, the player changed the file, or a
\* crash, a lost copy or a loader that would not move tore it - whatever the index, the plans,
\* the failures and the archives that come and go.
THEOREM RecordsMatchTheDisk ==
  ASSUME ~ConcurrentReader PROVE InstallerSpec => []RecordedIsOnDisk
<1>1. InstallerInit => Recorded
  BY InitRecorded
<1>2. Recorded /\ [InstallerNext]_vars => Recorded'
  BY NextRecorded
<1>3. Recorded => RecordedIsOnDisk
  <2> SUFFICES ASSUME Recorded, op = Idle, NEW f \in File \ suspect,
                      Listing(records.packages, f) # {}, records.sha[f] # Blank
               PROVE disk[f] = records.sha[f]
    BY DEF RecordedIsOnDisk, Settling
  <2>1. PICK p \in Package : Lists(records.packages, p, f)
    BY DEF Listing, Present, Lists
  <2>2. QED
    BY <2>1, IdleIsTyped DEF Recorded, Accords, RecordsFit, Agree
<1>4. QED
  BY <1>1, <1>2, <1>3, PTL DEF InstallerSpec
(* ------------------- what the packages that stay need ----------------- *)
\* The plan of an install holds what its packages need, whatever of it is installed again.
PlanIsClosed ==
  install # None => /\ Items \subseteq install.plan
                    /\ \A x \in install.plan : registry.deps[x] \subseteq install.plan
\* Where no archive brought a package back, an install restores nothing and, once checked, is
\* about to record what its packages need.
RestoringIsSame == op.at = "restore" /\ op.restored = {} => op.view.packages = records.packages
LeftOutStays == \A p \in install.plan \ Items :
                  records.packages[p] # None /\ (Replacers = {} \/ Kind(p) # "replacer")
ApplyingMeets ==
  op.at = "apply" /\ op.restored = {} /\ LeftOutStays /\ DependenciesMet(records.packages) =>
    DependenciesMet(op.view.packages)
\* Where no loader stayed, what a removal takes is needed by nothing it leaves, and what it
\* leaves is recorded or in an archive.
RemovingMeets ==
  op.at = "remove" /\ op.kept = {} => \A p \in Package :
    /\ op.view.packages[p] # None =>
         /\ p \notin op.gone /\ records.packages[p] # None
         /\ op.view.packages[p].deps = records.packages[p].deps
    /\ records.packages[p] # None /\ p \notin op.gone =>
         /\ op.view.packages[p] # None \/ Archived(archives, p)
         /\ records.packages[p].deps \cap op.gone = {}
Needs == PlanIsClosed /\ RestoringIsSame /\ ApplyingMeets /\ RemovingMeets
Needed == Requests /\ Needs

LEMMA MetIs ==
  ASSUME NEW packages
  PROVE DependenciesMet(packages) <=>
          \A p \in Package : packages[p] # None =>
            \A d \in packages[p].deps : packages[d] # None \/ Archived(archives, d)
BY DEF DependenciesMet, Present, PutAway, Archived

LEMMA MetNextIs ==
  DependenciesMet(records.packages)' <=>
    \A p \in Package : records'.packages[p] # None =>
      \A d \in records'.packages[p].deps : records'.packages[d] # None \/ Archived(archives', d)
BY DEF DependenciesMet, Present, PutAway, Archived

\* What a package needs and a request reaches through it is no orphan.
LEMMA OrphansNeedNot ==
  ASSUME NEW packages, NEW p \in Present(packages), NEW d \in Present(packages),
         d \in packages[p].deps, p \notin Orphans(packages)
  PROVE d \notin Orphans(packages)
<1> DEFINE good(S) == \A q \in S : packages[q].requested \/ Requiring(packages, q) \cap S # {}
<1>1. PICK S \in SUBSET Present(packages) : good(S) /\ p \in S
  BY DEF Orphans
<1>2. S \cup {d} \in SUBSET Present(packages) /\ good(S \cup {d})
  <2>1. p \in Requiring(packages, d)
    BY DEF Requiring
  <2>2. QED
    BY <1>1, <2>1
<1>3. d \in UNION {T \in SUBSET Present(packages) : good(T)}
  BY <1>2
<1>4. QED
  BY <1>3 DEF Orphans

\* What stays needs nothing of what goes.
LEMMA RemovingIsClosed ==
  ASSUME NEW packages, NEW p \in Package, packages[p] # None, Requiring(packages, p) = {},
         NEW d \in Removing(packages, p), NEW q \in Present(packages), d \in packages[q].deps
  PROVE q \in Removing(packages, p)
<1> DEFINE Closed(S) == \A x \in S : \A e \in packages[x].deps \cap Present(packages) :
                          (~packages[e].requested /\ Requiring(packages, e) \subseteq S) => e \in S
<1>1. q \in Requiring(packages, d)
  BY DEF Requiring
<1>2. d # p
  BY <1>1
<1>3. d \in Present(packages) /\ \A S \in SUBSET Present(packages) : p \in S /\ Closed(S) => d \in S
  BY DEF Removing
<1>4. ASSUME NEW S \in SUBSET Present(packages), p \in S, Closed(S), q \notin S
      PROVE FALSE
  <2>1. S \ {d} \in SUBSET Present(packages) /\ p \in S \ {d}
    BY <1>2, <1>4
  <2>2. ASSUME NEW x \in S \ {d}, NEW e \in packages[x].deps \cap Present(packages),
               ~packages[e].requested, Requiring(packages, e) \subseteq S \ {d}
        PROVE e \in S \ {d}
    <3>1. e \in S
      BY <1>4, <2>2
    <3>2. e # d
      BY <1>1, <1>4, <2>2
    <3>3. QED
      BY <3>1, <3>2
  <2>3. Closed(S \ {d})
    BY <2>2
  <2>4. QED
    BY <1>3, <2>1, <2>3
<1>5. QED
  BY <1>4 DEF Removing

LEMMA PlanStays ==
  ASSUME Needed, registry' = registry, install' = install \/ install' = None
  PROVE PlanIsClosed'
BY SameIncoming DEF Needed, Needs, PlanIsClosed

\* A step that ends an operation, or comes between two.
LEMMA IdleNeeds ==
  ASSUME op' = Idle, PlanIsClosed' PROVE Needs'
BY IdleIsTyped DEF Needs, RestoringIsSame, ApplyingMeets, RemovingMeets

\* A step that works on the files alone.
LEMMA SameNeeds ==
  ASSUME Needed, op'.at = op.at, op'.view.packages = op.view.packages,
         op.at \in {"restore", "apply"} => op'.restored = op.restored,
         op.at = "remove" => op'.kept = op.kept /\ op'.gone = op.gone,
         \A l \in Package : archives'[l].manifest = archives[l].manifest,
         UNCHANGED <<registry, records, install>>
  PROVE Needs'
<1>1. PlanIsClosed' /\ RestoringIsSame'
  BY PlanStays DEF Needed, Needs, RestoringIsSame
<1>2. ApplyingMeets'
  <2>1. LeftOutStays' <=> LeftOutStays
    BY SameIncoming DEF LeftOutStays, Replacers, Is, Kind
  <2>2. DependenciesMet(records.packages)' <=> DependenciesMet(records.packages)
    BY DEF DependenciesMet, PutAway, Present
  <2>3. DependenciesMet(op.view.packages)' <=> DependenciesMet(op.view.packages)
    BY DEF DependenciesMet, PutAway, Present
  <2>4. QED
    BY <2>1, <2>2, <2>3 DEF Needed, Needs, ApplyingMeets
<1>3. RemovingMeets'
  <2>1. \A p : Archived(archives', p) <=> Archived(archives, p)
    BY DEF Archived
  <2>2. QED
    BY <2>1 DEF Needed, Needs, RemovingMeets
<1>4. QED
  BY <1>1, <1>2, <1>3 DEF Needs

LEMMA BeginInstallNeeds ==
  ASSUME Needed, NEW p \in Package, NEW force \in BOOLEAN, NEW release \in 1..Newest(p),
         BeginInstall(p, release, force)
  PROVE Needs'
<1> DEFINE at(q) == IF q = p THEN release
                    ELSE IF records.packages[q] # None /\ records.packages[q].release = Newest(q)
                    THEN 0 ELSE Newest(q)
           plan == Plan(p)
           items == [q \in Package |-> IF q \in plan THEN at(q) ELSE 0]
           away == InTheWay(plan)
<1>1. /\ op' = Idle /\ registry' = registry
      /\ install' = [root |-> p, force |-> force, plan |-> plan, items |-> items, displaced |-> away]
  BY DEF BeginInstall, Quiet
<1>2. \A q \in Package : items[q] # 0 => q \in plan
  OBVIOUS
<1>3. \A x \in plan : registry.deps[x] \subseteq plan
  <2> SUFFICES ASSUME NEW x \in plan, NEW y \in registry.deps[x] PROVE y \in plan
    OBVIOUS
  <2>1. x \in Package /\ y \in Package
    BY IndexTypes DEF Plan, Needed, Requests, Types
  <2>2. QED
    BY <2>1 DEF Plan
<1> HIDE DEF items, plan, away
<1>4. install'.items = items /\ install'.plan = plan
  BY <1>1
<1>5. PlanIsClosed'
  BY <1>1, <1>2, <1>3, <1>4 DEF PlanIsClosed, Items
<1>6. QED
  BY <1>1, <1>5, IdleNeeds

LEMMA StartRemoveNeeds ==
  ASSUME Needed, NEW p \in Package, CanRemove(p), StartRemove(p), PlanIsClosed',
         records' = records
  PROVE Needs'
<1>1. /\ op'.at = "remove" /\ op'.gone = Removing(records.packages, p)
      /\ \A q \in Package : op'.view.packages[q] = IF q \in op'.gone THEN None ELSE records.packages[q]
  BY StartRemoveTypes DEF Needed, Requests
<1>2. \A q \in Package : records.packages[q] # None /\ q \notin op'.gone =>
                           records.packages[q].deps \cap op'.gone = {}
  BY <1>1, RemovingIsClosed DEF CanRemove, Present
<1>3. RemovingMeets'
  BY <1>1, <1>2 DEF RemovingMeets
<1>4. QED
  BY <1>1, <1>3 DEF Needs, RestoringIsSame, ApplyingMeets

LEMMA BeginNeeds == ASSUME Needed, Begin PROVE Needs'
<1>1. ASSUME NEW p \in Package, BeginRemove(p) PROVE Needs'
  <2>1. CanRemove(p) /\ StartRemove(p) /\ UNCHANGED <<registry, records, install>>
    BY <1>1 DEF BeginRemove
  <2>2. QED
    BY <2>1, PlanStays, StartRemoveNeeds
<1>2. QED
  BY <1>1, BeginInstallNeeds DEF Begin

LEMMA DisplaceNeeds == ASSUME Needed, NEW p \in Package, Displace(p) PROVE Needs'
<1>1. op = Idle /\ install \in Install /\ UNCHANGED <<registry, records>>
  BY DEF Displace, Needed, Requests, Types
<1>2. CASE CanRemove(p)
  <2>1. StartRemove(p) /\ install' = [install EXCEPT !.displaced = @ \ {p}]
    BY <1>2 DEF Displace
  <2>2. install'.plan = install.plan /\ install'.items = install.items /\ install # None
    BY <1>1, <2>1 DEF Install, Displace
  <2>3. PlanIsClosed'
    BY <1>1, <2>2 DEF Needed, Needs, PlanIsClosed, Items
  <2>4. QED
    BY <1>1, <1>2, <2>1, <2>3, StartRemoveNeeds
<1>3. CASE ~CanRemove(p)
  BY <1>1, <1>3, PlanStays, IdleNeeds DEF Displace
<1>4. QED
  BY <1>2, <1>3

LEMMA ApplyBeginNeeds == ASSUME Needed, ApplyBegin PROVE Needs'
<1>1. op = Idle /\ UNCHANGED <<registry, records>> /\ (install' = install \/ install' = None)
  BY DEF ApplyBegin
<1>2. PlanIsClosed'
  BY <1>1, PlanStays
<1>3. CASE op' = Idle
  BY <1>2, <1>3, IdleNeeds
<1>4. CASE op'.at = "restore" /\ op'.view = Load
  <2>1. Load.packages = records.packages
    BY LoadIsTyped DEF Needed, Requests
  <2>2. QED
    BY <1>1, <1>2, <1>4, <2>1 DEF Needs, RestoringIsSame, ApplyingMeets, RemovingMeets
<1>5. QED
  BY <1>1, <1>3, <1>4 DEF ApplyBegin

LEMMA RestoreArchiveNeeds ==
  ASSUME Needed, NEW l \in Package, RestoreArchive(l) PROVE Needs'
<1>1. /\ op.at = "restore" /\ l \in op.loaders /\ op'.at = "restore" /\ Types
      /\ op'.view = BackView(l) /\ op'.restored = op.restored \cup Back(l)
      /\ UNCHANGED <<registry, records, install>>
  BY RestoreArchiveShape DEF Needed, Requests, RestoreArchive
<1>2. op'.restored = {} => op'.view.packages = op.view.packages
  <2> SUFFICES ASSUME op.restored \cup Back(l) = {} PROVE BackPackages(l) = op.view.packages
    BY <1>1 DEF BackView
  <2>1. op.view \in View
    BY <1>1, OpIs
  <2>2. \A p \in Package : BackPackages(l)[p] = op.view.packages[p]
    BY DEF BackPackages, BackRecord
  <2>3. QED
    BY <2>1, <2>2 DEF BackPackages, View
<1>3. QED
  BY <1>1, <1>2, PlanStays DEF Needs, Needed, RestoringIsSame, ApplyingMeets, RemovingMeets

\* The next records keep what their packages need.
LEMMA SettledMeets ==
  ASSUME Needed, op.at = "restore", op.restored = {}, ~Refused, LeftOutStays,
         DependenciesMet(records.packages)
  PROVE DependenciesMet(Settled.packages)
<1>1. Types /\ install # None /\ op.view.packages = records.packages
  BY DEF Needed, Requests, Needs, RestoringIsSame, Types
<1>2. \A p \in Package :
        /\ Settled.packages[p] = IF p \in Orphans(Claimed.packages) THEN None ELSE Claimed.packages[p]
        /\ Claimed.packages[p] = IF p \in Items THEN NextRecord(p)
                                 ELSE IF p \in Evicted THEN None ELSE records.packages[p]
  BY <1>1, SettledIsTyped, ClaimedIsTyped
<1>3. \A p \in Items : NextRecord(p) # None /\ NextRecord(p).deps = registry.deps[p]
  BY <1>1, NextRecordIsTyped, ValuesApart DEF NextRecord
<1>4. /\ Items \subseteq install.plan
      /\ \A x \in install.plan : registry.deps[x] \subseteq install.plan
  BY <1>1 DEF Needed, Needs, PlanIsClosed
<1>5. ASSUME NEW p \in Package, Claimed.packages[p] # None, NEW d \in Claimed.packages[p].deps
      PROVE d \in Package /\ (Claimed.packages[d] # None \/ Archived(archives, d))
  <2>1. d \in Package
    BY <1>1, <1>5, ClaimedIsTyped DEF View, PackageRecord
  <2>2. CASE d \in Items
    BY <1>2, <1>3, <2>1, <2>2
  <2>3. CASE p \in Items /\ d \notin Items
    <3>1. d \in install.plan \ Items
      BY <1>2, <1>3, <1>4, <2>3
    <3>2. records.packages[d] # None /\ (Replacers = {} \/ Kind(d) # "replacer")
      BY <3>1 DEF LeftOutStays
    <3>3. d \notin Evicted
      BY <3>2 DEF Evicted
    <3>4. QED
      BY <1>2, <2>1, <2>3, <3>2, <3>3
  <2>4. CASE p \notin Items /\ d \notin Items
    <3>1. p \notin Evicted /\ records.packages[p] # None /\ d \in records.packages[p].deps
      BY <1>2, <1>5, <2>4
    <3>2. records.packages[d] # None \/ Archived(archives, d)
      BY <3>1, MetIs
    <3>3. d \notin Evicted
      <4> SUFFICES ASSUME d \in Evicted PROVE FALSE
        OBVIOUS
      <4>1. Requiring(records.packages, d) \subseteq OldReplacers
        BY <1>1 DEF Refused, EvictionRefused
      <4>2. p \in OldReplacers
        BY <3>1, <4>1 DEF Requiring, Present
      <4>3. QED
        BY <2>4, <3>1, <4>2 DEF OldReplacers, Evicted, Is
    <3>4. QED
      BY <1>2, <2>1, <2>4, <3>2, <3>3
  <2>5. QED
    BY <2>2, <2>3, <2>4
<1>6. ASSUME NEW p \in Package, Settled.packages[p] # None, NEW d \in Settled.packages[p].deps
      PROVE Settled.packages[d] # None \/ Archived(archives, d)
  <2>1. p \notin Orphans(Claimed.packages) /\ Settled.packages[p] = Claimed.packages[p]
        /\ Claimed.packages[p] # None
    BY <1>2, <1>6
  <2>2. d \in Package /\ (Claimed.packages[d] # None \/ Archived(archives, d))
    BY <1>5, <1>6, <2>1
  <2>3. CASE Claimed.packages[d] # None
    <3>1. d \notin Orphans(Claimed.packages)
      BY <1>6, <2>1, <2>2, <2>3, OrphansNeedNot DEF Present
    <3>2. QED
      BY <1>2, <2>2, <2>3, <3>1
  <2>4. QED
    BY <2>2, <2>3
<1>7. QED
  BY <1>6, MetIs

LEMMA CheckPlanNeeds == ASSUME Needed, CheckPlan PROVE Needs'
<1>1. /\ op.at = "restore" /\ Types
      /\ UNCHANGED <<registry, disk, records, original, zips, archives, reader, used, suspect, mine>>
  BY CheckPlanShape DEF Needed, Requests
<1>2. CASE op' = Idle /\ install' = None
  BY <1>1, <1>2, PlanStays, IdleNeeds
<1>3. CASE /\ ~Refused /\ install' = install /\ op'.at = "apply"
           /\ op'.view.packages = Settled.packages /\ op'.restored = op.restored
  <2>1. PlanIsClosed'
    BY <1>1, <1>3, PlanStays
  <2>2. LeftOutStays' <=> LeftOutStays
    BY <1>1, <1>3, SameIncoming DEF LeftOutStays, Replacers, Is, Kind
  <2>3. DependenciesMet(records.packages)' <=> DependenciesMet(records.packages)
    BY <1>1 DEF DependenciesMet, PutAway, Present
  <2>4. DependenciesMet(op.view.packages)' <=> DependenciesMet(Settled.packages)
    BY <1>1, <1>3 DEF DependenciesMet, PutAway, Present
  <2>5. ApplyingMeets'
    BY <1>1, <1>3, <2>2, <2>3, <2>4, SettledMeets DEF ApplyingMeets
  <2>6. QED
    BY <1>3, <2>1, <2>5 DEF Needs, RestoringIsSame, RemovingMeets
<1>4. QED
  BY <1>1, <1>2, <1>3, CheckPlanShape

LEMMA ApplyFilesNeeds ==
  ASSUME Needed,
         ClearTaken \/ \E f \in File : DeleteObsolete(f) \/ ArchiveOriginal(f) \/ PutFile(f)
  PROVE Needs'
<1>1. /\ op.at = "apply" /\ op'.view = op.view /\ op'.at = "apply" /\ op'.restored = op.restored
  BY ClearTakenShape, DeleteObsoleteShape, ArchiveOriginalShape, PutFileShape, OpIs
     DEF Needed, Requests, ApplyOp
<1>2. UNCHANGED <<registry, records, archives, install>>
  BY DEF ClearTaken, DeleteObsolete, ArchiveOriginal, PutFile, stores
<1>3. QED
  BY <1>1, <1>2, SameNeeds

LEMMA RemoveFilesNeeds ==
  ASSUME Needed, RestoreTaken \/ \E f \in File : Unpatch(f) \/ Unlink(f)
  PROVE Needs'
<1>1. /\ op.at = "remove" /\ op'.view.packages = op.view.packages /\ op'.at = "remove"
      /\ op'.kept = op.kept /\ op'.gone = op.gone
  <2>1. op.at = "remove" /\ op.view \in View
    BY OpIs DEF Needed, Requests, RestoreTaken, Unpatch, Unlink, Unlinking, Removal
  <2>2. CASE RestoreTaken
    BY <2>1, <2>2, RestoreTakenShape, WithoutIsTyped DEF Needed, Requests, SameDealings
  <2>3. CASE \E f \in File : Unpatch(f)
    BY <2>1, <2>3, UnpatchShape DEF Needed, Requests, SameDealings
  <2>4. CASE \E f \in File : Unlink(f)
    BY <2>1, <2>4, UnlinkShape DEF Needed, Requests, SameDealings
  <2>5. QED
    BY <2>1, <2>2, <2>3, <2>4
<1>2. UNCHANGED <<registry, records, archives, install>>
  BY DEF RestoreTaken, Unpatch, Unlink, stores
<1>3. QED
  BY <1>1, <1>2, SameNeeds

LEMMA KeepLoaderNeeds == ASSUME Needed, NEW l \in Package, KeepLoader(l) PROVE Needs'
<1>1. op \in RemoveOp /\ op.at = "remove" /\ op.view \in View /\ Bare(op.view.packages)
  BY OpIs DEF KeepLoader, Moving, Removal, Needed, Requests, Types, AllBare
<1>2. op.kept \cup {l} \in SUBSET Package
  BY <1>1 DEF RemoveOp
<1>3. op'.at = "remove" /\ op'.kept = op.kept \cup {l}
  BY <1>1, <1>2, DealtIsTyped DEF KeepLoader, Needed, Requests
<1>4. PlanIsClosed'
  BY PlanStays DEF KeepLoader
<1>5. QED
  BY <1>3, <1>4 DEF Needs, RestoringIsSame, ApplyingMeets, RemovingMeets

\* A step of a removal that deals with a loader: a package leaves the view for an archive only.
LEMMA DealingNeeds ==
  ASSUME Needed, op.at = "remove", op'.at = "remove", op'.kept = op.kept, op'.gone = op.gone,
         UNCHANGED <<registry, records, install>>,
         \A p \in Package : Archived(archives, p) => Archived(archives', p),
         \A p \in Package :
           \/ op.view.packages[p] = None /\ op'.view.packages[p] = None
           \/ op.view.packages[p] # None /\ op'.view.packages[p] = None /\ Archived(archives', p)
           \/ /\ op.view.packages[p] # None /\ op'.view.packages[p] # None
              /\ op'.view.packages[p].deps = op.view.packages[p].deps
           \/ p \in op.kept
  PROVE Needs'
<1>1. PlanIsClosed'
  BY PlanStays
<1>2. RemovingMeets'
  BY DEF Needed, Needs, RemovingMeets
<1>3. QED
  BY <1>1, <1>2 DEF Needs, RestoringIsSame, ApplyingMeets

LEMMA MoveLoaderNeeds == ASSUME Needed, NEW l \in Package, MoveLoader(l) PROVE Needs'
<1>1. /\ op.at = "remove" /\ op'.at = "remove" /\ op'.kept = op.kept
      /\ \A p \in Package : op'.view.packages[p] = op.view.packages[p] \/ p \in op.kept
  BY MoveLoaderShape DEF MoveLoader, Moving, Removal, Needed, Requests
<1>2. op'.gone = op.gone
  <2>1. op \in RemoveOp /\ op.view \in View /\ Bare(op.view.packages) /\ op.kept \in SUBSET Package
    BY <1>1, OpIs DEF Needed, Requests, Types, AllBare, RemoveOp
  <2>2. Dealt(l, op.view, op.kept).gone = op.gone
    BY <1>1, <2>1, DealtIsTyped DEF Needed, Requests
  <2>3. QED
    BY <2>1, <2>2 DEF MoveLoader, RemoveOp
<1>3. UNCHANGED <<registry, records, install>>
  BY DEF MoveLoader
<1>4. \A k \in Package : archives'[k].manifest = archives[k].manifest
  <2>1. PICK payload : archives' = [archives EXCEPT ![l].payload = payload]
    BY DEF MoveLoader
  <2>2. QED
    BY <2>1 DEF Needed, Requests, Types, Archive
<1>5. \A p : Archived(archives, p) <=> Archived(archives', p)
  BY <1>4 DEF Archived
<1>6. QED
  BY <1>1, <1>2, <1>3, <1>5, DealingNeeds

\* What a manifest does not take keeps what it needs; a manifest grows.
LEMMA RestKeepsDeps ==
  ASSUME Types, op.at # "idle", NEW files \in SUBSET File, NEW p \in Package,
         op.view.packages[p] # None, p \notin Goes(files)
  PROVE Rest(files).packages[p].deps = op.view.packages[p].deps
<1> DEFINE r == op.view.packages[p]
           s == Stays(p, files)
<1>1. op.view \in View /\ r \in PackageRecord
  BY OpIs DEF View
<1>2. Rest(files).packages = Trimmed(files)
  <2> DEFINE t == Trimmed(files)
  <2>1. Rest(files) = [Without(op.view, files) EXCEPT !.packages = t]
    BY DEF Rest
  <2>2. Without(op.view, files) \in View
    BY <1>1, WithoutIsTyped
  <2> HIDE DEF t
  <2>3. Rest(files).packages = t
    BY <2>1, <2>2 DEF View
  <2>4. QED
    BY <2>3 DEF t
<1>3. Trimmed(files)[p] = Lifted(p, files)
  BY DEF Trimmed
<1>4. Lifted(p, files) = [r EXCEPT !.files = s]
  BY DEF Lifted
<1> HIDE DEF r, s
<1>5. Lifted(p, files).deps = r.deps
  BY <1>1, <1>4 DEF PackageRecord
<1>6. QED
  BY <1>2, <1>3, <1>5 DEF r

LEMMA WriteManifestNeeds ==
  ASSUME Needed, NEW l \in Package, NEW files \in SUBSET File, WriteManifest(l, files)
  PROVE Needs'
<1>1. /\ op.at = "remove" /\ op'.at = "remove" /\ op'.kept = op.kept /\ Types
      /\ \A p \in Package : op'.view.packages[p] = Rest(files).packages[p] \/ p \in op.kept
      /\ archives'[l].manifest = Manifest(l, files)
      /\ \A k \in Package : k # l => archives'[k].manifest = archives[k].manifest
  BY WriteManifestShape DEF WriteManifest, Removal, Needed, Requests
<1>2. /\ Manifest(l, files) \in View /\ Rest(files) \in View /\ Bare(Rest(files).packages)
      /\ \A p \in Package :
           /\ p \in Goes(files) => Manifest(l, files).packages[p] # None
           /\ p \notin Goes(files) /\ archives[l].manifest # None =>
                Manifest(l, files).packages[p] = archives[l].manifest.packages[p]
           /\ IF op.view.packages[p] = None \/ p \in Goes(files) THEN Rest(files).packages[p] = None
              ELSE Rest(files).packages[p] # None
  BY <1>1, ManifestIsTyped
<1> DEFINE m == Manifest(l, files)
<1>3. m # None
  BY <1>2, ValuesApart
<1> HIDE DEF m
<1>4. \A p \in Package : p \in Goes(files) => Archived(archives', p)
  BY <1>1, <1>2, <1>3 DEF Archived, m
<1>5. \A p \in Package : Archived(archives, p) => Archived(archives', p)
  <2> SUFFICES ASSUME NEW p \in Package, NEW k \in Package,
                      archives[k].manifest # None, archives[k].manifest.packages[p] # None
               PROVE Archived(archives', p)
    BY DEF Archived
  <2>1. CASE k # l
    BY <1>1, <2>1 DEF Archived
  <2>2. CASE k = l /\ p \notin Goes(files)
    <3>1. archives'[l].manifest # None /\ archives'[l].manifest.packages[p] # None
      BY <1>1, <1>2, <1>3, <2>2 DEF m
    <3>2. QED
      BY <3>1 DEF Archived
  <2>3. QED
    BY <1>4, <2>1, <2>2
<1>6. \A p \in Package :
        \/ op.view.packages[p] = None /\ op'.view.packages[p] = None
        \/ op.view.packages[p] # None /\ op'.view.packages[p] = None /\ Archived(archives', p)
        \/ /\ op.view.packages[p] # None /\ op'.view.packages[p] # None
           /\ op'.view.packages[p].deps = op.view.packages[p].deps
        \/ p \in op.kept
  BY <1>1, <1>2, <1>4, RestKeepsDeps
<1>7. op'.gone = op.gone
  <2>1. op.kept \in SUBSET Package
    BY <1>1, OpIs DEF RemoveOp
  <2>2. op' = Dealt(l, Rest(files), op.kept)
    BY DEF WriteManifest, Rest, Trimmed, Goes, Lifted, Stays
  <2>3. QED
    BY <1>1, <1>2, <2>1, <2>2, DealtIsTyped
<1>8. UNCHANGED <<registry, records, install>>
  BY DEF WriteManifest
<1>9. QED
  BY <1>1, <1>5, <1>6, <1>7, <1>8, DealingNeeds

LEMMA SaveInstallNeeds == ASSUME Needed, SaveInstall PROVE Needs'
BY PlanStays, IdleNeeds DEF SaveInstall

LEMMA SaveRemoveNeeds == ASSUME Needed, SaveRemove PROVE Needs'
<1>1. op'.at = "prune"
  BY OpIs DEF SaveRemove, Unlinking, Removal, Needed, Requests, RemoveOp
<1>2. PlanIsClosed'
  BY PlanStays DEF SaveRemove
<1>3. QED
  BY <1>1, <1>2 DEF Needs, RestoringIsSame, ApplyingMeets, RemovingMeets

LEMMA PruneOriginalsNeeds == ASSUME Needed, PruneOriginals PROVE Needs'
BY PlanStays, IdleNeeds DEF PruneOriginals

LEMMA OutsideNeeds == ASSUME Needed, Outside PROVE Needs'
<1>1. registry' = registry /\ (install' = install \/ install' = None)
  BY DEF Outside, Fail, Crash, ReaderLoad, ReaderSave, AdoptLoader, Adopt, Touch
<1>2. op' = Idle
  BY DEF Outside, Fail, Crash, ReaderLoad, ReaderSave, AdoptLoader, Adopt, Touch, Quiet,
         Needed, Requests, ReaderWaits
<1>3. QED
  BY <1>1, <1>2, PlanStays, IdleNeeds

LEMMA NextNeeded == ASSUME Needed, [InstallerNext]_vars PROVE Needed'
<1>1. Requests'
  BY NextRequests, StutterRequests DEF Needed
<1>2. CASE UNCHANGED vars
  <2>1. UNCHANGED <<registry, records, archives, install, op>>
    BY <1>2 DEF vars
  <2>2. QED
    BY <1>1, <2>1, SameNeeds DEF Needed
<1>3. CASE Applying
  <2>1. Needs'
    BY <1>3, ApplyBeginNeeds, RestoreArchiveNeeds, CheckPlanNeeds, ApplyFilesNeeds, SaveInstallNeeds
       DEF Applying
  <2>2. QED
    BY <1>1, <2>1 DEF Needed
<1>4. CASE RemoveSteps
  <2>1. Needs'
    BY <1>4, RemoveFilesNeeds, SaveRemoveNeeds, PruneOriginalsNeeds, DisplaceNeeds, KeepLoaderNeeds,
       MoveLoaderNeeds, WriteManifestNeeds DEF RemoveSteps
  <2>2. QED
    BY <1>1, <2>1 DEF Needed
<1>5. QED
  BY <1>1, <1>2, <1>3, <1>4, BeginNeeds, OutsideNeeds DEF InstallerNext, Needed

LEMMA InitNeeded == ASSUME ~ConcurrentReader, InstallerInit PROVE Needed
<1>1. Requests /\ op = Idle /\ install = None
  BY InitRequests DEF InstallerInit
<1>2. QED
  BY <1>1, IdleIsTyped
     DEF Needed, Needs, PlanIsClosed, RestoringIsSame, ApplyingMeets, RemovingMeets

\* What a removal saves: the dependencies of what it leaves were left too.
LEMMA SaveRemoveMeets ==
  ASSUME Needed, SaveRemove, op.kept = {}, DependenciesMet(records.packages)
  PROVE DependenciesMet(records.packages)'
<1>1. op.at = "remove" /\ op.view \in View /\ records \in Records
  BY OpIs DEF SaveRemove, Unlinking, Removal, Needed, Requests, Types
<1>2. records'.packages = op.view.packages /\ archives' = archives
  BY <1>1 DEF SaveRemove, Stored, View, stores
<1>3. ASSUME NEW p \in Package, op.view.packages[p] # None, NEW d \in op.view.packages[p].deps
      PROVE op.view.packages[d] # None \/ Archived(archives, d)
  <2>1. /\ p \notin op.gone /\ records.packages[p] # None /\ d \in records.packages[p].deps
        /\ records.packages[p].deps \cap op.gone = {}
    BY <1>1, <1>3 DEF Needed, Needs, RemovingMeets
  <2>2. d \in Package /\ d \notin op.gone
    BY <1>1, <2>1 DEF Records, PackageRecord
  <2>3. records.packages[d] # None \/ Archived(archives, d)
    BY <2>1, MetIs
  <2>4. QED
    BY <1>1, <2>2, <2>3 DEF Needed, Needs, RemovingMeets
<1>4. QED
  BY <1>2, <1>3, MetNextIs

LEMMA SaveInstallMeets ==
  ASSUME Needed, SaveInstall, op.restored = {}, LeftOutStays, DependenciesMet(records.packages)
  PROVE DependenciesMet(records.packages)'
<1>1. op.at = "apply" /\ op.view \in View
  BY OpIs DEF SaveInstall, Needed, Requests
<1>2. records'.packages = op.view.packages /\ archives' = archives
  BY <1>1 DEF SaveInstall, Stored, View, stores
<1>3. DependenciesMet(op.view.packages)
  BY <1>1 DEF Needed, Needs, ApplyingMeets
<1>4. QED
  BY <1>2, <1>3, MetIs, MetNextIs

\* As long as the reader of the environment does not save between an operation's reading of the
\* records and its saving them: an install or a removal that begins with records in which
\* everything a package needs is recorded, or put away with a loader, saves such records - where
\* the plan relied on what was recorded, no archive brought a package back and no loader stayed.
THEOREM DependenciesAreKept ==
  ASSUME ~ConcurrentReader PROVE InstallerSpec => DependenciesStay
<1> DEFINE Changes == records' # records /\ op.at \in {"apply", "remove"} /\ DependenciesMet(records.packages)
           Held == /\ op.at = "apply" => LeftOutStays
                   /\ op.restored = {} /\ op.kept = {}
           Stay == Changes /\ Held => DependenciesMet(records.packages)'
<1>1. InstallerInit => Needed
  BY InitNeeded
<1>2. Needed /\ [InstallerNext]_vars => Needed'
  BY NextNeeded
<1>3. Needed /\ [InstallerNext]_vars => [Stay]_vars
  <2> SUFFICES ASSUME Needed, InstallerNext, Changes, Held
               PROVE DependenciesMet(records.packages)'
    OBVIOUS
  <2>1. op # Idle /\ reader = None
    BY IdleIsTyped, ReaderAway DEF Needed
  <2>2. SaveInstall \/ SaveRemove
    BY <2>1 DEF InstallerNext, Begin, Applying, RemoveSteps, Outside, Quiet, BeginRemove, BeginInstall,
                ApplyBegin, RestoreArchive, CheckPlan, ClearTaken, DeleteObsolete, ArchiveOriginal, PutFile,
                RestoreTaken, PruneOriginals, Displace, KeepLoader, MoveLoader, Unpatch, Unlink, WriteManifest,
                Fail, Crash, ReaderLoad, ReaderSave, AdoptLoader, Adopt, Touch, history
  <2>3. CASE SaveInstall
    BY <2>3, SaveInstallMeets DEF SaveInstall
  <2>4. CASE SaveRemove
    BY <2>4, SaveRemoveMeets
  <2>5. QED
    BY <2>2, <2>3, <2>4
<1>4. QED
  BY <1>1, <1>2, <1>3, PTL DEF InstallerSpec, DependenciesStay, LeftOutStays
================================================================================
