------------------------------ MODULE LocalMods ------------------------------
(* The DLLs found in the game's folders and the records about them: what a   *)
(* scan finds (application/identifiers, local_mods.py), which packages and   *)
(* loaders found on the disk are adopted into the records (adoption.py,      *)
(* private_distribution_controller.py), the reconciling of the records with  *)
(* the disk (installer.py), what a file's content says of it (integrity.py), *)
(* and switching mods on and off by renaming them (mod_toggle.py,            *)
(* catalog_controller.py).                                                   *)
(*                                                                           *)
(* An operation that takes the mutation lock does not wait for it.  Readings *)
(* and the adoption of private packages take none.                           *)
EXTENDS Integers, FiniteSets, SequencesExt

CONSTANTS
  Packages,          \* the index, a sequence: id, repo, loader, home, types, releases
  PrivatePackages,   \* what the developer servers list: id, cached, files, version
  Places,            \* where a DLL may be, a sequence in the order of a scan
  Dlls,              \* DLLs: id, repo, version, asm, needs, type and hash
  RuntimeVersion,    \* what a runtime in a home says of itself
  Roots,             \* what of a runtime the game's folder may hold
  FirstGames,        \* what is on the disk first: disk and root
  Threads,           \* page calls that switch a mod
  MaxMoves,          \* bound: what the player does by hand
  None

Place == Range(Places)
Slot == {"on", "off"}
ASSUME LocalModsAssumption ==
  /\ None \notin Dlls /\ None \notin Slot
  /\ \A p \in PrivatePackages : DOMAIN p.files \subseteq Place
  /\ \A game \in FirstGames : game.disk \in [Place -> [Slot -> Dlls \cup {None}]]
\* An index names a package once; what a DLL says of itself is among its bytes.
ASSUME IdentityAssumption ==
  /\ \A p, q \in Range(Packages) : p.id = q.id => p = q
  /\ \A d, e \in Dlls : d.hash = e.hash => d.id = e.id /\ d.repo = e.repo /\ d.type = e.type
ASSUME ReleaseAssumption ==
  /\ \A p \in Range(Packages) :
       /\ DOMAIN p.releases = 1..Len(p.releases) /\ Len(p.releases) \in Nat
       /\ \A r \in Range(p.releases) : \A a \in r.assets : a = [name |-> a.name, hash |-> a.hash]
  /\ \A p \in PrivatePackages : p.files = [f \in DOMAIN p.files |-> p.files[f]]

VARIABLES
  disk,       \* place -> the DLL called X.dll (on) and the one called X.dll.disable (off)
  root,       \* the parts of a runtime that are there
  records,    \* installed.json, packages
  entries,    \* installed.json, files: owners, hash, disabled
  adopting,   \* the two adoptions under way: what they are about to record
  toggles,    \* the switches under way
  lock,       \* ClientApi._mutation_lock
  moves,      \* what the player did so far
  byHand      \* files the player touched since the records last noted how they are called
vars == <<disk, root, records, entries, adopting, toggles, lock, moves, byHand>>
mods == <<records, entries, byHand>>

Package == Range(Packages)
Other(slot) == IF slot = "on" THEN "off" ELSE "on"
On(d, f) == d[f]["on"] # None
\* "X.dll first, else X.dll.disable; else nothing": the answer to where a file is.
ActualPath(d, f) == IF d[f]["on"] # None THEN "on" ELSE IF d[f]["off"] # None THEN "off" ELSE None
Gone(f) == ActualPath(disk, f) = None

(* ------------------------- what a scan looks at ----------------------- *)
\* A runtime in the game's folder needs its proxy; one in MLLoader/ only its folder.
Detect ==
  IF {"proxy", "native"} \subseteq root THEN "" ELSE IF "folder" \in root THEN "MLLoader" ELSE None
RuntimePaths(home) == {IF home = "" THEN "native" ELSE "bridge"} \cap root

\* Where the recorded loaders put mods, else where the detected runtime looks for them.
RecordedHomes(recorded) ==
  LET suppliers == SelectSeq(Packages, LAMBDA p : p.loader /\ p.id \in recorded)
  IN [i \in DOMAIN suppliers |-> suppliers[i].home]
ScanHomes(recorded) ==
  IF RecordedHomes(recorded) # <<>> THEN RecordedHomes(recorded)
  ELSE IF Detect # None THEN <<Detect>> ELSE <<>>
InRoots(f, recorded) == f.home \in Range(ScanHomes(recorded))

\* scan_local_mods: a row for each DLL, switched off or not.
Rows(recorded) ==
  {r \in [place : {f \in Place : InRoots(f, recorded)}, slot : Slot] : disk[r.place][r.slot] # None}
DllOf(r) == disk[r.place][r.slot]
Position(f) == CHOOSE i \in DOMAIN Places : Places[i] = f
FolderPosition(f) ==
  CHOOSE i \in DOMAIN Places :
    /\ Places[i].home = f.home /\ Places[i].type = f.type
    /\ \A j \in 1..(i - 1) : Places[j].home # f.home \/ Places[j].type # f.type
\* By folder, what is switched off last.
RowBefore(r, q) ==
  \/ FolderPosition(r.place) < FolderPosition(q.place)
  \/ /\ FolderPosition(r.place) = FolderPosition(q.place)
     /\ \/ r.slot = "on" /\ q.slot = "off"
        \/ r.slot = q.slot /\ Position(r.place) < Position(q.place)
FirstRow(rows) == CHOOSE r \in rows : \A q \in rows : q = r \/ RowBefore(r, q)

(* ---------------------- whose file is this: claims -------------------- *)
Matches(d, p) == d.id = p.id \/ (d.repo # None /\ d.repo = p.repo)

\* Where this package's install rules put the file, with one folder per type: the
\* last supplier's.
Target(p, f, d, recorded) ==
  [home |-> Last(ScanHomes(recorded)),
   type |-> IF f.name \in DOMAIN p.types THEN p.types[f.name] ELSE d.type,
   name |-> f.name]

LocalDlls(recorded) == {f \in Place : InRoots(f, recorded) /\ On(disk, f)} \ DOMAIN entries
\* What a package may claim: the files that lie where it would install them.
Placed(p, recorded) ==
  {f \in LocalDlls(recorded) : Target(p, f, disk[f]["on"], recorded) = f}

ReleaseForVersion(p, version) ==
  LET same == {i \in DOMAIN p.releases : p.releases[i].version = version}
  IN p.releases[IF same = {} THEN 1 ELSE CHOOSE i \in same : \A j \in same : i <= j]
Claim(p, version, files) ==
  [id |-> p.id, version |-> version, files |-> [f \in files |-> disk[f]["on"].hash]]

MetadataCandidates(p, recorded) ==
  LET files == {f \in Placed(p, recorded) : Matches(disk[f]["on"], p)}
      telling == {[place |-> f, slot |-> "on"] : f \in {g \in files : disk[g]["on"].version # None}}
      version == IF telling = {} THEN None ELSE DllOf(FirstRow(telling)).version
      release == ReleaseForVersion(p, version)
  IN IF files = {} \/ p.releases = <<>> \/ release.assets = {} THEN {}
     ELSE {Claim(p, release.version, files)}

\* One file, and one only, for every asset of the release.
DigestCandidates(p, recorded) ==
  LET equal(asset) ==
        {f \in Placed(p, recorded) : f.name = asset.name /\ disk[f]["on"].hash = asset.hash}
      matched == {i \in DOMAIN p.releases :
                    /\ p.releases[i].assets # {}
                    /\ \A a \in p.releases[i].assets : a.hash # None /\ Cardinality(equal(a)) = 1}
  IN {Claim(p, p.releases[i].version, UNION {equal(a) : a \in p.releases[i].assets}) : i \in matched}

PackageCandidates(p, recorded) ==
  IF MetadataCandidates(p, recorded) # {} THEN MetadataCandidates(p, recorded)
  ELSE DigestCandidates(p, recorded)

\* The files each candidate claims alone.
UnrivalledNot(candidates) == candidates    \* faulty variant: rivals are not looked for
Unrivalled(candidates) ==
  {c \in candidates : \A o \in candidates \ {c} : DOMAIN c.files \cap DOMAIN o.files = {}}

\* The packages whose releases cannot be read now claim nothing.
ClaimsOf(recorded, unread) ==
  LET asked == {p \in Package : p.id \notin recorded \cup unread /\ ~p.loader}
      one == {p \in asked : Cardinality(PackageCandidates(p, recorded)) = 1}
  IN Unrivalled(UNION {PackageCandidates(p, recorded) : p \in one})

\* A private package claims exactly the bytes it lists, in the game's own folders.
PrivateClaims(recorded) ==
  LET found(p) == \A f \in DOMAIN p.files : /\ f.home = ""
                                            /\ On(disk, f) /\ disk[f]["on"].hash = p.files[f]
  IN Unrivalled({[id |-> p.id, version |-> p.version, files |-> p.files] :
       p \in {q \in PrivatePackages : q.id \notin recorded /\ ~q.cached /\ q.files # <<>> /\ found(q)}})

(* ------------------------------- adopting ----------------------------- *)
Adopters == {"public", "private"}
NoClaims == [busy |-> FALSE, claims |-> {}, recorded |-> {}, unread |-> {}]
\* What the switches under way have computed is no longer what there is.
Disturb(ts) ==
  [t \in Threads |-> IF t \in ts /\ toggles[t] # None THEN [toggles[t] EXCEPT !.before = None]
                     ELSE toggles[t]]

AdoptStart ==
  /\ lock = None /\ lock' = "adopt"
  /\ \E unread \in {{}} \cup {{p.id} : p \in {q \in Package : ~q.loader}} :
       adopting' = [adopting EXCEPT !["public"] =
         [busy |-> TRUE, claims |-> ClaimsOf(DOMAIN records, unread),
          recorded |-> DOMAIN records, unread |-> unread]]
  /\ UNCHANGED <<disk, root, mods, toggles, moves>>
\* get_private_packages: no lock, no reading of the index.
PrivateStart ==
  /\ ~adopting["private"].busy /\ PrivateClaims(DOMAIN records) # {}
  /\ adopting' = [adopting EXCEPT !["private"] =
       [NoClaims EXCEPT !.busy = TRUE, !.claims = PrivateClaims(DOMAIN records)]]
  /\ UNCHANGED <<disk, root, mods, toggles, lock, moves>>

\* Installer.adopt: the bytes are still those, and nobody has recorded the file.
Adoptable(c) ==
  \A f \in DOMAIN c.files : /\ On(disk, f) /\ disk[f]["on"].hash = c.files[f]
                            /\ f \notin DOMAIN entries
ModRecord(c) ==
  [version |-> c.version, loader |-> FALSE, files |-> DOMAIN c.files, dirs |-> {}]
Entry(id, hash) == [owners |-> {id}, hash |-> hash, disabled |-> FALSE]
Write(c) ==
  /\ records' = [p \in DOMAIN records \cup {c.id} |->
                   IF p = c.id THEN ModRecord(c) ELSE records[p]]
  /\ entries' = [f \in DOMAIN entries \cup DOMAIN c.files |->
                   IF f \in DOMAIN c.files THEN Entry(c.id, c.files[f]) ELSE entries[f]]
  /\ byHand' = byHand \ DOMAIN c.files

\* A claim that no longer holds ends the public adoption and is passed over in the
\* private one.
AdoptOne(who) ==
  \E c \in adopting[who].claims :
    /\ IF c.id \in DOMAIN records \/ ~Adoptable(c) THEN UNCHANGED mods ELSE Write(c)
    /\ LET failed == who = "public" /\ c.id \notin DOMAIN records /\ ~Adoptable(c)
           left == adopting[who].claims \ {c}
       IN /\ adopting' = [adopting EXCEPT ![who] =
               IF failed \/ (who = "private" /\ left = {}) THEN NoClaims ELSE [@ EXCEPT !.claims = left]]
          /\ lock' = IF failed THEN None ELSE lock
    /\ toggles' = Disturb(Threads)
    /\ UNCHANGED <<disk, root, moves>>

\* The runtime that was found is recorded as the first loader that supplies its folders,
\* unless that one is recorded: what it is made of, with the version it gives of itself.
DetectedLoader(recorded) ==
  LET suppliers == SelectSeq(Packages, LAMBDA p : p.loader /\ p.home = Detect)
  IN IF Detect = None \/ suppliers = <<>> \/ RuntimePaths(Detect) = {} THEN {}
     ELSE {suppliers[1].id} \ (recorded \cup DOMAIN records)
DetectedRecord ==
  [version |-> RuntimeVersion[Detect], loader |-> TRUE, files |-> {},
   dirs |-> RuntimePaths(Detect) \cup ({"proxy"} \cap root)]
RecordLoader(recorded) ==
  records' = [p \in DOMAIN records \cup DetectedLoader(recorded) |->
                IF p \in DOMAIN records THEN records[p] ELSE DetectedRecord]
AdoptDetectedLoaders ==
  /\ adopting["public"].busy /\ adopting["public"].claims = {}
  /\ RecordLoader(adopting["public"].recorded)
  /\ adopting' = [adopting EXCEPT !["public"] = NoClaims] /\ lock' = None
  /\ toggles' = Disturb(Threads)
  /\ UNCHANGED <<disk, root, entries, moves, byHand>>
\* Before a loader nobody recorded is uninstalled.
ClaimDetectedLoader ==
  /\ lock = None /\ DetectedLoader({}) # {} /\ RecordLoader({})
  /\ toggles' = Disturb(Threads)
  /\ UNCHANGED <<disk, root, entries, adopting, lock, moves, byHand>>

(* ------------------------------ reconciling --------------------------- *)
\* A file that is gone leaves the records, then a package without files, or a loader
\* of which nothing is left.  Only then are the records saved, the names with them.
Dropped ==
  {p \in DOMAIN records :
     IF records[p].loader THEN records[p].dirs \cap root = {}
     ELSE records[p].files \ {f \in DOMAIN entries : ~Gone(f)} = records[p].files}
Reconciled ==
  [changed |-> Dropped # {} \/ \E f \in DOMAIN entries : Gone(f),
   records |-> [p \in DOMAIN records \ Dropped |->
                  [records[p] EXCEPT !.files = {f \in @ : f \in DOMAIN entries /\ ~Gone(f)}]],
   entries |-> [f \in {g \in DOMAIN entries : ~Gone(g)} |->
                  [entries[f] EXCEPT !.disabled = ActualPath(disk, f) = "off"]]]
SaveReconciled ==
  IF Reconciled.changed
  THEN records' = Reconciled.records /\ entries' = Reconciled.entries /\ byHand' = {}
  ELSE UNCHANGED mods
\* Every reading of what is installed starts with it; so does a verification.
Reconcile ==
  /\ Reconciled.changed /\ SaveReconciled
  /\ toggles' = Disturb(Threads)
  /\ UNCHANGED <<disk, root, adopting, lock, moves>>

(* -------------------------- what content says ------------------------- *)
\* The digests every owner ever published under this name.
PublishedHashes(f) ==
  LET owners == {p \in Package : p.id \in entries[f].owners}
      assets == UNION {UNION {r.assets : r \in Range(p.releases)} : p \in owners}
  IN {a.hash : a \in {b \in assets : b.name = f.name /\ b.hash # None}}
DiskTargetOn(f) == IF On(disk, f) THEN "on" ELSE None    \* faulty variant: X.dll or nothing
DiskTarget(f) == ActualPath(disk, f)
Classify(f) ==
  CASE DiskTarget(f) = None -> "unreadable"
    [] DiskTarget(f) # None /\ PublishedHashes(f) = {} -> "local"
    [] OTHER -> IF disk[f][DiskTarget(f)].hash \in PublishedHashes(f) THEN "release" ELSE "corrupted"
PackageStatus(p) ==
  LET statuses == {Classify(f) : f \in records[p].files}
  IN IF statuses \cap {"unreadable", "corrupted"} # {} THEN "corrupted"
     ELSE IF "release" \in statuses THEN "release" ELSE "local"

(* --------------------------- switching on and off --------------------- *)
\* The files an enabled mod of the reading asks for by assembly name, as they are called.
DependedFiles(recorded) ==
  LET needed == UNION {DllOf(r).needs : r \in {q \in Rows(recorded) : q.slot = "on"}}
  IN {r \in Rows(recorded) : DllOf(r).asm \in needed}

\* A package's files go together, without those others need; else the file alone.
PackageToggleTargets(f, slot) ==
  LET after == Reconciled.records
      owner == {p \in DOMAIN after : f \in after[p].files}
      depended == DependedFiles(DOMAIN after)
      free(g) == [place |-> g, slot |-> "on"] \notin depended
      resolved == {[place |-> g, slot |-> ActualPath(disk, g)] : g \in
                     {h \in UNION {after[p].files : p \in owner} :
                        InRoots(h, DOMAIN after) /\ free(h) /\ ~Gone(h)}}
  IN IF owner # {} /\ (resolved # {} \/ ~free(f)) THEN resolved
     ELSE {[place |-> f, slot |-> slot]}

\* The names that follow from the ones asked for: the least set that has with each name
\* what the first DLL of that name needs.
ByName(rows, name) == {r \in rows : DllOf(r).asm = name}
Needed(rows, names) ==
  UNION {DllOf(FirstRow(ByName(rows, n))).needs : n \in {m \in names : ByName(rows, m) # {}}}
Reached(rows, asked) ==
  LET all == UNION {{d.asm} \cup d.needs : d \in Dlls}
      closed(S) == asked \subseteq S /\ Needed(rows, S) \subseteq S
  IN {n \in all : \A S \in SUBSET all : closed(S) => n \in S}
\* The libraries a mod cannot be loaded without, and theirs, that are switched off.
WithRequiredLibrariesNot(targets) == {}    \* faulty variant: the libraries stay as they are
WithRequiredLibraries(targets) ==
  LET rows == Rows(DOMAIN Reconciled.records)
      known == {t.place : t \in targets}
      names == Reached(rows, {DllOf(r).asm : r \in {q \in rows : q.place \in known}})
      found == {FirstRow(ByName(rows, n)) : n \in {m \in names : ByName(rows, m) # {}}}
  IN {r \in found : r.slot = "off" /\ r.place \notin known}

ToggleStart(t) ==
  \E f \in Place, slot \in Slot, enabled \in BOOLEAN :
    LET targets == PackageToggleTargets(f, slot)
    IN /\ toggles[t] = None
       /\ disk[f][slot] # None /\ enabled = (slot = "off")
       /\ InRoots(f, DOMAIN Reconciled.records)
       /\ SaveReconciled
       /\ toggles' = [Disturb(IF Reconciled.changed THEN Threads ELSE {}) EXCEPT ![t] =
            IF targets = {} THEN None
            ELSE [enabled |-> enabled, targets |-> targets,
                  libraries |-> IF enabled THEN WithRequiredLibraries(targets) ELSE {},
                  locked |-> FALSE, before |-> disk,
                  owned |-> \E p \in DOMAIN Reconciled.records : f \in Reconciled.records[p].files]]
       /\ UNCHANGED <<disk, root, adopting, lock, moves>>

ToggleLock(t) ==
  /\ toggles[t] # None /\ ~toggles[t].locked
  /\ IF lock = None
     THEN lock' = t /\ toggles' = [toggles EXCEPT ![t].locked = TRUE]
     ELSE toggles' = [toggles EXCEPT ![t] = None] /\ UNCHANGED lock
  /\ UNCHANGED <<disk, root, mods, adopting, moves>>

\* Where an item is now: a file found under its other name is not looked for again.
Found(item) ==
  IF item.slot = "on" THEN ActualPath(disk, item.place)
  ELSE IF disk[item.place]["off"] # None THEN "off" ELSE None
Renamed(f, slot) == [disk EXCEPT ![f] = [@ EXCEPT ![slot] = None, ![Other(slot)] = disk[f][slot]]]
\* The record of the file, if it has one, notes how it is called now.
SyncedNot(f, enabled) == entries    \* faulty variant: only the file is renamed
Synced(f, enabled) == IF f \in DOMAIN entries THEN [entries EXCEPT ![f].disabled = ~enabled] ELSE entries

\* One file; what is missing, in use, or in the way of the new name ends the call where it is.
ToggleOne(t) ==
  LET call == toggles[t]
      slot == IF call.enabled THEN "off" ELSE "on"
  IN /\ call # None /\ call.locked /\ call.targets \cup call.libraries # {}
     /\ \E item \in IF call.targets # {} THEN call.targets ELSE call.libraries :
          LET left == [call EXCEPT !.targets = @ \ {item}, !.libraries = @ \ {item}]
              f == item.place
              possible == Found(item) # None /\ (Found(item) = slot => disk[f][Other(slot)] = None)
          IN \/ /\ possible
                /\ disk' = IF Found(item) = slot THEN Renamed(f, slot) ELSE disk
                /\ entries' = Synced(f, call.enabled)
                /\ byHand' = byHand \ {f}
                /\ toggles' = [Disturb(Threads) EXCEPT ![t] = left]
                /\ UNCHANGED lock
             \/ /\ ~possible \/ Found(item) = slot
                /\ toggles' = [toggles EXCEPT ![t] = None] /\ lock' = None
                /\ UNCHANGED <<disk, entries, byHand>>
     /\ UNCHANGED <<root, records, adopting, moves>>
ToggleDone(t) ==
  /\ toggles[t] # None /\ toggles[t].locked /\ toggles[t].targets \cup toggles[t].libraries = {}
  /\ toggles' = [toggles EXCEPT ![t] = None] /\ lock' = None
  /\ UNCHANGED <<disk, root, mods, adopting, moves>>

(* ------------------------------ the player ---------------------------- *)
ByHand(f) == byHand' = byHand \cup {f}
PlayerPuts ==
  \E f \in Place, d \in Dlls :
    /\ On(disk, f) => disk[f]["on"] # d
    /\ d.name = f.name /\ (f.home = "MLLoader" => "folder" \in root)
    /\ disk' = [disk EXCEPT ![f]["on"] = d] /\ ByHand(f) /\ UNCHANGED root
PlayerDeletes ==
  \E f \in Place, slot \in Slot :
    /\ disk[f][slot] # None
    /\ disk' = [disk EXCEPT ![f][slot] = None] /\ ByHand(f) /\ UNCHANGED root
PlayerRenames ==
  \E f \in Place, slot \in Slot :
    /\ disk[f][slot] # None /\ disk[f][Other(slot)] = None
    /\ disk' = Renamed(f, slot) /\ ByHand(f) /\ UNCHANGED root
\* A runtime laid out, or taken away, without the manager.
PlayerChangesRuntime ==
  \E r \in Roots \ {root} :
    /\ root' = r /\ ("folder" \in r \/ \A f \in Place : f.home = "MLLoader" => Gone(f))
    /\ UNCHANGED <<disk, byHand>>
Player ==
  /\ moves < MaxMoves /\ moves' = moves + 1
  /\ PlayerPuts \/ PlayerDeletes \/ PlayerRenames \/ PlayerChangesRuntime
  /\ toggles' = Disturb(Threads)
  /\ UNCHANGED <<records, entries, adopting, lock>>

Init ==
  /\ \E game \in FirstGames : disk = game.disk /\ root = game.root
  /\ records = <<>> /\ entries = <<>>
  /\ adopting = [who \in Adopters |-> NoClaims]
  /\ toggles = [t \in Threads |-> None]
  /\ lock = None /\ moves = 0 /\ byHand = {}

Next ==
  \/ AdoptStart \/ PrivateStart \/ \E who \in Adopters : AdoptOne(who)
  \/ AdoptDetectedLoaders \/ ClaimDetectedLoader
  \/ Reconcile
  \/ \E t \in Threads : ToggleStart(t) \/ ToggleLock(t) \/ ToggleOne(t) \/ ToggleDone(t)
  \/ Player
Spec == Init /\ [][Next]_vars

(* ------------------------------ properties ---------------------------- *)
HasEvidence(p, version, files) ==
  \/ \A f \in files : Matches(disk[f]["on"], p)
  \/ \E i \in DOMAIN p.releases :
       /\ p.releases[i].version = version
       /\ {[name |-> f.name, hash |-> disk[f]["on"].hash] : f \in files} = p.releases[i].assets
\* Of the packages that were not recorded when the claims were worked out.
HasRival(p, f) ==
  \E q \in Package \ {p} :
    /\ q.id \notin adopting["public"].recorded \cup adopting["public"].unread
    /\ ~q.loader /\ q.releases # <<>> /\ \A i \in DOMAIN q.releases : q.releases[i].assets # {}
    /\ Matches(disk[f]["on"], q)
    /\ (IF f.name \in DOMAIN q.types THEN q.types[f.name] ELSE disk[f]["on"].type) = f.type
\* A package enters the records with files that are on the disk, switched on and nobody's, and
\* with evidence for every one of them - its name in the DLL, the bytes of one release, the bytes
\* a server lists - that no other package of the index has as well; a package adopted for its
\* bytes is not reported as corrupted.  What was recorded stays as it was.
ClaimsAreSound ==
  [][\A id \in DOMAIN records' \ DOMAIN records : ~records'[id].loader =>
       LET new == records'[id]
       IN /\ \A f \in new.files : /\ On(disk, f) /\ f \notin DOMAIN entries
                                  /\ entries'[f].owners = {id} /\ entries'[f].hash = disk[f]["on"].hash
          /\ \/ \E p \in Package : /\ p.id = id /\ HasEvidence(p, new.version, new.files)
                                   /\ \A f \in new.files : ~HasRival(p, f)
                                   /\ (\A f \in new.files : ~Matches(disk[f]["on"], p))
                                        => PackageStatus(id)' = "release"
             \/ \E p \in PrivatePackages : p.id = id /\ p.files = [f \in new.files |-> disk[f]["on"].hash]
          /\ \A other \in DOMAIN records : records'[other] = records[other]]_vars

Met(d, recorded, f) ==
  \A n \in d[f]["on"].needs :
    \E g \in Place : InRoots(g, recorded) /\ On(d, g) /\ d[g]["on"].asm = n
There(d, n, recorded) == \E g \in Place, s \in Slot : InRoots(g, recorded) /\ d[g][s] # None /\ d[g][s].asm = n
NamesOnce(d) ==
  \A f, g \in Place, s, z \in Slot :
    d[f][s] # None /\ d[g][z] # None /\ (f = g \/ d[f][s].asm = d[g][z].asm) => f = g /\ s = z
\* A switch of a recorded mod that runs to its end undisturbed leaves what is enabled with its
\* libraries: what it enabled has every library it needs, down the chain, that there is; and no
\* mod that was and stays enabled loses one.  The first of these where no two DLLs have the
\* name of one file, or one name of their own.
ToggleKeepsLibraries ==
  [][\A t \in Threads :
       LET call == toggles[t]
           all == DOMAIN records
       IN call # None /\ toggles'[t] = None /\ call.locked /\ call.targets \cup call.libraries = {}
          /\ call.before # None /\ call.owned =>
          /\ \A f \in Place : InRoots(f, all) /\ On(call.before, f) /\ On(disk, f)
                              /\ Met(call.before, all, f) => Met(disk, all, f)
          /\ NamesOnce(call.before) => \A f \in Place :
               InRoots(f, all) /\ ~On(call.before, f) /\ On(disk, f) =>
                 \A n \in disk[f]["on"].needs : There(disk, n, all) =>
                   \E g \in Place : InRoots(g, all) /\ On(disk, g) /\ disk[g]["on"].asm = n]_vars

\* The two halves of installed.json agree, no file has two owners, and a file is recorded as
\* switched off exactly when it is, also after a switch that stopped half-way; but for what the
\* player renamed since, and for a file that is there under both names.
RecordsFollowDisk ==
  /\ DOMAIN entries = UNION {records[p].files : p \in DOMAIN records}
  /\ \A p \in DOMAIN records : \A f \in records[p].files : entries[f].owners = {p}
  /\ \A f \in DOMAIN entries \ byHand : ~(On(disk, f) /\ disk[f]["off"] # None) =>
       ActualPath(disk, f) = IF entries[f].disabled THEN "off" ELSE "on"

\* Only the player changes what a file is: nothing the manager does to its files here, and no
\* name it gives them, turns an intact package into a corrupted one or the other way round.
NamesAreNotContent ==
  [][moves' = moves =>
       \A p \in DOMAIN records \cap DOMAIN records' :
         records'[p].files = records[p].files => PackageStatus(p)' = PackageStatus(p)]_vars
================================================================================
