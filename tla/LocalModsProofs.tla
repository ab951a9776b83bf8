--------------------------- MODULE LocalModsProofs ---------------------------
(* The records of what is installed against the disk, for any packages, DLLs,*)
(* threads and moves of the player: RecordsFollowDisk, that nothing the      *)
(* manager does changes what a file is taken for (NamesAreNotContent), that  *)
(* what is adopted was there to be adopted (ClaimsAreSound), and that a      *)
(* switch keeps mods with their libraries (ToggleKeepsLibraries).            *)
(*                                                                           *)
(* None takes the mutation lock for granted: an adoption is checked again    *)
(* when it is written (Adoptable) and a switch looks where the file is now   *)
(* (Found), so all hold for every interleaving of the calls.                 *)
EXTENDS LocalMods, FiniteSetTheorems, WellFoundedInduction, TLAPS

Disk == [Place -> [Slot -> Dlls \cup {None}]]
\* What an adoption is about to record lies where a DLL may be.
ClaimsOk(claims) == \A c \in claims : DOMAIN c.files \subseteq Place
AdoptionsOk ==
  \A who \in Adopters :
    /\ DOMAIN adopting[who] = {"busy", "claims", "recorded", "unread"}
    /\ ClaimsOk(adopting[who].claims)
\* A loader's record names no file: its files are not in the other half.
RecordsOk ==
  \A p \in DOMAIN records :
    /\ DOMAIN records[p] = {"version", "loader", "files", "dirs"}
    /\ records[p].loader => records[p].files = {}
EntriesOk ==
  /\ DOMAIN entries \subseteq Place
  /\ \A f \in DOMAIN entries : /\ DOMAIN entries[f] = {"owners", "hash", "disabled"}
                               /\ entries[f].disabled \in BOOLEAN
\* RecordsFollowDisk, in its parts.
OneOwner(recs, ents) ==
  /\ DOMAIN ents = UNION {recs[p].files : p \in DOMAIN recs}
  /\ \A p \in DOMAIN recs : \A f \in recs[p].files : ents[f].owners = {p}
Named(d, ents, touched) ==
  \A f \in DOMAIN ents \ touched : ~(On(d, f) /\ d[f]["off"] # None) =>
    ActualPath(d, f) = IF ents[f].disabled THEN "off" ELSE "on"
Inv ==
  /\ disk \in Disk /\ DOMAIN adopting = Adopters
  /\ AdoptionsOk /\ RecordsOk /\ EntriesOk
  /\ OneOwner(records, entries) /\ Named(disk, entries, byHand)

(* ------------------------- what may be claimed ------------------------ *)
LEMMA PublicClaimsArePlaced ==
  ASSUME NEW recorded, NEW unread
  PROVE ClaimsOk(ClaimsOf(recorded, unread))
<1>1. ASSUME NEW p PROVE Placed(p, recorded) \subseteq Place
  BY DEF Placed, LocalDlls
<1>2. ASSUME NEW p, NEW version, NEW files, files \subseteq Place
      PROVE DOMAIN Claim(p, version, files).files \subseteq Place
  BY <1>2 DEF Claim
<1>3. ASSUME NEW p PROVE ClaimsOk(MetadataCandidates(p, recorded))
  BY <1>1, <1>2 DEF MetadataCandidates, ClaimsOk
<1>4. ASSUME NEW p PROVE ClaimsOk(DigestCandidates(p, recorded))
  BY <1>1, <1>2 DEF DigestCandidates, ClaimsOk
<1>5. ASSUME NEW p PROVE ClaimsOk(PackageCandidates(p, recorded))
  BY <1>3, <1>4 DEF PackageCandidates
<1>6. QED
  BY <1>5 DEF ClaimsOf, Unrivalled, ClaimsOk

LEMMA PrivateClaimsArePlaced ==
  ASSUME NEW recorded
  PROVE ClaimsOk(PrivateClaims(recorded))
<1>1. ASSUME NEW S, S \subseteq PrivatePackages
      PROVE ClaimsOk(Unrivalled({[id |-> p.id, version |-> p.version, files |-> p.files] : p \in S}))
  BY <1>1, LocalModsAssumption DEF Unrivalled, ClaimsOk
<1>2. QED
  BY <1>1 DEF PrivateClaims

(* ------------------------------- the steps ---------------------------- *)
LEMMA InvInit == Init => Inv
BY LocalModsAssumption
DEF Init, Inv, Disk, AdoptionsOk, RecordsOk, EntriesOk, OneOwner, Named, NoClaims, ClaimsOk

\* The claims under way are replaced by others that are placed, or some are dropped.
LEMMA AdoptionGoesOn ==
  ASSUME Inv, NEW who \in Adopters, NEW claims, ClaimsOk(claims),
         NEW next, DOMAIN next = {"busy", "claims", "recorded", "unread"}, next.claims = claims,
         adopting' = [adopting EXCEPT ![who] = next]
  PROVE DOMAIN adopting' = Adopters /\ AdoptionsOk'
BY DEF Inv, AdoptionsOk

LEMMA StartsAreSound ==
  ASSUME Inv, AdoptStart \/ PrivateStart
  PROVE Inv'
<1>1. DOMAIN adopting' = Adopters /\ AdoptionsOk'
  <2>1. CASE AdoptStart
    <3>1. PICK unread : adopting' = [adopting EXCEPT !["public"] =
            [busy |-> TRUE, claims |-> ClaimsOf(DOMAIN records, unread),
             recorded |-> DOMAIN records, unread |-> unread]]
      BY <2>1 DEF AdoptStart
    <3>2. QED
      BY <3>1, PublicClaimsArePlaced, AdoptionGoesOn DEF Adopters
  <2>2. CASE PrivateStart
    <3> DEFINE next == [NoClaims EXCEPT !.busy = TRUE, !.claims = PrivateClaims(DOMAIN records)]
    <3>1. adopting' = [adopting EXCEPT !["private"] = next]
      BY <2>2 DEF PrivateStart
    <3>2. DOMAIN next = {"busy", "claims", "recorded", "unread"}
          /\ next.claims = PrivateClaims(DOMAIN records)
      BY DEF NoClaims
    <3> HIDE DEF next
    <3>3. QED
      BY <3>1, <3>2, PrivateClaimsArePlaced, AdoptionGoesOn DEF Adopters
  <2>3. QED
    BY <2>1, <2>2
<1>2. UNCHANGED <<disk, records, entries, byHand>>
  BY DEF AdoptStart, PrivateStart, mods
<1>3. QED
  BY <1>1, <1>2 DEF Inv, RecordsOk, EntriesOk

\* A claim is written only if its files are there, switched on and nobody's.
LEMMA WriteIsSound ==
  ASSUME Inv, NEW c, DOMAIN c.files \subseteq Place, c.id \notin DOMAIN records,
         Adoptable(c), Write(c), UNCHANGED disk
  PROVE RecordsOk' /\ EntriesOk' /\ OneOwner(records, entries)' /\ Named(disk, entries, byHand)'
<1> DEFINE new == DOMAIN c.files
<1>1. /\ DOMAIN records' = DOMAIN records \cup {c.id} /\ records'[c.id] = ModRecord(c)
      /\ \A p \in DOMAIN records : records'[p] = records[p]
  BY DEF Write
<1>2. /\ DOMAIN entries' = DOMAIN entries \cup new
      /\ \A f \in new : entries'[f] = Entry(c.id, c.files[f])
      /\ \A f \in DOMAIN entries : entries'[f] = entries[f]
      /\ new \cap DOMAIN entries = {}
  BY DEF Write, Adoptable
<1>3. /\ ModRecord(c).files = new /\ ~ModRecord(c).loader
      /\ DOMAIN ModRecord(c) = {"version", "loader", "files", "dirs"}
  BY DEF ModRecord
<1>4. ASSUME NEW f
      PROVE /\ Entry(c.id, c.files[f]).owners = {c.id} /\ ~Entry(c.id, c.files[f]).disabled
            /\ Entry(c.id, c.files[f]).disabled \in BOOLEAN
            /\ DOMAIN Entry(c.id, c.files[f]) = {"owners", "hash", "disabled"}
  BY DEF Entry
<1>5. RecordsOk'
  BY <1>1, <1>3 DEF Inv, RecordsOk
<1>6. EntriesOk'
  BY <1>2, <1>4 DEF Inv, EntriesOk
<1>7. OneOwner(records', entries')
  <2>1. DOMAIN entries' = UNION {records'[p].files : p \in DOMAIN records'}
    BY <1>1, <1>2, <1>3 DEF Inv, OneOwner
  <2>2. ASSUME NEW p \in DOMAIN records', NEW f \in records'[p].files PROVE entries'[f].owners = {p}
    <3>1. CASE p = c.id
      BY <1>1, <1>2, <1>3, <1>4, <2>2, <3>1
    <3>2. CASE p \in DOMAIN records
      <4>1. f \in records[p].files /\ f \in DOMAIN entries
        BY <1>1, <2>2, <3>2 DEF Inv, OneOwner
      <4>2. QED
        BY <1>2, <3>2, <4>1 DEF Inv, OneOwner
    <3>3. QED
      BY <1>1, <3>1, <3>2
  <2>3. QED
    BY <2>1, <2>2 DEF OneOwner
<1>8. Named(disk', entries', byHand')
  BY <1>2, <1>4 DEF Inv, Named, Write, Adoptable, On, ActualPath
<1>9. QED
  BY <1>5, <1>6, <1>7, <1>8

LEMMA AdoptOneIsSound ==
  ASSUME Inv, NEW who \in Adopters, AdoptOne(who)
  PROVE Inv'
<1>1. PICK c \in adopting[who].claims :
        /\ IF c.id \in DOMAIN records \/ ~Adoptable(c) THEN UNCHANGED mods ELSE Write(c)
        /\ LET failed == who = "public" /\ c.id \notin DOMAIN records /\ ~Adoptable(c)
               left == adopting[who].claims \ {c}
           IN adopting' = [adopting EXCEPT ![who] =
                IF failed \/ (who = "private" /\ left = {}) THEN NoClaims ELSE [@ EXCEPT !.claims = left]]
  BY DEF AdoptOne
<1>2. UNCHANGED disk
  BY DEF AdoptOne
<1>3. DOMAIN c.files \subseteq Place
  BY DEF Inv, AdoptionsOk, ClaimsOk
<1>4. DOMAIN adopting' = Adopters /\ AdoptionsOk'
  <2> DEFINE left == [adopting[who] EXCEPT !.claims = @ \ {c}]
  <2>1. /\ DOMAIN left = {"busy", "claims", "recorded", "unread"}
        /\ left.claims = adopting[who].claims \ {c}
    BY DEF Inv, AdoptionsOk
  <2>2. ClaimsOk(left.claims)
    BY <2>1 DEF Inv, AdoptionsOk, ClaimsOk
  <2>3. DOMAIN NoClaims = {"busy", "claims", "recorded", "unread"} /\ ClaimsOk(NoClaims.claims)
    BY DEF NoClaims, ClaimsOk
  <2>4. PICK next \in {NoClaims, left} : adopting' = [adopting EXCEPT ![who] = next]
    BY <1>1
  <2> HIDE DEF left
  <2>5. QED
    BY <2>1, <2>2, <2>3, <2>4, AdoptionGoesOn
<1>5. CASE UNCHANGED mods
  BY <1>2, <1>4, <1>5 DEF Inv, RecordsOk, EntriesOk, mods
<1>6. CASE c.id \notin DOMAIN records /\ Adoptable(c) /\ Write(c)
  BY <1>2, <1>3, <1>4, <1>6, WriteIsSound DEF Inv
<1>7. QED
  BY <1>1, <1>5, <1>6

\* The record of a runtime that was found names no file.
LEMMA LoaderIsSound ==
  ASSUME Inv, NEW recorded, RecordLoader(recorded), UNCHANGED entries
  PROVE RecordsOk' /\ OneOwner(records, entries)'
<1>1. /\ DOMAIN records \subseteq DOMAIN records'
      /\ \A p \in DOMAIN records : records'[p] = records[p]
      /\ \A p \in DOMAIN records' \ DOMAIN records : records'[p] = DetectedRecord
  BY DEF RecordLoader
<1>2. /\ DOMAIN DetectedRecord = {"version", "loader", "files", "dirs"}
      /\ DetectedRecord.files = {}
  BY DEF DetectedRecord
<1>3. RecordsOk'
  BY <1>1, <1>2 DEF Inv, RecordsOk
<1>4. OneOwner(records', entries')
  BY <1>1, <1>2 DEF Inv, OneOwner
<1>5. QED
  BY <1>3, <1>4

LEMMA LoadersAreSound ==
  ASSUME Inv, AdoptDetectedLoaders \/ ClaimDetectedLoader
  PROVE Inv'
<1>1. UNCHANGED <<disk, entries, byHand>>
  BY DEF AdoptDetectedLoaders, ClaimDetectedLoader
<1>2. RecordsOk' /\ OneOwner(records, entries)'
  BY <1>1, LoaderIsSound DEF AdoptDetectedLoaders, ClaimDetectedLoader
<1>3. DOMAIN adopting' = Adopters /\ AdoptionsOk'
  <2>1. CASE AdoptDetectedLoaders
    <3>1. DOMAIN NoClaims = {"busy", "claims", "recorded", "unread"} /\ ClaimsOk(NoClaims.claims)
      BY DEF NoClaims, ClaimsOk
    <3>2. adopting' = [adopting EXCEPT !["public"] = NoClaims]
      BY <2>1 DEF AdoptDetectedLoaders
    <3>3. QED
      BY <3>1, <3>2, AdoptionGoesOn DEF Adopters
  <2>2. CASE UNCHANGED adopting
    BY <2>2 DEF Inv, AdoptionsOk
  <2>3. QED
    BY <2>1, <2>2 DEF ClaimDetectedLoader
<1>4. QED
  BY <1>1, <1>2, <1>3 DEF Inv, EntriesOk

\* What reconciling writes: the files that are there, as they are called now.
LEMMA ReconciledIsSound ==
  ASSUME Inv, SaveReconciled, UNCHANGED disk
  PROVE RecordsOk' /\ EntriesOk' /\ OneOwner(records, entries)' /\ Named(disk, entries, byHand)'
<1>1. CASE ~Reconciled.changed
  BY <1>1 DEF SaveReconciled, mods, Inv, RecordsOk, EntriesOk
<1>2. CASE Reconciled.changed
  <2>1. /\ records' = [p \in DOMAIN records \ Dropped |->
               [records[p] EXCEPT !.files = {f \in @ : f \in DOMAIN entries /\ ~Gone(f)}]]
        /\ entries' = [f \in {g \in DOMAIN entries : ~Gone(g)} |->
               [entries[f] EXCEPT !.disabled = ActualPath(disk, f) = "off"]]
        /\ byHand' = {}
    BY <1>2 DEF SaveReconciled, Reconciled
  <2>2. ASSUME NEW p \in DOMAIN records'
        PROVE /\ p \in DOMAIN records /\ p \notin Dropped
              /\ records'[p].files = {f \in records[p].files : ~Gone(f)}
              /\ records'[p].loader = records[p].loader
              /\ DOMAIN records'[p] = {"version", "loader", "files", "dirs"}
    <3>1. p \in DOMAIN records /\ p \notin Dropped
      BY <2>1
    <3>2. records'[p] = [records[p] EXCEPT
            !.files = {f \in records[p].files : f \in DOMAIN entries /\ ~Gone(f)}]
      BY <2>1, <3>1
    <3>3. records[p].files \subseteq DOMAIN entries
      BY <3>1 DEF Inv, OneOwner
    <3>4. QED
      BY <3>1, <3>2, <3>3 DEF Inv, RecordsOk
  <2>3. ASSUME NEW f \in DOMAIN entries'
        PROVE /\ f \in DOMAIN entries /\ ~Gone(f) /\ entries'[f].owners = entries[f].owners
              /\ entries'[f].disabled = (ActualPath(disk, f) = "off")
              /\ DOMAIN entries'[f] = {"owners", "hash", "disabled"}
    BY <2>1 DEF Inv, EntriesOk
  <2>4. RecordsOk'
    BY <2>2 DEF Inv, RecordsOk
  <2>5. EntriesOk'
    BY <2>1, <2>3 DEF Inv, EntriesOk
  <2>6. ASSUME NEW f \in DOMAIN entries, ~Gone(f)
        PROVE \E p \in DOMAIN records' : f \in records'[p].files
    <3>1. PICK p \in DOMAIN records : f \in records[p].files
      BY DEF Inv, OneOwner
    <3>2. p \notin Dropped
      BY <2>6, <3>1 DEF Inv, RecordsOk, Dropped
    <3>3. p \in DOMAIN records'
      BY <2>1, <3>1, <3>2
    <3>4. QED
      BY <2>2, <2>6, <3>1, <3>3
  <2>7. OneOwner(records', entries')
    <3>1. DOMAIN entries' = UNION {records'[p].files : p \in DOMAIN records'}
      <4>1. DOMAIN entries' = {f \in DOMAIN entries : ~Gone(f)}
        BY <2>1
      <4>2. \A p \in DOMAIN records' : records'[p].files \subseteq DOMAIN entries'
        BY <2>2, <4>1 DEF Inv, OneOwner
      <4>3. QED
        BY <2>6, <4>1, <4>2
    <3>2. QED
      BY <2>2, <2>3, <3>1 DEF Inv, OneOwner
  <2>8. Named(disk', entries', byHand')
    BY <2>3 DEF Named, Gone, ActualPath, On
  <2>9. QED
    BY <2>4, <2>5, <2>7, <2>8
<1>3. QED
  BY <1>1, <1>2

LEMMA ReadingsAreSound ==
  ASSUME Inv, Reconcile \/ \E t \in Threads : ToggleStart(t)
  PROVE Inv'
<1>1. SaveReconciled /\ UNCHANGED <<disk, adopting>>
  BY DEF Reconcile, ToggleStart
<1>2. QED
  BY <1>1, ReconciledIsSound DEF Inv, AdoptionsOk

\* A file gets its other name, and its record with it.
LEMMA RenamedIs ==
  ASSUME disk \in Disk, NEW f \in Place, NEW slot \in Slot
  PROVE /\ Renamed(f, slot) \in Disk
        /\ Renamed(f, slot)[f][slot] = None
        /\ Renamed(f, slot)[f][Other(slot)] = disk[f][slot]
        /\ \A g \in Place : g # f => Renamed(f, slot)[g] = disk[g]
BY DEF Renamed, Disk, Slot, Other

LEMMA SyncedIs ==
  ASSUME Inv, NEW f, NEW enabled \in BOOLEAN, entries' = Synced(f, enabled)
  PROVE /\ DOMAIN entries' = DOMAIN entries /\ EntriesOk'
        /\ \A g \in DOMAIN entries : entries'[g].owners = entries[g].owners
        /\ \A g \in DOMAIN entries : entries'[g].disabled = IF g = f THEN ~enabled ELSE entries[g].disabled
<1>1. /\ DOMAIN entries' = DOMAIN entries
      /\ \A g \in DOMAIN entries : g # f => entries'[g] = entries[g]
      /\ f \in DOMAIN entries => entries'[f] = [entries[f] EXCEPT !.disabled = ~enabled]
  BY DEF Synced
<1>2. f \in DOMAIN entries => /\ DOMAIN entries'[f] = {"owners", "hash", "disabled"}
                              /\ entries'[f].disabled = ~enabled
                              /\ entries'[f].owners = entries[f].owners
  BY <1>1 DEF Inv, EntriesOk
<1>3. QED
  BY <1>1, <1>2 DEF Inv, EntriesOk

LEMMA ToggleOneIsSound ==
  ASSUME Inv, NEW t \in Threads, ToggleOne(t)
  PROVE Inv'
<1> DEFINE call == toggles[t]
           slot == IF call.enabled THEN "off" ELSE "on"
<1>1. UNCHANGED <<records, adopting>>
  BY DEF ToggleOne
<1>2. CASE UNCHANGED <<disk, entries, byHand>>
  BY <1>1, <1>2 DEF Inv, AdoptionsOk, RecordsOk, EntriesOk
<1>3. ASSUME NEW item, Found(item) # None,
             Found(item) = slot => disk[item.place][Other(slot)] = None,
             disk' = IF Found(item) = slot THEN Renamed(item.place, slot) ELSE disk,
             entries' = Synced(item.place, call.enabled), byHand' = byHand \ {item.place}
      PROVE Inv'
  <2> DEFINE f == item.place
             enabled == slot = "off"
  <2>1. entries' = Synced(f, enabled)
    BY <1>3 DEF Synced
  <2>2. /\ DOMAIN entries' = DOMAIN entries /\ EntriesOk'
        /\ \A g \in DOMAIN entries : entries'[g].owners = entries[g].owners
        /\ \A g \in DOMAIN entries : entries'[g].disabled = IF g = f THEN ~enabled ELSE entries[g].disabled
    BY <2>1, SyncedIs
  <2>3. slot \in Slot /\ disk \in Disk
    BY DEF Slot, Inv
  <2>4. disk' \in Disk /\ \A g \in Place : g # f => disk'[g] = disk[g]
    <3>1. CASE f \in Place
      BY <1>3, <2>3, <3>1, RenamedIs
    <3>2. CASE f \notin Place
      BY <1>3, <2>3, <3>2 DEF Renamed, Disk
    <3>3. QED
      BY <3>1, <3>2
  <2>5. ASSUME f \in Place, ~(On(disk', f) /\ disk'[f]["off"] # None)
        PROVE ActualPath(disk', f) = IF ~enabled THEN "off" ELSE "on"
    <3>1. CASE Found(item) = slot
      <4>1. disk'[f][slot] = None /\ disk'[f][Other(slot)] = disk[f][slot] /\ disk[f][slot] # None
        BY <1>3, <2>3, <2>5, <3>1, RenamedIs DEF Found, ActualPath, On
      <4>2. QED
        BY <4>1 DEF ActualPath, On, Other
    <3>2. CASE Found(item) # slot
      BY <1>3, <2>5, <3>2 DEF Found, ActualPath, On
    <3>3. QED
      BY <3>1, <3>2
  <2>6. OneOwner(records, entries')
    BY <2>2 DEF Inv, OneOwner
  <2>7. Named(disk', entries', byHand')
    <3> SUFFICES ASSUME NEW g \in DOMAIN entries' \ byHand', ~(On(disk', g) /\ disk'[g]["off"] # None)
                 PROVE ActualPath(disk', g) = IF entries'[g].disabled THEN "off" ELSE "on"
      BY DEF Named
    <3>1. g \in Place /\ g \in DOMAIN entries
      BY <2>2 DEF Inv, EntriesOk
    <3>2. CASE g = f
      BY <2>2, <2>5, <3>1, <3>2
    <3>3. CASE g # f
      <4>1. g \in DOMAIN entries \ byHand /\ disk'[g] = disk[g]
        BY <1>3, <2>4, <3>1, <3>3
      <4>2. entries'[g].disabled = entries[g].disabled
        BY <2>2, <3>1, <3>3
      <4>3. ActualPath(disk', g) = ActualPath(disk, g)
        BY <4>1 DEF ActualPath
      <4>4. QED
        BY <4>1, <4>2, <4>3 DEF Inv, Named, On
    <3>4. QED
      BY <3>2, <3>3
  <2>8. QED
    BY <1>1, <2>2, <2>4, <2>6, <2>7 DEF Inv, AdoptionsOk, RecordsOk
<1>4. QED
  BY <1>2, <1>3 DEF ToggleOne

LEMMA PlayerIsSound ==
  ASSUME Inv, Player
  PROVE Inv'
<1>1. UNCHANGED <<records, entries, adopting>>
  BY DEF Player
<1>2. /\ disk' \in Disk
      /\ \/ UNCHANGED <<disk, byHand>>
         \/ \E f \in Place : /\ \A g \in Place : g # f => disk'[g] = disk[g]
                             /\ byHand' = byHand \cup {f}
  <2>1. CASE PlayerPuts
    BY <2>1 DEF PlayerPuts, ByHand, Inv, Disk, Slot
  <2>2. CASE PlayerDeletes
    BY <2>2 DEF PlayerDeletes, ByHand, Inv, Disk, Slot
  <2>3. CASE PlayerRenames
    <3>1. PICK f \in Place, slot \in Slot : disk' = Renamed(f, slot) /\ ByHand(f)
      BY <2>3 DEF PlayerRenames
    <3>2. QED
      BY <3>1, RenamedIs DEF Inv, ByHand
  <2>4. CASE PlayerChangesRuntime
    BY <2>4 DEF PlayerChangesRuntime, Inv
  <2>5. QED
    BY <2>1, <2>2, <2>3, <2>4 DEF Player
<1>3. QED
  BY <1>1, <1>2 DEF Inv, AdoptionsOk, RecordsOk, EntriesOk, Named, ActualPath, On

LEMMA InvNext == Inv /\ [Next]_vars => Inv'
<1> SUFFICES ASSUME Inv, [Next]_vars PROVE Inv'
  OBVIOUS
<1>1. CASE UNCHANGED vars
  BY <1>1 DEF Inv, AdoptionsOk, RecordsOk, EntriesOk, vars, mods
<1>2. CASE \E t \in Threads : ToggleLock(t) \/ ToggleDone(t)
  BY <1>2 DEF ToggleLock, ToggleDone, Inv, AdoptionsOk, RecordsOk, EntriesOk, mods
<1>3. QED
  BY <1>1, <1>2, StartsAreSound, AdoptOneIsSound, LoadersAreSound, ReadingsAreSound,
     ToggleOneIsSound, PlayerIsSound DEF Next
LEMMA InvAlways == Spec => []Inv
BY InvInit, InvNext, PTL DEF Spec

\* The two halves of installed.json agree, no file has two owners, and a record
\* says of a file what the disk does, but for what the player renamed since.
THEOREM RecordsAgree == Spec => []RecordsFollowDisk
<1>1. Inv => RecordsFollowDisk
  BY DEF Inv, OneOwner, Named, RecordsFollowDisk
<1>2. QED
  BY <1>1, InvAlways, PTL

(* -------------------------- what content says ------------------------- *)
\* What a file is taken for depends on its bytes and its owners, not on its name.
Content(d, f) == IF ActualPath(d, f) = None THEN None ELSE d[f][ActualPath(d, f)]
LEMMA ContentDecides ==
  ASSUME NEW f, entries'[f].owners = entries[f].owners,
         (ActualPath(disk', f) = None) = (ActualPath(disk, f) = None),
         Content(disk', f) = Content(disk, f)
  PROVE Classify(f)' = Classify(f)
<1>1. PublishedHashes(f)' = PublishedHashes(f)
  BY DEF PublishedHashes
<1>2. (DiskTarget(f) = None)' = (DiskTarget(f) = None)
  BY DEF DiskTarget
<1>3. DiskTarget(f) # None => disk'[f][DiskTarget(f)'].hash = disk[f][DiskTarget(f)].hash
  BY DEF DiskTarget, Content
<1>4. QED
  BY <1>1, <1>2, <1>3 DEF Classify

LEMMA StatusFollows ==
  ASSUME NEW p \in DOMAIN records, records'[p].files = records[p].files,
         \A f \in records[p].files : Classify(f)' = Classify(f)
  PROVE PackageStatus(p)' = PackageStatus(p)
<1>1. {Classify(f) : f \in records[p].files}' = {Classify(f) : f \in records[p].files}
  OBVIOUS
<1>2. QED
  BY <1>1 DEF PackageStatus

\* Adopting and reconciling leave the disk and the owners of what stays recorded.
LEMMA RecordingKeeps ==
  ASSUME Inv, Inv', NEW p \in DOMAIN records, p \in DOMAIN records',
         records'[p].files = records[p].files, UNCHANGED disk,
         \A f \in DOMAIN entries \cap DOMAIN entries' : entries'[f].owners = entries[f].owners
  PROVE PackageStatus(p)' = PackageStatus(p)
<1>1. ASSUME NEW f \in records[p].files PROVE Classify(f)' = Classify(f)
  <2>1. f \in DOMAIN entries /\ f \in DOMAIN entries'
    BY DEF Inv, OneOwner
  <2>2. QED
    BY <2>1, ContentDecides
<1>2. QED
  BY <1>1, StatusFollows

\* Renaming leaves the bytes, and the record its owner.
LEMMA SwitchingKeeps ==
  ASSUME Inv, NEW t \in Threads, ToggleOne(t), NEW p \in DOMAIN records
  PROVE PackageStatus(p)' = PackageStatus(p)
<1> DEFINE slot == IF toggles[t].enabled THEN "off" ELSE "on"
<1>1. UNCHANGED records
  BY DEF ToggleOne
<1>2. CASE UNCHANGED <<disk, entries>>
  BY <1>1, <1>2, ContentDecides, StatusFollows
<1>3. ASSUME NEW item, Found(item) # None,
             Found(item) = slot => disk[item.place][Other(slot)] = None,
             disk' = IF Found(item) = slot THEN Renamed(item.place, slot) ELSE disk,
             entries' = Synced(item.place, toggles[t].enabled)
      PROVE PackageStatus(p)' = PackageStatus(p)
  <2>1. entries' = Synced(item.place, slot = "off")
    BY <1>3 DEF Synced
  <2>2. \A g \in DOMAIN entries : entries'[g].owners = entries[g].owners
    BY <2>1, SyncedIs
  <2>3. ASSUME NEW g \in Place
        PROVE /\ (ActualPath(disk', g) = None) = (ActualPath(disk, g) = None)
              /\ Content(disk', g) = Content(disk, g)
    <3>1. CASE g = item.place /\ Found(item) = slot
      <4>1. /\ disk'[g][slot] = None /\ disk'[g][Other(slot)] = disk[g][slot]
            /\ disk[g][Other(slot)] = None /\ disk[g][slot] # None
        BY <1>3, <3>1, RenamedIs DEF Inv, Slot, Found, ActualPath, On
      <4>2. CASE slot = "on"
        BY <4>1, <4>2, LocalModsAssumption DEF Content, ActualPath, On, Other, Slot
      <4>3. CASE slot = "off"
        BY <4>1, <4>3, LocalModsAssumption DEF Content, ActualPath, On, Other, Slot
      <4>4. QED
        BY <4>2, <4>3
    <3>2. CASE Found(item) # slot
      BY <1>3, <3>2
    <3>3. CASE g # item.place /\ Found(item) = slot
      <4>1. disk'[g] = disk[g]
        <5>1. CASE item.place \in Place
          BY <1>3, <3>3, <5>1, RenamedIs DEF Inv, Slot
        <5>2. CASE item.place \notin Place
          BY <1>3, <3>3, <5>2 DEF Renamed, Inv, Disk
        <5>3. QED
          BY <5>1, <5>2
      <4>2. QED
        BY <4>1 DEF Content, ActualPath, On
    <3>4. QED
      BY <3>1, <3>2, <3>3
  <2>4. ASSUME NEW g \in records[p].files PROVE Classify(g)' = Classify(g)
    <3>1. g \in DOMAIN entries /\ g \in Place
      BY DEF Inv, OneOwner, EntriesOk
    <3>2. QED
      BY <2>2, <2>3, <3>1, ContentDecides
  <2>5. QED
    BY <1>1, <2>4, StatusFollows
<1>4. QED
  BY <1>2, <1>3 DEF ToggleOne

LEMMA OwnersStay ==
  ASSUME Inv,
         \/ AdoptStart \/ PrivateStart \/ AdoptDetectedLoaders \/ ClaimDetectedLoader \/ Reconcile
         \/ \E who \in Adopters : AdoptOne(who)
         \/ \E t \in Threads : ToggleStart(t) \/ ToggleLock(t) \/ ToggleDone(t)
  PROVE /\ UNCHANGED disk
        /\ \A f \in DOMAIN entries \cap DOMAIN entries' : entries'[f].owners = entries[f].owners
<1>1. CASE UNCHANGED <<disk, entries>>
  BY <1>1
<1>2. ASSUME NEW who \in Adopters, AdoptOne(who), ~UNCHANGED mods
      PROVE /\ UNCHANGED disk
            /\ \A f \in DOMAIN entries \cap DOMAIN entries' : entries'[f].owners = entries[f].owners
  <2>1. PICK c : Adoptable(c) /\ Write(c) /\ UNCHANGED disk
    BY <1>2 DEF AdoptOne
  <2>2. QED
    BY <2>1 DEF Write, Adoptable
<1>3. ASSUME SaveReconciled, UNCHANGED disk
      PROVE \A f \in DOMAIN entries \cap DOMAIN entries' : entries'[f].owners = entries[f].owners
  BY <1>3 DEF SaveReconciled, Reconciled, Inv, EntriesOk, mods
<1>4. QED
  BY <1>1, <1>2, <1>3 DEF AdoptStart, PrivateStart, AdoptDetectedLoaders, ClaimDetectedLoader,
     Reconcile, AdoptOne, ToggleStart, ToggleLock, ToggleDone, mods

MovesOk == moves \in Nat
LEMMA MovesAreCounted == Spec => []MovesOk
<1>1. Init => MovesOk
  BY DEF Init, MovesOk
<1>2. ASSUME MovesOk, [Next]_vars PROVE MovesOk'
  <2>1. CASE Player
    BY <1>2, <2>1 DEF Player, MovesOk
  <2>2. ASSUME NEW t \in Threads,
               ToggleStart(t) \/ ToggleLock(t) \/ ToggleOne(t) \/ ToggleDone(t)
        PROVE UNCHANGED moves
    BY <2>2 DEF ToggleStart, ToggleLock, ToggleOne, ToggleDone
  <2>3. ASSUME NEW who \in Adopters, AdoptOne(who) PROVE UNCHANGED moves
    BY <2>3 DEF AdoptOne
  <2>4. ASSUME AdoptStart \/ PrivateStart \/ AdoptDetectedLoaders \/ ClaimDetectedLoader \/ Reconcile
        PROVE UNCHANGED moves
    BY <2>4 DEF AdoptStart, PrivateStart, AdoptDetectedLoaders, ClaimDetectedLoader, Reconcile
  <2>5. QED
    BY <1>2, <2>1, <2>2, <2>3, <2>4 DEF Next, vars, MovesOk
<1>3. QED
  BY <1>1, <1>2, PTL DEF Spec

\* Only the player changes what a file is: nothing the manager does to its files,
\* and no name it gives them, makes an intact package a corrupted one or back
\* (integrity.py, mod_toggle.py).
THEOREM NamesSayNothing == Spec => NamesAreNotContent
<1> DEFINE Same == moves' = moves =>
             \A p \in DOMAIN records \cap DOMAIN records' :
               records'[p].files = records[p].files => PackageStatus(p)' = PackageStatus(p)
<1>1. ASSUME Inv, Inv', MovesOk, Next PROVE Same
  <2> SUFFICES ASSUME moves' = moves, NEW p \in DOMAIN records, p \in DOMAIN records',
                      records'[p].files = records[p].files
               PROVE PackageStatus(p)' = PackageStatus(p)
    BY <1>1
  <2>1. CASE \E t \in Threads : ToggleOne(t)
    BY <1>1, <2>1, SwitchingKeeps
  <2>2. ~Player
    BY <1>1 DEF Player, MovesOk
  <2>3. CASE ~\E t \in Threads : ToggleOne(t)
    BY <1>1, <2>2, <2>3, OwnersStay, RecordingKeeps DEF Next
  <2>4. QED
    BY <2>1, <2>3
<1>2. Inv /\ Inv' /\ MovesOk /\ [Next]_vars => Same \/ UNCHANGED vars
  BY <1>1
<1>3. QED
  BY <1>2, InvAlways, MovesAreCounted, PTL DEF Spec, NamesAreNotContent

(* --------------------------- what is adopted -------------------------- *)
\* What makes a package's claim to files with this content: every DLL of that content says it
\* is the package's, or they are the files of one of its releases.
SaidOf(p, files) == \A f \in DOMAIN files : \E d \in Dlls : d.hash = files[f] /\ Matches(d, p)
ReleaseOf(p, version, files) ==
  \E i \in DOMAIN p.releases :
    /\ p.releases[i].version = version
    /\ {[name |-> f.name, hash |-> files[f]] : f \in DOMAIN files} = p.releases[i].assets
    /\ \A a \in p.releases[i].assets : a.hash # None
\* A package that could claim the file as well, if this DLL is what is there.
CouldClaim(q, f, d, recorded, unread) ==
  /\ q.id \notin recorded \cup unread
  /\ ~q.loader /\ q.releases # <<>> /\ \A i \in DOMAIN q.releases : q.releases[i].assets # {}
  /\ Matches(d, q)
  /\ (IF f.name \in DOMAIN q.types THEN q.types[f.name] ELSE d.type) = f.type
PublicClaimOk(c, recorded, unread) ==
  /\ DOMAIN c.files # {}
  /\ \E p \in Package :
       /\ p.id = c.id
       /\ SaidOf(p, c.files) \/ ReleaseOf(p, c.version, c.files)
       /\ \A q \in Package \ {p}, f \in DOMAIN c.files, d \in Dlls :
            d.hash = c.files[f] => ~CouldClaim(q, f, d, recorded, unread)
PrivateClaimOk(c) == \E p \in PrivatePackages : p.id = c.id /\ p.files = c.files
ClaimsSound ==
  /\ \A c \in adopting["public"].claims :
       PublicClaimOk(c, adopting["public"].recorded, adopting["public"].unread)
  /\ \A c \in adopting["private"].claims : PrivateClaimOk(c)

LEMMA LeastExists ==
  ASSUME NEW S \in SUBSET Nat, S # {}
  PROVE \E m \in S : \A k \in S : m <= k
<1> DEFINE R == OpToRel(<, Nat)
<1>1. IsWellFoundedOn(R, Nat)
  BY NatLessThanWellFounded
<1>2. \A j, k \in Nat : j < k => <<j, k>> \in R
  BY DEF OpToRel
<1> HIDE DEF R
<1>3. \E m \in S : \A k \in S : ~ (<<k, m>> \in R)
  BY <1>1, WFMin, Zenon
<1>4. PICK m \in S : \A k \in S : ~ (<<k, m>> \in R)
  BY <1>3
<1>5. \A k \in S : ~ (k < m)
  BY <1>2, <1>4
<1>6. QED
  BY <1>5

LEMMA ReleaseIsPublished ==
  ASSUME NEW p \in Package, p.releases # <<>>, NEW version
  PROVE \E i \in DOMAIN p.releases : ReleaseForVersion(p, version) = p.releases[i]
<1> DEFINE same == {i \in DOMAIN p.releases : p.releases[i].version = version}
<1>1. DOMAIN p.releases = 1..Len(p.releases) /\ Len(p.releases) \in Nat
  BY ReleaseAssumption DEF Package
<1>2. CASE same = {}
  <2>1. ReleaseForVersion(p, version) = p.releases[1]
    BY <1>2 DEF ReleaseForVersion
  <2>2. 1 \in DOMAIN p.releases
    BY <1>1
  <2>3. QED
    BY <2>1, <2>2
<1>3. CASE same # {}
  <2>1. \E i \in same : \A j \in same : i <= j
    <3>1. same \in SUBSET Nat
      BY <1>1
    <3> HIDE DEF same
    <3>2. QED
      BY <1>3, <3>1, LeastExists
  <2>2. ReleaseForVersion(p, version) = p.releases[CHOOSE i \in same : \A j \in same : i <= j]
    BY <1>3 DEF ReleaseForVersion
  <2>3. QED
    BY <2>1, <2>2
<1>4. QED
  BY <1>2, <1>3

\* What a package claims lies where it would put it, and is told by its name or its bytes.
LEMMA CandidateTells ==
  ASSUME disk \in Disk, NEW p \in Package, NEW recorded, NEW c \in PackageCandidates(p, recorded)
  PROVE /\ c.id = p.id /\ DOMAIN c.files # {} /\ DOMAIN c.files \subseteq Placed(p, recorded)
        /\ \A f \in DOMAIN c.files : disk[f]["on"] \in Dlls /\ c.files[f] = disk[f]["on"].hash
        /\ SaidOf(p, c.files) \/ ReleaseOf(p, c.version, c.files)
<1>1. \A f \in Placed(p, recorded) : disk[f]["on"] \in Dlls
  BY DEF Placed, LocalDlls, On, Disk, Slot
<1>2. ASSUME NEW version, NEW files
      PROVE /\ Claim(p, version, files).id = p.id /\ Claim(p, version, files).version = version
            /\ DOMAIN Claim(p, version, files).files = files
            /\ \A f \in files : Claim(p, version, files).files[f] = disk[f]["on"].hash
  BY DEF Claim
<1>3. ASSUME c \in MetadataCandidates(p, recorded)
      PROVE /\ c.id = p.id /\ DOMAIN c.files # {} /\ DOMAIN c.files \subseteq Placed(p, recorded)
            /\ \A f \in DOMAIN c.files : c.files[f] = disk[f]["on"].hash
            /\ \A f \in DOMAIN c.files : Matches(disk[f]["on"], p)
  <2> DEFINE files == {f \in Placed(p, recorded) : Matches(disk[f]["on"], p)}
  <2>1. files # {} /\ \E version : c = Claim(p, version, files)
    BY <1>3 DEF MetadataCandidates
  <2>2. PICK version : c = Claim(p, version, files)
    BY <2>1
  <2>3. DOMAIN c.files = files /\ c.id = p.id /\ \A f \in files : c.files[f] = disk[f]["on"].hash
    BY <1>2, <2>2
  <2>4. QED
    BY <2>1, <2>3
<1>4. ASSUME c \in DigestCandidates(p, recorded)
      PROVE /\ c.id = p.id /\ DOMAIN c.files # {} /\ DOMAIN c.files \subseteq Placed(p, recorded)
            /\ \A f \in DOMAIN c.files : c.files[f] = disk[f]["on"].hash
            /\ ReleaseOf(p, c.version, c.files)
  <2> DEFINE equal(a) == {f \in Placed(p, recorded) : f.name = a.name /\ disk[f]["on"].hash = a.hash}
  <2>1. PICK i \in DOMAIN p.releases :
          /\ p.releases[i].assets # {}
          /\ \A a \in p.releases[i].assets : a.hash # None /\ Cardinality(equal(a)) = 1
          /\ c = Claim(p, p.releases[i].version, UNION {equal(a) : a \in p.releases[i].assets})
    BY <1>4 DEF DigestCandidates
  <2>2. \A a \in p.releases[i].assets : equal(a) # {}
    BY <2>1, FS_EmptySet
  <2>3. \A a \in p.releases[i].assets : a = [name |-> a.name, hash |-> a.hash]
    BY ReleaseAssumption DEF Package, Range
  <2>4. DOMAIN c.files = UNION {equal(a) : a \in p.releases[i].assets}
        /\ c.id = p.id /\ c.version = p.releases[i].version
        /\ \A f \in DOMAIN c.files : c.files[f] = disk[f]["on"].hash
    BY <1>2, <2>1
  <2>5. {[name |-> f.name, hash |-> c.files[f]] : f \in DOMAIN c.files} = p.releases[i].assets
    <3>1. ASSUME NEW f \in DOMAIN c.files
          PROVE [name |-> f.name, hash |-> c.files[f]] \in p.releases[i].assets
      BY <2>3, <2>4
    <3>2. ASSUME NEW a \in p.releases[i].assets
          PROVE \E f \in DOMAIN c.files : a = [name |-> f.name, hash |-> c.files[f]]
      <4>1. PICK f \in equal(a) : TRUE
        BY <2>2
      <4>2. f \in DOMAIN c.files /\ f.name = a.name /\ c.files[f] = a.hash
        BY <2>4, <4>1
      <4>3. QED
        BY <2>3, <4>2
    <3>3. QED
      BY <3>1, <3>2
  <2>6. QED
    BY <2>1, <2>2, <2>4, <2>5 DEF ReleaseOf
<1>5. CASE c \in MetadataCandidates(p, recorded)
  BY <1>1, <1>3, <1>5 DEF SaidOf
<1>6. CASE c \in DigestCandidates(p, recorded)
  BY <1>1, <1>4, <1>6
<1>7. QED
  BY <1>5, <1>6 DEF PackageCandidates

\* Who could claim a file that is there does claim it.
ClaimsIt(q, f, recorded) ==
  \E o : /\ PackageCandidates(q, recorded) = {o} /\ o.id = q.id /\ f \in DOMAIN o.files
LEMMA RivalsClaim ==
  ASSUME disk \in Disk, NEW p \in Package, NEW q \in Package, NEW recorded, NEW unread,
         NEW f \in Placed(p, recorded), CouldClaim(q, f, disk[f]["on"], recorded, unread)
  PROVE ClaimsIt(q, f, recorded)
<1> DEFINE files == {g \in Placed(q, recorded) : Matches(disk[g]["on"], q)}
<1>1. f \in Placed(q, recorded)
  BY DEF Placed, Target, CouldClaim
<1>2. f \in files
  BY <1>1 DEF CouldClaim
<1>3. \A version : ReleaseForVersion(q, version).assets # {}
  BY ReleaseIsPublished DEF CouldClaim
<1>4. \E version : MetadataCandidates(q, recorded) = {Claim(q, ReleaseForVersion(q, version).version, files)}
  BY <1>2, <1>3 DEF MetadataCandidates, CouldClaim
<1>5. PICK version : MetadataCandidates(q, recorded) = {Claim(q, version, files)}
  BY <1>4
<1>6. Claim(q, version, files).id = q.id /\ DOMAIN Claim(q, version, files).files = files
  BY DEF Claim
<1>7. PackageCandidates(q, recorded) = {Claim(q, version, files)}
  BY <1>5 DEF PackageCandidates
<1> HIDE DEF files
<1>8. QED
  BY <1>2, <1>6, <1>7 DEF ClaimsIt

LEMMA PublicClaimsAreSound ==
  ASSUME disk \in Disk, NEW recorded, NEW unread, NEW c \in ClaimsOf(recorded, unread)
  PROVE PublicClaimOk(c, recorded, unread)
<1> DEFINE asked == {p \in Package : p.id \notin recorded \cup unread /\ ~p.loader}
           one == {p \in asked : Cardinality(PackageCandidates(p, recorded)) = 1}
           all == UNION {PackageCandidates(p, recorded) : p \in one}
<1>1. c \in all /\ \A o \in all \ {c} : DOMAIN c.files \cap DOMAIN o.files = {}
  BY DEF ClaimsOf, Unrivalled
<1>2. PICK p \in one : c \in PackageCandidates(p, recorded)
  BY <1>1
<1>3. p \in Package /\ c.id = p.id /\ DOMAIN c.files # {} /\ DOMAIN c.files \subseteq Placed(p, recorded)
      /\ (\A f \in DOMAIN c.files : disk[f]["on"] \in Dlls /\ c.files[f] = disk[f]["on"].hash)
      /\ (SaidOf(p, c.files) \/ ReleaseOf(p, c.version, c.files))
  BY <1>2, CandidateTells
<1>4. ASSUME NEW q \in Package \ {p}, NEW f \in DOMAIN c.files, NEW d \in Dlls, d.hash = c.files[f],
             CouldClaim(q, f, d, recorded, unread)
      PROVE FALSE
  <2>1. CouldClaim(q, f, disk[f]["on"], recorded, unread)
    <3>1. d.id = disk[f]["on"].id /\ d.repo = disk[f]["on"].repo /\ d.type = disk[f]["on"].type
      BY <1>3, <1>4, IdentityAssumption
    <3>2. QED
      BY <1>4, <3>1 DEF CouldClaim, Matches
  <2>2. PICK o : /\ PackageCandidates(q, recorded) = {o} /\ o.id = q.id /\ f \in DOMAIN o.files
    <3>1. f \in Placed(p, recorded) /\ p \in Package /\ q \in Package
      BY <1>3, <1>4
    <3>2. ClaimsIt(q, f, recorded)
      BY <2>1, <3>1, RivalsClaim
    <3>3. QED
      BY <3>2 DEF ClaimsIt
  <2>3. q \in one
    BY <1>4, <2>2, FS_Singleton DEF CouldClaim
  <2>4. o \in all
    BY <2>2, <2>3
  <2>5. o # c
    BY <1>3, <2>2, IdentityAssumption DEF Package
  <2>6. QED
    BY <1>1, <2>2, <2>4, <2>5
<1>5. QED
  BY <1>3, <1>4 DEF PublicClaimOk

LEMMA PrivateClaimsAreSound ==
  ASSUME NEW recorded, NEW c \in PrivateClaims(recorded)
  PROVE PrivateClaimOk(c)
<1>1. PICK p \in PrivatePackages : c = [id |-> p.id, version |-> p.version, files |-> p.files]
  BY DEF PrivateClaims, Unrivalled
<1>2. QED
  BY <1>1 DEF PrivateClaimOk

(* ClaimsSound is kept by every step: claims are made once and then only dropped. *)
LEMMA ClaimsStay ==
  ASSUME Inv, ClaimsSound, NEW who \in Adopters,
         \/ UNCHANGED adopting
         \/ adopting' = [adopting EXCEPT ![who] = NoClaims]
         \/ \E left \in SUBSET adopting[who].claims :
              adopting' = [adopting EXCEPT ![who] = [@ EXCEPT !.claims = left]]
  PROVE ClaimsSound'
<1> DEFINE Kept(w) == /\ adopting'[w].claims \subseteq adopting[w].claims
                      /\ adopting'[w].claims = {} \/ /\ adopting'[w].recorded = adopting[w].recorded
                                                     /\ adopting'[w].unread = adopting[w].unread
<1>1. Kept("public") /\ Kept("private")
  <2>1. CASE adopting' = [adopting EXCEPT ![who] = NoClaims]
    BY <2>1 DEF NoClaims, Inv, Adopters
  <2>2. QED
    BY <2>1 DEF Inv, AdoptionsOk, Adopters
<1>2. QED
  BY <1>1 DEF ClaimsSound

LEMMA ClaimsNext == ASSUME Inv, ClaimsSound, [Next]_vars PROVE ClaimsSound'
<1>1. CASE AdoptStart
  <2>1. PICK unread : adopting' = [adopting EXCEPT !["public"] =
          [busy |-> TRUE, claims |-> ClaimsOf(DOMAIN records, unread),
           recorded |-> DOMAIN records, unread |-> unread]]
    BY <1>1 DEF AdoptStart
  <2>2. /\ adopting'["public"].claims = ClaimsOf(DOMAIN records, unread)
        /\ adopting'["public"].recorded = DOMAIN records /\ adopting'["public"].unread = unread
        /\ adopting'["private"] = adopting["private"]
    BY <2>1 DEF Inv, Adopters
  <2>3. \A c \in ClaimsOf(DOMAIN records, unread) : PublicClaimOk(c, DOMAIN records, unread)
    BY PublicClaimsAreSound DEF Inv
  <2>4. QED
    BY <2>2, <2>3 DEF ClaimsSound
<1>2. CASE PrivateStart
  <2>1. adopting' = [adopting EXCEPT !["private"] =
          [NoClaims EXCEPT !.busy = TRUE, !.claims = PrivateClaims(DOMAIN records)]]
    BY <1>2 DEF PrivateStart
  <2>2. /\ adopting'["private"].claims = PrivateClaims(DOMAIN records)
        /\ adopting'["public"] = adopting["public"]
    BY <2>1 DEF Inv, Adopters, NoClaims
  <2>3. QED
    BY <2>2, PrivateClaimsAreSound DEF ClaimsSound
<1>3. ASSUME NEW who \in Adopters, AdoptOne(who) PROVE ClaimsSound'
  <2>1. PICK left \in SUBSET adopting[who].claims :
          \/ adopting' = [adopting EXCEPT ![who] = NoClaims]
          \/ adopting' = [adopting EXCEPT ![who] = [@ EXCEPT !.claims = left]]
    BY <1>3 DEF AdoptOne
  <2>2. QED
    BY <2>1, ClaimsStay
<1>4. CASE AdoptDetectedLoaders
  BY <1>4, ClaimsStay DEF AdoptDetectedLoaders, Adopters
<1>5. ASSUME UNCHANGED adopting PROVE ClaimsSound'
  BY <1>5, ClaimsStay DEF Adopters
<1>6. CASE ClaimDetectedLoader \/ Reconcile \/ Player \/ UNCHANGED vars
  BY <1>5, <1>6 DEF ClaimDetectedLoader, Reconcile, Player, vars
<1>7. CASE \E t \in Threads : ToggleStart(t) \/ ToggleLock(t) \/ ToggleOne(t) \/ ToggleDone(t)
  BY <1>5, <1>7 DEF ToggleStart, ToggleLock, ToggleOne, ToggleDone
<1>8. QED
  BY <1>1, <1>2, <1>3, <1>4, <1>6, <1>7 DEF Next

\* A file that holds what some release of its only owner has under its name is the release's.
LEMMA ReleasedIsIntact ==
  ASSUME NEW p \in Package, NEW id, id = p.id,
         ReleaseOf(p, records'[id].version, [f \in records'[id].files |-> disk'[f]["on"].hash]),
         records'[id].files # {},
         \A f \in records'[id].files : On(disk', f) /\ entries'[f].owners = {id}
  PROVE PackageStatus(id)' = "release"
<1> DEFINE files == records'[id].files
           hash == [f \in files |-> disk'[f]["on"].hash]
<1>1. PICK i \in DOMAIN p.releases :
        /\ {[name |-> f.name, hash |-> hash[f]] : f \in files} = p.releases[i].assets
        /\ \A a \in p.releases[i].assets : a.hash # None
  BY DEF ReleaseOf
<1>2. ASSUME NEW f \in files PROVE Classify(f)' = "release"
  <2>1. DiskTarget(f)' = "on"
    BY DEF DiskTarget, ActualPath, On
  <2>2. "on" # None
    BY LocalModsAssumption DEF Slot
  <2>3. [name |-> f.name, hash |-> hash[f]] \in p.releases[i].assets
    BY <1>1
  <2>4. disk'[f]["on"].hash \in PublishedHashes(f)'
    <3> DEFINE a == [name |-> f.name, hash |-> hash[f]]
    <3>1. a.name = f.name /\ a.hash = disk'[f]["on"].hash /\ a.hash # None
      BY <1>1, <2>3
    <3>2. a \in UNION {r.assets : r \in Range(p.releases)}
      BY <2>3 DEF Range
    <3>3. p.id \in entries'[f].owners
      OBVIOUS
    <3> HIDE DEF a
    <3>4. QED
      BY <3>1, <3>2, <3>3 DEF PublishedHashes
  <2>5. QED
    BY <2>1, <2>2, <2>4 DEF Classify
<1>3. {Classify(f) : f \in records[id].files}' = {"release"}
  BY <1>2
<1>4. QED
  BY <1>3 DEF PackageStatus

\* What ClaimsAreSound says of a package that enters the records.
Welcome(id) ==
  LET new == records'[id]
  IN /\ \A f \in new.files : /\ On(disk, f) /\ f \notin DOMAIN entries
                             /\ entries'[f].owners = {id} /\ entries'[f].hash = disk[f]["on"].hash
     /\ \/ \E p \in Package : /\ p.id = id /\ HasEvidence(p, new.version, new.files)
                              /\ \A f \in new.files : ~HasRival(p, f)
                              /\ (\A f \in new.files : ~Matches(disk[f]["on"], p))
                                   => PackageStatus(id)' = "release"
        \/ \E p \in PrivatePackages : p.id = id /\ p.files = [f \in new.files |-> disk[f]["on"].hash]
     /\ \A other \in DOMAIN records : records'[other] = records[other]

\* The bytes are the ones the claim was made for, so what the claim was made on still holds.
LEMMA WrittenIsSound ==
  ASSUME Inv, ClaimsSound, NEW who \in Adopters, NEW c \in adopting[who].claims,
         c.id \notin DOMAIN records, Adoptable(c), Write(c), UNCHANGED disk
  PROVE Welcome(c.id)
<1> DEFINE files == DOMAIN c.files
           now == [f \in files |-> disk[f]["on"].hash]
<1>1. /\ records'[c.id] = ModRecord(c) /\ c.id \in DOMAIN records'
      /\ \A p \in DOMAIN records : records'[p] = records[p]
  BY DEF Write
<1>2. records'[c.id].files = files /\ records'[c.id].version = c.version
  BY <1>1 DEF ModRecord
<1>3. ASSUME NEW f \in files
      PROVE /\ On(disk, f) /\ f \notin DOMAIN entries /\ c.files[f] = disk[f]["on"].hash
            /\ entries'[f].owners = {c.id} /\ entries'[f].hash = disk[f]["on"].hash
            /\ disk[f]["on"] \in Dlls
  <2>1. On(disk, f) /\ f \notin DOMAIN entries /\ c.files[f] = disk[f]["on"].hash
    BY DEF Adoptable
  <2>2. entries'[f] = Entry(c.id, c.files[f])
    BY DEF Write
  <2>3. f \in Place
    BY DEF Inv, AdoptionsOk, ClaimsOk
  <2>4. disk[f]["on"] \in Dlls
    BY <2>1, <2>3 DEF Inv, Disk, On, Slot
  <2>5. QED
    BY <2>1, <2>2, <2>4 DEF Entry
<1>4. CASE who = "public"
  <2>1. PublicClaimOk(c, adopting["public"].recorded, adopting["public"].unread)
    BY <1>4 DEF ClaimsSound
  <2>2. PICK p \in Package :
          /\ p.id = c.id
          /\ SaidOf(p, c.files) \/ ReleaseOf(p, c.version, c.files)
          /\ \A q \in Package \ {p}, f \in files, d \in Dlls : d.hash = c.files[f] =>
               ~CouldClaim(q, f, d, adopting["public"].recorded, adopting["public"].unread)
    BY <2>1 DEF PublicClaimOk
  <2>3. files # {}
    BY <2>1 DEF PublicClaimOk
  <2>4. ASSUME NEW f \in files PROVE ~HasRival(p, f)
    BY <1>3, <2>2 DEF HasRival, CouldClaim
  <2>5. ASSUME SaidOf(p, c.files), NEW f \in files PROVE Matches(disk[f]["on"], p)
    BY <1>3, <2>5, IdentityAssumption DEF SaidOf, Matches
  <2>6. ASSUME ReleaseOf(p, c.version, c.files) PROVE ReleaseOf(p, c.version, now)
    <3>1. DOMAIN now = files /\ \A f \in files : now[f] = c.files[f]
      BY <1>3
    <3> HIDE DEF now
    <3>2. {[name |-> f.name, hash |-> now[f]] : f \in DOMAIN now}
            = {[name |-> f.name, hash |-> c.files[f]] : f \in DOMAIN c.files}
      BY <3>1
    <3>3. QED
      BY <2>6, <3>2 DEF ReleaseOf
  <2>7. HasEvidence(p, c.version, files)
    <3>1. CASE SaidOf(p, c.files)
      BY <2>5, <3>1 DEF HasEvidence
    <3>2. CASE ReleaseOf(p, c.version, c.files)
      BY <2>6, <3>2 DEF HasEvidence, ReleaseOf
    <3>3. QED
      BY <2>2, <3>1, <3>2
  <2>8. ASSUME \A f \in files : ~Matches(disk[f]["on"], p) PROVE PackageStatus(c.id)' = "release"
    <3>1. ReleaseOf(p, c.version, now)
      BY <2>2, <2>3, <2>5, <2>6, <2>8
    <3>2. ReleaseOf(p, records'[c.id].version, [f \in records'[c.id].files |-> disk'[f]["on"].hash])
      BY <1>2, <3>1
    <3>3. \A f \in records'[c.id].files : On(disk', f) /\ entries'[f].owners = {c.id}
      BY <1>2, <1>3
    <3>4. QED
      BY <1>2, <2>2, <2>3, <3>2, <3>3, ReleasedIsIntact
  <2>9. QED
    BY <1>1, <1>2, <1>3, <2>2, <2>4, <2>7, <2>8 DEF Welcome
<1>5. CASE who = "private"
  <2>1. PICK p \in PrivatePackages : p.id = c.id /\ p.files = c.files
    BY <1>5 DEF ClaimsSound, PrivateClaimOk
  <2>2. p.files = now
    BY <1>3, <2>1, ReleaseAssumption
  <2>3. QED
    BY <1>1, <1>2, <1>3, <2>1, <2>2 DEF Welcome
<1>6. QED
  BY <1>4, <1>5 DEF Adopters

\* What an adoption records was there, switched on and nobody's when it was written, and
\* nobody else could claim it; nothing that was recorded is touched (adoption.py,
\* private_distribution_controller.py, installer.py).
THEOREM AdoptionsAreSound == Spec => ClaimsAreSound
<1> DEFINE Sound == \A id \in DOMAIN records' \ DOMAIN records : ~records'[id].loader => Welcome(id)
<1>1. ASSUME Inv, ClaimsSound, [Next]_vars PROVE Sound
  <2> SUFFICES ASSUME NEW id \in DOMAIN records' \ DOMAIN records, ~records'[id].loader
               PROVE Welcome(id)
    OBVIOUS
  <2>1. ASSUME NEW who \in Adopters, AdoptOne(who) PROVE Welcome(id)
    <3>1. PICK c \in adopting[who].claims :
            IF c.id \in DOMAIN records \/ ~Adoptable(c) THEN UNCHANGED mods ELSE Write(c)
      BY <2>1 DEF AdoptOne
    <3>2. c.id \notin DOMAIN records /\ Adoptable(c) /\ Write(c) /\ UNCHANGED disk
      BY <2>1, <3>1 DEF AdoptOne, mods
    <3>3. id = c.id
      BY <3>2 DEF Write
    <3>4. QED
      BY <1>1, <3>2, <3>3, WrittenIsSound
  <2>2. ASSUME NEW recorded, RecordLoader(recorded) PROVE FALSE
    <3>1. records'[id] = DetectedRecord
      BY <2>2 DEF RecordLoader
    <3>2. QED
      BY <3>1 DEF DetectedRecord
  <2>3. ASSUME SaveReconciled PROVE FALSE
    BY <2>3 DEF SaveReconciled, Reconciled, mods
  <2>4. UNCHANGED records => FALSE
    OBVIOUS
  <2>5. CASE AdoptStart \/ PrivateStart \/ Player \/ UNCHANGED vars
    BY <2>4, <2>5 DEF AdoptStart, PrivateStart, Player, vars, mods
  <2>6. CASE AdoptDetectedLoaders \/ ClaimDetectedLoader \/ Reconcile
    BY <2>2, <2>3, <2>6 DEF AdoptDetectedLoaders, ClaimDetectedLoader, Reconcile
  <2>7. CASE \E t \in Threads : ToggleStart(t) \/ ToggleLock(t) \/ ToggleOne(t) \/ ToggleDone(t)
    BY <2>3, <2>4, <2>7 DEF ToggleStart, ToggleLock, ToggleOne, ToggleDone, mods
  <2>8. QED
    BY <1>1, <2>1, <2>5, <2>6, <2>7 DEF Next
<1>2. Init => ClaimsSound
  BY DEF Init, ClaimsSound, NoClaims, Adopters
<1>3. Inv /\ ClaimsSound /\ [Next]_vars => ClaimsSound'
  BY ClaimsNext
<1>4. Spec => []ClaimsSound
  BY <1>2, <1>3, InvAlways, PTL DEF Spec
<1>5. Inv /\ ClaimsSound /\ [Next]_vars => Sound
  BY <1>1
<1>6. Spec => [][Sound]_vars
  BY <1>4, <1>5, InvAlways, PTL DEF Spec
<1>7. QED
  BY <1>6, PTL DEF ClaimsAreSound, Welcome

(* ------------------------- what a switch leaves ----------------------- *)
\* A switch is followed from the disk it began with (before), over the files it was to
\* rename (items, of which it keeps those still left), to the disk it leaves.
From(call) == IF call.enabled THEN "off" ELSE "on"
Item(g, s) == [place |-> g, slot |-> s]
Straight(call) == ~call.enabled \/ NamesOnce(call.before)
ItemsAre(call, items) ==
  Straight(call) => \A i \in items :
    /\ i.place \in Place /\ i.slot \in Slot /\ i = Item(i.place, i.slot)
    /\ call.before[i.place][i.slot] # None
\* What an enabled mod needs is not switched off.
NoneIsNeeded(call, items, recorded) ==
  ~call.enabled /\ call.owned => \A f, g \in Place :
    InRoots(f, recorded) /\ InRoots(g, recorded) /\ On(call.before, f) /\ On(call.before, g)
    /\ call.before[g]["on"].asm \in call.before[f]["on"].needs => Item(g, "on") \notin items
\* What a file that is switched on needs is on, or comes along.
AllCome(call, items, recorded) ==
  call.enabled /\ NamesOnce(call.before) => \A i \in items, g \in Place, s \in Slot :
    InRoots(i.place, recorded) /\ InRoots(g, recorded) /\ call.before[g][s] # None
    /\ call.before[g][s].asm \in call.before[i.place][i.slot].needs => s = "on" \/ Item(g, s) \in items
\* Each file is as it was, or has its other name and was to have it.
Swapped(old, new, slot) == /\ old[slot] # None /\ old[Other(slot)] = None
                           /\ new[slot] = None /\ new[Other(slot)] = old[slot]
Followed(call, items, d) ==
  /\ \A g \in Place : \/ d[g] = call.before[g]
                      \/ /\ Swapped(call.before[g], d[g], From(call))
                         /\ Straight(call) => Item(g, From(call)) \in items
  /\ Straight(call) => \A i \in items \ (call.targets \cup call.libraries) :
       i.slot = From(call) => d[i.place][i.slot] = None
Fields == {"enabled", "targets", "libraries", "locked", "before", "owned"}
Tracked(call, d, recorded) ==
  \E items : /\ call.targets \cup call.libraries \subseteq items
             /\ ItemsAre(call, items) /\ NoneIsNeeded(call, items, recorded)
             /\ AllCome(call, items, recorded) /\ Followed(call, items, d)
SwitchOk(t) ==
  toggles[t] # None =>
    /\ DOMAIN toggles[t] = Fields /\ toggles[t].enabled \in BOOLEAN
    /\ toggles[t].before # None => /\ toggles[t].before \in Disk
                                   /\ Tracked(toggles[t], disk, DOMAIN records)
SwitchesOk == DOMAIN toggles = Threads /\ \A t \in Threads : SwitchOk(t)

\* What a switch that has run to its end undisturbed leaves.
LibrariesKept(call, all) ==
  /\ \A f \in Place : InRoots(f, all) /\ On(call.before, f) /\ On(disk, f)
                      /\ Met(call.before, all, f) => Met(disk, all, f)
  /\ NamesOnce(call.before) => \A f \in Place :
       InRoots(f, all) /\ ~On(call.before, f) /\ On(disk, f) =>
         \A n \in disk[f]["on"].needs : There(disk, n, all) =>
           \E g \in Place : InRoots(g, all) /\ On(disk, g) /\ disk[g]["on"].asm = n

LEMMA EndsWithLibraries ==
  ASSUME disk \in Disk, NEW call, call.enabled \in BOOLEAN, call.before \in Disk, NEW all,
         Tracked(call, disk, all), call.targets \cup call.libraries = {}, call.owned
  PROVE LibrariesKept(call, all)
<1> DEFINE b == call.before
<1>1. PICK items : /\ ItemsAre(call, items) /\ NoneIsNeeded(call, items, all)
                   /\ AllCome(call, items, all) /\ Followed(call, items, disk)
  BY DEF Tracked
<1> DEFINE Moved(g) == Swapped(b[g], disk[g], From(call))
<1>2. ASSUME NEW g \in Place
      PROVE disk[g] = b[g] \/ (Moved(g) /\ (Straight(call) => Item(g, From(call)) \in items))
  BY <1>1 DEF Followed
<1>0. ASSUME NEW g \in Place, Moved(g)
      PROVE /\ call.enabled => ~On(b, g) /\ On(disk, g) /\ disk[g]["on"] = b[g]["off"]
            /\ ~call.enabled => On(b, g) /\ ~On(disk, g)
            /\ disk[g][From(call)] = None
  BY <1>0 DEF Swapped, From, Other, On
<1> HIDE DEF Moved
<1>3. ASSUME NEW f \in Place, InRoots(f, all), On(b, f), On(disk, f), Met(b, all, f)
      PROVE Met(disk, all, f)
  <2>1. disk[f]["on"] = b[f]["on"]
    BY <1>0, <1>2, <1>3
  <2> SUFFICES ASSUME NEW n \in b[f]["on"].needs
               PROVE \E g \in Place : InRoots(g, all) /\ On(disk, g) /\ disk[g]["on"].asm = n
    BY <2>1 DEF Met
  <2>2. PICK g \in Place : InRoots(g, all) /\ On(b, g) /\ b[g]["on"].asm = n
    BY <1>3 DEF Met
  <2>3. disk[g] = b[g]
    <3>1. CASE call.enabled
      BY <1>0, <1>2, <2>2, <3>1
    <3>2. CASE ~call.enabled
      <4>1. Item(g, "on") \notin items
        BY <1>1, <1>3, <2>2, <3>2 DEF NoneIsNeeded
      <4>2. QED
        BY <1>2, <2>2, <3>2, <4>1 DEF From, Straight
    <3>3. QED
      BY <3>1, <3>2
  <2>4. QED
    BY <2>2, <2>3 DEF On
<1>4. ASSUME NamesOnce(b), NEW f \in Place, InRoots(f, all), ~On(b, f), On(disk, f),
             NEW n \in disk[f]["on"].needs, There(disk, n, all)
      PROVE \E g \in Place : InRoots(g, all) /\ On(disk, g) /\ disk[g]["on"].asm = n
  <2>1. /\ call.enabled /\ From(call) = "off" /\ Straight(call)
        /\ Item(f, "off") \in items /\ disk[f]["on"] = b[f]["off"]
    <3>1. Moved(f) /\ (Straight(call) => Item(f, From(call)) \in items)
      BY <1>2, <1>4 DEF On
    <3>2. call.enabled /\ disk[f]["on"] = b[f]["off"]
      BY <1>0, <1>4, <3>1
    <3>3. QED
      BY <1>4, <3>1, <3>2 DEF Straight, From
  <2>2. PICK g \in Place, z \in Slot : InRoots(g, all) /\ disk[g][z] # None /\ disk[g][z].asm = n
    BY <1>4 DEF There
  <2>3. CASE disk[g] = b[g]
    <3>1. z = "on" \/ Item(g, z) \in items
      <4>1. Item(f, "off").place = f /\ Item(f, "off").slot = "off"
        BY DEF Item
      <4>2. QED
        BY <1>1, <1>4, <2>1, <2>2, <2>3, <4>1 DEF AllCome
    <3>2. ~(z = "off" /\ Item(g, z) \in items)
      <4>1. Item(g, z).place = g /\ Item(g, z).slot = z
        BY DEF Item
      <4>2. QED
        BY <1>1, <2>1, <2>2, <4>1 DEF Followed
    <3>3. z = "on"
      BY <3>1, <3>2 DEF Slot
    <3>4. QED
      BY <2>2, <3>3 DEF On
  <2>4. CASE Moved(g)
    <3>1. On(disk, g) /\ disk[g]["off"] = None
      BY <1>0, <2>1, <2>4
    <3>2. z = "on"
      BY <2>2, <3>1 DEF Slot
    <3>3. QED
      BY <2>2, <3>1, <3>2
  <2>5. QED
    BY <1>2, <2>3, <2>4
<1>5. QED
  BY <1>3, <1>4 DEF LibrariesKept

LEMMA ReachedIsClosed ==
  ASSUME NEW rows, NEW asked,
         \A r \in rows : DllOf(r) \in Dlls,
         asked \subseteq {DllOf(r).asm : r \in rows}
  PROVE /\ asked \subseteq Reached(rows, asked)
        /\ \A m \in Reached(rows, asked), r \in rows :
             ByName(rows, m) = {r} => DllOf(r).needs \subseteq Reached(rows, asked)
<1> DEFINE all == UNION {{d.asm} \cup d.needs : d \in Dlls}
           closed(S) == asked \subseteq S /\ Needed(rows, S) \subseteq S
<1>1. Reached(rows, asked) = {n \in all : \A S \in SUBSET all : closed(S) => n \in S}
  BY DEF Reached
<1>2. asked \subseteq all
  OBVIOUS
<1>3. ASSUME NEW m \in Reached(rows, asked), NEW r \in rows, ByName(rows, m) = {r},
             NEW n \in DllOf(r).needs
      PROVE n \in Reached(rows, asked)
  <2>1. FirstRow(ByName(rows, m)) = r
    BY <1>3 DEF FirstRow
  <2>2. n \in all
    BY <1>3
  <2>3. ASSUME NEW S \in SUBSET all, closed(S) PROVE n \in S
    <3>1. m \in S
      BY <1>1, <2>3
    <3>2. ByName(rows, m) # {}
      BY <1>3
    <3>3. DllOf(FirstRow(ByName(rows, m))).needs \subseteq Needed(rows, S)
      BY <3>1, <3>2 DEF Needed
    <3>4. QED
      BY <1>3, <2>1, <2>3, <3>3
  <2> HIDE DEF all, closed
  <2>4. QED
    BY <1>1, <2>2, <2>3
<1> HIDE DEF all
<1>4. asked \subseteq Reached(rows, asked)
  BY <1>1, <1>2
<1>5. QED
  BY <1>3, <1>4

\* What reconciling leaves of the records names places only, and is what is recorded from then on.
LEMMA AfterReconciling ==
  ASSUME Inv, SaveReconciled
  PROVE /\ DOMAIN records' = DOMAIN Reconciled.records
        /\ \A p \in DOMAIN Reconciled.records : Reconciled.records[p].files \subseteq Place
<1>1. /\ DOMAIN Reconciled.records = DOMAIN records \ Dropped
      /\ \A p \in DOMAIN Reconciled.records :
           Reconciled.records[p] = [records[p] EXCEPT !.files = {f \in @ : f \in DOMAIN entries /\ ~Gone(f)}]
  BY DEF Reconciled
<1>2. DOMAIN records' = DOMAIN Reconciled.records
  <2>1. CASE Reconciled.changed
    BY <2>1 DEF SaveReconciled
  <2>2. CASE ~Reconciled.changed
    <3>1. Dropped = {}
      BY <2>2 DEF Reconciled
    <3>2. QED
      BY <1>1, <2>2, <3>1 DEF SaveReconciled, mods
  <2>3. QED
    BY <2>1, <2>2
<1>3. ASSUME NEW p \in DOMAIN Reconciled.records PROVE Reconciled.records[p].files \subseteq Place
  <2>1. p \in DOMAIN records /\ DOMAIN records[p] = {"version", "loader", "files", "dirs"}
    BY <1>1 DEF Inv, RecordsOk
  <2>2. Reconciled.records[p].files = {f \in records[p].files : f \in DOMAIN entries /\ ~Gone(f)}
    BY <1>1, <2>1
  <2>3. QED
    BY <2>2 DEF Inv, EntriesOk
<1>4. QED
  BY <1>2, <1>3

LEMMA RowIs ==
  ASSUME NEW recorded, NEW g \in Place, NEW s \in Slot, InRoots(g, recorded), disk[g][s] # None
  PROVE Item(g, s) \in Rows(recorded) /\ DllOf(Item(g, s)) = disk[g][s]
BY DEF Item, Rows, DllOf
LEMMA RowHas ==
  ASSUME disk \in Disk, NEW recorded, NEW r \in Rows(recorded)
  PROVE /\ r.place \in Place /\ r.slot \in Slot /\ r = Item(r.place, r.slot)
        /\ InRoots(r.place, recorded) /\ disk[r.place][r.slot] # None
        /\ DllOf(r) = disk[r.place][r.slot] /\ DllOf(r) \in Dlls
BY DEF Item, Rows, DllOf, Disk

\* The files a switch takes: the ones of the package that nobody needs, or the file itself.
FreeFile(g, depended) == Item(g, "on") \notin depended
PackageFiles(f, depended) ==
  LET after == Reconciled.records
      owner == {p \in DOMAIN after : f \in after[p].files}
  IN {Item(g, ActualPath(disk, g)) : g \in
        {h \in UNION {after[p].files : p \in owner} :
           InRoots(h, DOMAIN after) /\ FreeFile(h, depended) /\ ~Gone(h)}}
LEMMA TargetsAre ==
  ASSUME NEW f, NEW slot
  PROVE LET depended == DependedFiles(DOMAIN Reconciled.records)
            owned == \E p \in DOMAIN Reconciled.records : f \in Reconciled.records[p].files
            targets == PackageToggleTargets(f, slot)
        IN \/ targets = PackageFiles(f, depended)
           \/ targets = {Item(f, slot)} /\ (owned => FreeFile(f, depended))
BY DEF PackageToggleTargets, PackageFiles, FreeFile, Item

LEMMA TargetsAreThere ==
  ASSUME Inv, SaveReconciled, NEW f \in Place, NEW slot \in Slot, disk[f][slot] # None,
         NEW i \in PackageToggleTargets(f, slot)
  PROVE /\ i.place \in Place /\ i.slot \in Slot /\ i = Item(i.place, i.slot)
        /\ disk[i.place][i.slot] # None
<1> DEFINE depended == DependedFiles(DOMAIN Reconciled.records)
<1>1. CASE i = Item(f, slot)
  BY <1>1 DEF Item
<1>2. CASE i \in PackageFiles(f, depended)
  <2>1. PICK g : /\ i = Item(g, ActualPath(disk, g)) /\ ~Gone(g)
                 /\ \E p \in DOMAIN Reconciled.records : g \in Reconciled.records[p].files
    BY <1>2 DEF PackageFiles
  <2>2. g \in Place
    BY <2>1, AfterReconciling
  <2>3. ActualPath(disk, g) \in Slot /\ disk[g][ActualPath(disk, g)] # None
    BY <2>1 DEF Gone, ActualPath, On, Slot
  <2>4. i.place = g /\ i.slot = ActualPath(disk, g)
    BY <2>1 DEF Item
  <2>5. QED
    BY <2>1, <2>2, <2>3, <2>4
<1> HIDE DEF depended
<1>3. PackageToggleTargets(f, slot) \in {PackageFiles(f, depended), {Item(f, slot)}}
  BY TargetsAre DEF depended
<1>4. QED
  BY <1>1, <1>2, <1>3

LEMMA TargetsSpare ==
  ASSUME disk \in Disk, NEW f, NEW slot, NEW items, items = PackageToggleTargets(f, slot),
         \E p \in DOMAIN Reconciled.records : f \in Reconciled.records[p].files,
         NEW g \in Place, NEW h \in Place,
         InRoots(g, DOMAIN Reconciled.records), InRoots(h, DOMAIN Reconciled.records),
         On(disk, g), On(disk, h), disk[h]["on"].asm \in disk[g]["on"].needs
  PROVE Item(h, "on") \notin items
<1> DEFINE recorded == DOMAIN Reconciled.records
           depended == DependedFiles(recorded)
<1>1. /\ Item(g, "on") \in Rows(recorded) /\ DllOf(Item(g, "on")) = disk[g]["on"]
      /\ Item(h, "on") \in Rows(recorded) /\ DllOf(Item(h, "on")) = disk[h]["on"]
      /\ Item(g, "on").slot = "on"
  BY RowIs DEF On, Slot, Item
<1>2. Item(h, "on") \in depended
  BY <1>1 DEF DependedFiles
<1>3. ASSUME NEW x, NEW s, Item(x, s) = Item(h, "on") PROVE x = h /\ s = "on"
  BY <1>3 DEF Item
<1> HIDE DEF depended
<1>4. Item(h, "on") \notin PackageFiles(f, depended)
  BY <1>2, <1>3 DEF PackageFiles, FreeFile
<1>5. CASE items = {Item(f, slot)} /\ FreeFile(f, depended)
  BY <1>2, <1>3, <1>5 DEF FreeFile
<1>6. items = PackageFiles(f, depended) \/ (items = {Item(f, slot)} /\ FreeFile(f, depended))
  BY TargetsAre DEF depended
<1>7. QED
  BY <1>4, <1>5, <1>6

\* The libraries are rows that are switched off, and with them everything comes along.
LEMMA LibrariesCome ==
  ASSUME disk \in Disk, NamesOnce(disk), NEW targets,
         \A i \in targets : /\ i.place \in Place /\ i.slot \in Slot /\ i = Item(i.place, i.slot)
                            /\ disk[i.place][i.slot] # None,
         NEW recorded, recorded = DOMAIN Reconciled.records,
         NEW items, items = targets \cup WithRequiredLibraries(targets)
  PROVE /\ \A i \in items : /\ i.place \in Place /\ i.slot \in Slot /\ i = Item(i.place, i.slot)
                            /\ disk[i.place][i.slot] # None
        /\ \A i \in items, g \in Place, s \in Slot :
             InRoots(i.place, recorded) /\ InRoots(g, recorded) /\ disk[g][s] # None
             /\ disk[g][s].asm \in disk[i.place][i.slot].needs => s = "on" \/ Item(g, s) \in items
<1> DEFINE rows == Rows(recorded)
           known == {t.place : t \in targets}
           asked == {DllOf(r).asm : r \in {q \in rows : q.place \in known}}
           names == Reached(rows, asked)
           found == {FirstRow(ByName(rows, n)) : n \in {m \in names : ByName(rows, m) # {}}}
<1>1. WithRequiredLibraries(targets) = {r \in found : r.slot = "off" /\ r.place \notin known}
  BY DEF WithRequiredLibraries
<1>2. \A r \in rows : /\ r.place \in Place /\ r.slot \in Slot /\ r = Item(r.place, r.slot)
                      /\ InRoots(r.place, recorded) /\ disk[r.place][r.slot] # None
                      /\ DllOf(r) = disk[r.place][r.slot] /\ DllOf(r) \in Dlls
  BY RowHas
<1>3. ASSUME NEW r \in rows PROVE ByName(rows, DllOf(r).asm) = {r}
  <2>1. ASSUME NEW q \in rows, DllOf(q).asm = DllOf(r).asm PROVE q = r
    <3>1. q.place = r.place /\ q.slot = r.slot
      BY <1>2, <2>1 DEF NamesOnce
    <3>2. QED
      BY <1>2, <3>1
  <2>2. QED
    BY <2>1 DEF ByName
<1>4. ASSUME NEW r PROVE FirstRow({r}) = r
  BY DEF FirstRow
<1>5. asked \subseteq {DllOf(r).asm : r \in rows}
  OBVIOUS
<1> HIDE DEF rows, asked
<1>6. /\ asked \subseteq names
      /\ \A m \in names, r \in rows : ByName(rows, m) = {r} => DllOf(r).needs \subseteq names
  BY <1>2, <1>5, ReachedIsClosed
<1> HIDE DEF names
<1>7. ASSUME NEW n \in names, ByName(rows, n) # {}
      PROVE \E r \in rows : FirstRow(ByName(rows, n)) = r /\ DllOf(r).asm = n
  <2>1. PICK r \in rows : DllOf(r).asm = n
    BY <1>7 DEF ByName
  <2>2. QED
    BY <1>3, <1>4, <2>1
<1>8. ASSUME NEW r \in found PROVE r \in rows /\ DllOf(r).asm \in names
  BY <1>7
<1>9. ASSUME NEW r \in rows, DllOf(r).asm \in names PROVE r \in found
  BY <1>3, <1>4, <1>9
<1> HIDE DEF found
<1>10. ASSUME NEW i \in items
       PROVE /\ i.place \in Place /\ i.slot \in Slot /\ i = Item(i.place, i.slot)
             /\ disk[i.place][i.slot] # None
  BY <1>1, <1>2, <1>8
<1>11. ASSUME NEW i \in items, NEW g \in Place, NEW s \in Slot,
              InRoots(i.place, recorded), InRoots(g, recorded), disk[g][s] # None,
              disk[g][s].asm \in disk[i.place][i.slot].needs, s # "on"
       PROVE Item(g, s) \in items
  <2>1. i \in rows /\ DllOf(i) = disk[i.place][i.slot]
    <3>1. i.place \in Place /\ i.slot \in Slot /\ i = Item(i.place, i.slot) /\ disk[i.place][i.slot] # None
      BY <1>10
    <3>2. QED
      BY <1>11, <3>1, RowIs DEF rows
  <2>2. DllOf(i).asm \in names
    <3>1. CASE i \in targets
      <4>1. DllOf(i).asm \in asked
        BY <2>1, <3>1 DEF asked
      <4>2. QED
        BY <1>6, <4>1
    <3>2. CASE i \notin targets
      BY <1>1, <1>8, <3>2
    <3>3. QED
      BY <3>1, <3>2
  <2>3. DllOf(i).needs \subseteq names
    BY <1>3, <1>6, <2>1, <2>2
  <2>4. Item(g, s) \in rows /\ DllOf(Item(g, s)) = disk[g][s]
    BY <1>11, RowIs DEF rows
  <2>5. Item(g, s) \in found
    BY <1>9, <1>11, <2>1, <2>3, <2>4
  <2>6. CASE g \notin known
    <3>1. Item(g, s).place = g /\ Item(g, s).slot = "off"
      BY <1>11 DEF Item, Slot
    <3>2. QED
      BY <1>1, <2>5, <2>6, <3>1
  <2>7. CASE g \in known
    <3>1. PICK t \in targets : t.place = g
      BY <2>7
    <3>2. t.slot = s /\ t = Item(g, t.slot)
      BY <1>11, <3>1 DEF NamesOnce
    <3>3. QED
      BY <3>1, <3>2
  <2>8. QED
    BY <2>6, <2>7
<1>12. QED
  BY <1>10, <1>11

\* What is followed does not depend on what else there is but the runtime.
LEMMA TrackedStays ==
  ASSUME UNCHANGED root, NEW call, NEW d, NEW recorded, Tracked(call, d, recorded)
  PROVE Tracked(call, d, recorded)'
<1>1. ASSUME NEW f PROVE InRoots(f, recorded)' = InRoots(f, recorded)
  BY DEF InRoots, ScanHomes, Detect
<1>2. ASSUME NEW items
      PROVE /\ NoneIsNeeded(call, items, recorded)' = NoneIsNeeded(call, items, recorded)
            /\ AllCome(call, items, recorded)' = AllCome(call, items, recorded)
  BY <1>1 DEF NoneIsNeeded, AllCome
<1>3. QED
  BY <1>2 DEF Tracked
\* Whatever else happens, a switch goes on from where it was or is no longer followed.
LEMMA SwitchStays ==
  ASSUME NEW t, SwitchOk(t), UNCHANGED <<disk, root>>, DOMAIN records' = DOMAIN records,
         toggles'[t] = toggles[t]
  PROVE SwitchOk(t)'
<1>1. PICK call, d, recorded : call = toggles[t] /\ d = disk /\ recorded = DOMAIN records
  OBVIOUS
<1>2. Tracked(call, d, recorded) => Tracked(call, d, recorded)'
  BY TrackedStays
<1>3. toggles'[t] = call /\ disk' = d /\ DOMAIN records' = recorded
  BY <1>1
<1>4. QED
  BY <1>1, <1>2, <1>3 DEF SwitchOk
LEMMA SwitchIsDisturbed ==
  ASSUME NEW t, SwitchOk(t), toggles'[t] \in {None, [toggles[t] EXCEPT !.before = None]},
         toggles[t] = None => toggles'[t] = None
  PROVE SwitchOk(t)'
BY DEF SwitchOk, Fields
LEMMA DisturbedIs ==
  ASSUME NEW ts, NEW t \in Threads
  PROVE /\ Disturb(ts)[t] \in {toggles[t], [toggles[t] EXCEPT !.before = None]}
        /\ t \in ts => Disturb(ts)[t] \in {None, [toggles[t] EXCEPT !.before = None]}
        /\ toggles[t] = None \/ t \notin ts => Disturb(ts)[t] = toggles[t]
        /\ DOMAIN Disturb(ts) = Threads
BY DEF Disturb
LEMMA AllAreDisturbed ==
  ASSUME SwitchesOk, toggles' = Disturb(Threads)
  PROVE SwitchesOk'
BY SwitchIsDisturbed, DisturbedIs DEF SwitchesOk, Disturb

\* A switch begins with everything it will need among its files.
LEMMA StartIsTracked ==
  ASSUME Inv, SaveReconciled, UNCHANGED root, NEW f \in Place, NEW slot \in Slot, disk[f][slot] # None,
         NEW call, call.before = disk, call.enabled \in BOOLEAN,
         call.targets = PackageToggleTargets(f, slot),
         call.libraries = IF call.enabled THEN WithRequiredLibraries(call.targets) ELSE {},
         call.owned = (\E p \in DOMAIN Reconciled.records : f \in Reconciled.records[p].files)
  PROVE Tracked(call, disk, DOMAIN Reconciled.records)
<1> DEFINE recorded == DOMAIN Reconciled.records
           items == call.targets \cup call.libraries
<1>1. \A i \in call.targets : /\ i.place \in Place /\ i.slot \in Slot /\ i = Item(i.place, i.slot)
                              /\ disk[i.place][i.slot] # None
  BY TargetsAreThere
<1>2. disk \in Disk
  BY DEF Inv
<1>3. CASE call.enabled
  <2>1. items = call.targets \cup WithRequiredLibraries(call.targets)
    BY <1>3
  <2> HIDE DEF items, recorded
  <2>2. ASSUME NamesOnce(disk)
        PROVE ItemsAre(call, items) /\ AllCome(call, items, recorded)
    <3>1. /\ \A i \in items : /\ i.place \in Place /\ i.slot \in Slot /\ i = Item(i.place, i.slot)
                              /\ disk[i.place][i.slot] # None
          /\ \A i \in items, g \in Place, s \in Slot :
               InRoots(i.place, recorded) /\ InRoots(g, recorded) /\ disk[g][s] # None
               /\ disk[g][s].asm \in disk[i.place][i.slot].needs => s = "on" \/ Item(g, s) \in items
      BY <1>1, <1>2, <2>1, <2>2, LibrariesCome DEF recorded
    <3>2. QED
      BY <3>1 DEF ItemsAre, AllCome
  <2>3. ItemsAre(call, items) /\ AllCome(call, items, recorded) /\ NoneIsNeeded(call, items, recorded)
    BY <1>3, <2>2 DEF ItemsAre, AllCome, NoneIsNeeded, Straight
  <2>4. Followed(call, items, disk)
    BY DEF Followed, items
  <2>5. QED
    BY <2>3, <2>4 DEF Tracked, items, recorded
<1>4. CASE ~call.enabled
  <2>1. items = PackageToggleTargets(f, slot)
    BY <1>4
  <2> HIDE DEF items
  <2>2. ItemsAre(call, items)
    BY <1>1, <2>1 DEF ItemsAre
  <2>3. NoneIsNeeded(call, items, recorded)
    BY <1>2, <2>1, TargetsSpare DEF NoneIsNeeded
  <2>4. Followed(call, items, disk) /\ AllCome(call, items, recorded)
    BY <1>4 DEF Followed, items, AllCome
  <2>5. QED
    BY <2>2, <2>3, <2>4 DEF Tracked, items
<1>5. QED
  BY <1>3, <1>4

LEMMA ToggleStartKeeps == ASSUME Inv, SwitchesOk, NEW t \in Threads, ToggleStart(t) PROVE SwitchesOk'
<1>1. PICK f \in Place, slot \in Slot, enabled \in BOOLEAN :
        LET targets == PackageToggleTargets(f, slot)
        IN /\ toggles[t] = None /\ disk[f][slot] # None /\ SaveReconciled
           /\ toggles' = [Disturb(IF Reconciled.changed THEN Threads ELSE {}) EXCEPT ![t] =
                IF targets = {} THEN None
                ELSE [enabled |-> enabled, targets |-> targets,
                      libraries |-> IF enabled THEN WithRequiredLibraries(targets) ELSE {},
                      locked |-> FALSE, before |-> disk,
                      owned |-> \E p \in DOMAIN Reconciled.records : f \in Reconciled.records[p].files]]
           /\ UNCHANGED <<disk, root>>
  BY DEF ToggleStart
<1> DEFINE targets == PackageToggleTargets(f, slot)
           owned == \E p \in DOMAIN Reconciled.records : f \in Reconciled.records[p].files
           libraries == IF enabled THEN WithRequiredLibraries(targets) ELSE {}
           call == [enabled |-> enabled, targets |-> targets, libraries |-> libraries,
                    locked |-> FALSE, before |-> disk, owned |-> owned]
           ts == IF Reconciled.changed THEN Threads ELSE {}
<1>2. toggles' = [Disturb(ts) EXCEPT ![t] = IF targets = {} THEN None ELSE call]
  BY <1>1
<1>3. DOMAIN toggles' = Threads /\ toggles'[t] \in {None, call}
      /\ \A u \in Threads \ {t} : toggles'[u] = Disturb(ts)[u]
  BY <1>2 DEF Disturb
<1>4. owned \in BOOLEAN /\ DOMAIN records' = DOMAIN Reconciled.records
  BY <1>1, AfterReconciling
<1> HIDE DEF owned, libraries, targets
<1>5. /\ call.enabled = enabled /\ call.targets = targets /\ call.libraries = libraries
      /\ call.before = disk /\ call.owned = owned /\ DOMAIN call = Fields
  BY DEF Fields
<1> HIDE DEF call, ts
<1>6. Tracked(call, disk, DOMAIN Reconciled.records)
  BY <1>1, <1>5, StartIsTracked DEF targets, libraries, owned
<1>7. SwitchOk(t)'
  <2>1. CASE toggles'[t] = None
    BY <2>1 DEF SwitchOk
  <2>2. CASE toggles'[t] = call
    <3>1. PICK c, d, recorded : c = call /\ d = disk /\ recorded = DOMAIN Reconciled.records
      OBVIOUS
    <3>2. Tracked(c, d, recorded)'
      BY <1>1, <1>6, <3>1, TrackedStays
    <3>3. toggles'[t] = c /\ disk' = d /\ DOMAIN records' = recorded
      BY <1>1, <1>4, <2>2, <3>1
    <3>4. disk' \in Disk
      BY <1>1 DEF Inv, Disk
    <3>5. QED
      BY <1>5, <3>1, <3>2, <3>3, <3>4 DEF SwitchOk
  <2>3. QED
    BY <1>3, <2>1, <2>2
<1>8. ASSUME NEW u \in Threads \ {t} PROVE SwitchOk(u)'
  <2>1. CASE Reconciled.changed
    BY <1>3, <2>1, SwitchIsDisturbed, DisturbedIs DEF SwitchesOk, ts
  <2>2. CASE ~Reconciled.changed
    <3>1. toggles'[u] = toggles[u] /\ UNCHANGED <<disk, root, records>>
      BY <1>1, <1>3, <2>2, DisturbedIs DEF ts, SaveReconciled, mods
    <3>2. QED
      BY <3>1, SwitchStays DEF SwitchesOk
  <2>3. QED
    BY <2>1, <2>2
<1>9. QED
  BY <1>3, <1>7, <1>8 DEF SwitchesOk

\* One renaming is one more file that has its other name, and was to have it.
LEMMA OneIsFollowed ==
  ASSUME disk \in Disk, NEW call, call.enabled \in BOOLEAN, NEW items,
         ItemsAre(call, items), Followed(call, items, disk),
         NEW item \in items, NEW slot, slot = From(call), NEW f, f = item.place,
         Found(item) # None, Found(item) = slot => disk[f][Other(slot)] = None,
         NEW d, d = (IF Found(item) = slot THEN Renamed(f, slot) ELSE disk),
         NEW left, left.enabled = call.enabled, left.before = call.before,
         left.targets \cup left.libraries = (call.targets \cup call.libraries) \ {item}
  PROVE Followed(left, items, d)
<1> DEFINE b == call.before
           done == items \ (call.targets \cup call.libraries)
<1>1. slot \in Slot /\ Other(slot) \in Slot /\ Other(slot) # slot
  BY DEF From, Slot, Other
<1>2. Straight(left) = Straight(call) /\ From(left) = slot
  BY DEF Straight, From
<1>3. Found(item) = slot => disk[f][slot] # None
  BY DEF Found, ActualPath, From
<1>4. ASSUME Found(item) = slot, f \in Place
      PROVE d[f][slot] = None /\ d[f][Other(slot)] = disk[f][slot]
            /\ \A g \in Place \ {f} : d[g] = disk[g]
  BY <1>1, <1>4 DEF Renamed, Disk
<1>5. ASSUME ~(Found(item) = slot /\ f \in Place), NEW g \in Place PROVE d[g] = disk[g]
  BY <1>5 DEF Renamed, Disk
<1>6. ASSUME NEW g \in Place
      PROVE \/ disk[g] = b[g]
            \/ Swapped(b[g], disk[g], slot) /\ (Straight(call) => Item(g, slot) \in items)
  BY <1>6 DEF Followed
<1>7. ASSUME Straight(call), f \in Place, Found(item) = slot PROVE item.slot = slot
  <2>1. item.slot \in Slot /\ b[f][item.slot] # None
    BY <1>7 DEF ItemsAre
  <2>2. disk[f] = b[f]
    BY <1>3, <1>6, <1>7 DEF Swapped
  <2>3. CASE item.slot = "on"
    BY <1>7, <2>1, <2>2, <2>3 DEF Found, ActualPath
  <2>4. CASE item.slot # "on"
    <3>1. item.slot = "off" /\ Found(item) = "off"
      BY <2>1, <2>4 DEF Found, Slot
    <3>2. QED
      BY <1>7, <3>1
  <2>5. QED
    BY <2>3, <2>4
<1>8. ASSUME NEW g \in Place
      PROVE \/ d[g] = b[g]
            \/ Swapped(b[g], d[g], slot) /\ (Straight(call) => Item(g, slot) \in items)
  <2>1. CASE g = f /\ Found(item) = slot
    <3>1. disk[f] = b[f]
      BY <1>3, <1>6, <2>1 DEF Swapped
    <3>2. Swapped(b[g], d[g], slot)
      BY <1>3, <1>4, <2>1, <3>1 DEF Swapped
    <3>3. Straight(call) => item = Item(g, slot)
      BY <1>7, <2>1 DEF ItemsAre
    <3>4. QED
      BY <3>2, <3>3
  <2>2. CASE ~(g = f /\ Found(item) = slot)
    <3>1. d[g] = disk[g]
      BY <1>4, <1>5, <2>2
    <3>2. QED
      BY <1>6, <3>1
  <2>3. QED
    BY <2>1, <2>2
<1>9. ASSUME Straight(call), NEW i \in done \cup {item}, i.slot = slot
      PROVE d[i.place][i.slot] = None
  <2>1. i.place \in Place /\ item.place \in Place /\ item.slot \in Slot
    BY <1>9 DEF ItemsAre
  <2>2. CASE i = item
    <3>1. CASE Found(item) = slot
      BY <1>4, <1>9, <2>1, <2>2, <3>1
    <3>2. CASE Found(item) # slot
      <4>1. d[f] = disk[f]
        BY <1>5, <2>1, <3>2
      <4>2. slot = "on"
        BY <1>1, <1>9, <2>1, <2>2, <3>2 DEF Found, Slot
      <4>3. disk[f]["on"] = None
        BY <1>9, <2>2, <3>2, <4>2 DEF Found, ActualPath
      <4>4. QED
        BY <1>9, <2>2, <4>1, <4>2, <4>3
    <3>3. QED
      BY <3>1, <3>2
  <2>3. CASE i \in done
    <3>1. disk[i.place][i.slot] = None
      BY <1>9, <2>3 DEF Followed
    <3>2. CASE i.place = f /\ Found(item) = slot
      BY <1>3, <1>9, <3>1, <3>2
    <3>3. CASE ~(i.place = f /\ Found(item) = slot)
      <4>1. d[i.place] = disk[i.place]
        BY <1>4, <1>5, <2>1, <3>3
      <4>2. QED
        BY <3>1, <4>1
    <3>4. QED
      BY <3>2, <3>3
  <2>4. QED
    BY <1>9, <2>2, <2>3
<1>10. items \ (left.targets \cup left.libraries) \subseteq done \cup {item}
  OBVIOUS
<1> HIDE DEF done
<1>11. QED
  BY <1>2, <1>8, <1>9, <1>10 DEF Followed

LEMMA ToggleOneKeeps == ASSUME Inv, SwitchesOk, NEW t \in Threads, ToggleOne(t) PROVE SwitchesOk'
<1> DEFINE call == toggles[t]
           slot == From(call)
<1>1. /\ call # None /\ call.locked /\ SwitchOk(t) /\ DOMAIN toggles = Threads
      /\ UNCHANGED <<root, records>>
  BY DEF ToggleOne, SwitchesOk
<1>2. PICK item \in call.targets \cup call.libraries :
        LET left == [call EXCEPT !.targets = @ \ {item}, !.libraries = @ \ {item}]
            f == item.place
            possible == Found(item) # None /\ (Found(item) = slot => disk[f][Other(slot)] = None)
        IN \/ /\ possible
              /\ disk' = IF Found(item) = slot THEN Renamed(f, slot) ELSE disk
              /\ toggles' = [Disturb(Threads) EXCEPT ![t] = left]
           \/ toggles' = [toggles EXCEPT ![t] = None] /\ UNCHANGED disk
  BY DEF ToggleOne, From
<1> DEFINE left == [call EXCEPT !.targets = @ \ {item}, !.libraries = @ \ {item}]
<1>3. CASE toggles' = [toggles EXCEPT ![t] = None] /\ UNCHANGED disk
  <2>1. DOMAIN toggles' = Threads /\ toggles'[t] = None
        /\ \A u \in Threads \ {t} : toggles'[u] = toggles[u]
    BY <1>1, <1>3
  <2>2. ASSUME NEW u \in Threads PROVE SwitchOk(u)'
    <3>1. CASE u = t
      BY <2>1, <3>1 DEF SwitchOk
    <3>2. CASE u # t
      BY <1>1, <1>3, <2>1, <3>2, SwitchStays DEF SwitchesOk
    <3>3. QED
      BY <3>1, <3>2
  <2>3. QED
    BY <2>1, <2>2 DEF SwitchesOk
<1>4. CASE /\ Found(item) # None /\ (Found(item) = slot => disk[item.place][Other(slot)] = None)
           /\ disk' = IF Found(item) = slot THEN Renamed(item.place, slot) ELSE disk
           /\ toggles' = [Disturb(Threads) EXCEPT ![t] = left]
  <2>1. /\ Found(item) # None /\ (Found(item) = slot => disk[item.place][Other(slot)] = None)
        /\ disk' = IF Found(item) = slot THEN Renamed(item.place, slot) ELSE disk
    BY <1>4
  <2>2. DOMAIN toggles' = Threads /\ toggles'[t] = left
        /\ \A u \in Threads \ {t} : toggles'[u] = Disturb(Threads)[u]
    BY <1>4 DEF Disturb
  <2>3. /\ DOMAIN call = Fields /\ call.enabled \in BOOLEAN
        /\ DOMAIN left = Fields /\ left.enabled = call.enabled /\ left.before = call.before
        /\ left.owned = call.owned
        /\ left.targets \cup left.libraries = (call.targets \cup call.libraries) \ {item}
    BY <1>1 DEF SwitchOk, Fields
  <2> HIDE DEF left, call, slot
  <2>4. ASSUME call.before # None
        PROVE call.before \in Disk /\ disk' \in Disk /\ Tracked(left, disk', DOMAIN records)
    <3>1. call.before \in Disk /\ Tracked(call, disk, DOMAIN records)
      BY <1>1, <2>4 DEF SwitchOk, call
    <3>2. PICK items : /\ call.targets \cup call.libraries \subseteq items
                       /\ ItemsAre(call, items) /\ NoneIsNeeded(call, items, DOMAIN records)
                       /\ AllCome(call, items, DOMAIN records) /\ Followed(call, items, disk)
      BY <3>1 DEF Tracked
    <3>3. disk \in Disk
      BY DEF Inv
    <3>4. Followed(left, items, disk')
      <4>1. item \in items
        BY <3>2
      <4>2. PICK d : d = disk'
        OBVIOUS
      <4>3. PICK z : z = slot
        OBVIOUS
      <4>4. PICK f : f = item.place
        OBVIOUS
      <4>5. z = From(call)
        BY <4>3 DEF slot
      <4>6. Found(item) = z => disk[f][Other(z)] = None
        BY <2>1, <4>3, <4>4
      <4>7. d = IF Found(item) = z THEN Renamed(f, z) ELSE disk
        BY <2>1, <4>2, <4>3, <4>4
      <4>8. QED
        BY <2>1, <2>3, <3>2, <3>3, <4>1, <4>2, <4>4, <4>5, <4>6, <4>7, OneIsFollowed
    <3>5. ItemsAre(left, items)
      BY <2>3, <3>2 DEF ItemsAre, Straight
    <3>6. NoneIsNeeded(left, items, DOMAIN records) /\ AllCome(left, items, DOMAIN records)
      BY <2>3, <3>2 DEF NoneIsNeeded, AllCome
    <3>7. left.targets \cup left.libraries \subseteq items
      BY <2>3, <3>2
    <3>8. disk' \in Disk
      <4>1. slot \in Slot /\ Other(slot) \in Slot
        BY DEF slot, From, Slot, Other
      <4>2. item.place \in Place => Renamed(item.place, slot) \in Disk
        BY <3>3, <4>1 DEF Renamed, Disk
      <4>3. item.place \notin Place => Renamed(item.place, slot) = disk
        BY <3>3 DEF Renamed, Disk
      <4>4. QED
        BY <2>1, <3>3, <4>2, <4>3
    <3>9. QED
      BY <3>1, <3>4, <3>5, <3>6, <3>7, <3>8 DEF Tracked
  <2>5. SwitchOk(t)'
    <3>1. CASE call.before # None
      <4>1. PICK c, d, recorded : c = left /\ d = disk' /\ recorded = DOMAIN records
        OBVIOUS
      <4>2. Tracked(c, d, recorded)'
        BY <1>1, <2>4, <3>1, <4>1, TrackedStays
      <4>3. toggles'[t] = c /\ disk' = d /\ DOMAIN records' = recorded
        BY <1>1, <2>2, <4>1
      <4>4. c.before \in Disk /\ d \in Disk /\ DOMAIN c = Fields /\ c.enabled \in BOOLEAN
        BY <2>3, <2>4, <3>1, <4>1
      <4>5. QED
        BY <4>2, <4>3, <4>4 DEF SwitchOk
    <3>2. CASE call.before = None
      BY <2>2, <2>3, <3>2 DEF SwitchOk
    <3>3. QED
      BY <3>1, <3>2
  <2>6. ASSUME NEW u \in Threads \ {t} PROVE SwitchOk(u)'
    BY <2>2, SwitchIsDisturbed, DisturbedIs DEF SwitchesOk
  <2>7. QED
    BY <2>2, <2>5, <2>6 DEF SwitchesOk
<1>5. QED
  BY <1>2, <1>3, <1>4

\* Taking the lock and letting go of it change no file.
LEMMA ToggleEndsKeep ==
  ASSUME SwitchesOk, NEW t \in Threads, ToggleLock(t) \/ ToggleDone(t)
  PROVE SwitchesOk'
<1>1. /\ UNCHANGED <<disk, root, records>> /\ DOMAIN toggles = Threads /\ toggles[t] # None
      /\ toggles' \in {[toggles EXCEPT ![t].locked = TRUE], [toggles EXCEPT ![t] = None]}
  BY DEF ToggleLock, ToggleDone, SwitchesOk, mods
<1>2. /\ DOMAIN toggles' = Threads
      /\ toggles'[t] \in {None, [toggles[t] EXCEPT !.locked = TRUE]}
      /\ \A u \in Threads \ {t} : toggles'[u] = toggles[u]
  BY <1>1
<1>3. ASSUME NEW u \in Threads \ {t} PROVE SwitchOk(u)'
  BY <1>1, <1>2, SwitchStays DEF SwitchesOk
<1>4. SwitchOk(t)'
  <2>1. CASE toggles'[t] = None
    BY <2>1 DEF SwitchOk
  <2>2. CASE toggles'[t] = [toggles[t] EXCEPT !.locked = TRUE]
    <3>1. PICK call, c, d, recorded : /\ call = toggles[t] /\ c = toggles'[t]
                                      /\ d = disk /\ recorded = DOMAIN records
      OBVIOUS
    <3>2. /\ DOMAIN call = Fields /\ call.enabled \in BOOLEAN
          /\ call.before # None => call.before \in Disk /\ Tracked(call, d, recorded)
      BY <1>1, <3>1 DEF SwitchesOk, SwitchOk
    <3>3. /\ DOMAIN c = Fields /\ c.enabled = call.enabled /\ c.before = call.before
          /\ c.owned = call.owned /\ c.targets = call.targets /\ c.libraries = call.libraries
      BY <2>2, <3>1, <3>2 DEF Fields
    <3>4. Tracked(call, d, recorded) => Tracked(c, d, recorded)
      BY <3>3 DEF Tracked, ItemsAre, NoneIsNeeded, AllCome, Followed, Straight, From
    <3>5. call.before # None => Tracked(c, d, recorded)'
      BY <1>1, <3>2, <3>4, TrackedStays
    <3>6. toggles'[t] = c /\ disk' = d /\ DOMAIN records' = recorded
      BY <1>1, <3>1
    <3>7. QED
      BY <3>2, <3>3, <3>5, <3>6, <3>1 DEF SwitchOk
  <2>3. QED
    BY <1>2, <2>1, <2>2
<1>5. QED
  BY <1>2, <1>3, <1>4 DEF SwitchesOk

LEMMA SwitchesNext == ASSUME Inv, SwitchesOk, [Next]_vars PROVE SwitchesOk'
<1>1. CASE UNCHANGED vars
  <2>1. ASSUME NEW t \in Threads PROVE SwitchOk(t)'
    BY <1>1, <2>1, SwitchStays DEF SwitchesOk, vars, mods
  <2>2. QED
    BY <1>1, <2>1 DEF SwitchesOk, vars
<1>2. CASE AdoptStart \/ PrivateStart
  <2>1. UNCHANGED <<disk, root, records, toggles>>
    BY <1>2 DEF AdoptStart, PrivateStart, mods
  <2>2. ASSUME NEW t \in Threads PROVE SwitchOk(t)'
    BY <2>1, <2>2, SwitchStays DEF SwitchesOk
  <2>3. QED
    BY <2>1, <2>2 DEF SwitchesOk
<1>3. CASE \/ \E who \in Adopters : AdoptOne(who)
           \/ AdoptDetectedLoaders \/ ClaimDetectedLoader \/ Reconcile \/ Player
  <2>1. toggles' = Disturb(Threads)
    BY <1>3 DEF AdoptOne, AdoptDetectedLoaders, ClaimDetectedLoader, Reconcile, Player
  <2>2. QED
    BY <2>1, AllAreDisturbed
<1>4. CASE \E t \in Threads : ToggleStart(t) \/ ToggleLock(t) \/ ToggleOne(t) \/ ToggleDone(t)
  BY <1>4, ToggleStartKeeps, ToggleOneKeeps, ToggleEndsKeep
<1>5. QED
  BY <1>1, <1>2, <1>3, <1>4 DEF Next

\* A switch of a recorded mod that runs to its end undisturbed leaves what is enabled with
\* its libraries: those it enabled come along down the chain, and no file another enabled mod
\* needs is switched off (mod_toggle.py, catalog_controller.py: _with_required_libraries).
THEOREM SwitchesKeepLibraries == Spec => ToggleKeepsLibraries
<1> DEFINE Kept == \A t \in Threads :
       LET call == toggles[t]
           all == DOMAIN records
       IN call # None /\ toggles'[t] = None /\ call.locked /\ call.targets \cup call.libraries = {}
          /\ call.before # None /\ call.owned => LibrariesKept(call, all)
<1>1. ASSUME Inv, SwitchesOk PROVE Kept
  <2> SUFFICES ASSUME NEW t \in Threads, toggles[t] # None,
                      toggles[t].targets \cup toggles[t].libraries = {},
                      toggles[t].before # None, toggles[t].owned
               PROVE LibrariesKept(toggles[t], DOMAIN records)
    OBVIOUS
  <2>1. PICK call, all : call = toggles[t] /\ all = DOMAIN records
    OBVIOUS
  <2>2. /\ call.enabled \in BOOLEAN /\ call.before \in Disk /\ Tracked(call, disk, all)
        /\ call.targets \cup call.libraries = {} /\ call.owned
    BY <1>1, <2>1 DEF SwitchesOk, SwitchOk
  <2>3. LibrariesKept(call, all)
    BY <1>1, <2>2, EndsWithLibraries DEF Inv
  <2>4. QED
    BY <2>1, <2>3
<1>2. Init => SwitchesOk
  BY DEF Init, SwitchesOk, SwitchOk
<1>3. Spec => []SwitchesOk
  BY <1>2, SwitchesNext, InvAlways, PTL DEF Spec
<1>4. Spec => [][Kept]_vars
  BY <1>1, <1>3, InvAlways, PTL DEF Spec
<1>5. QED
  BY <1>4, PTL DEF ToggleKeepsLibraries, LibrariesKept
=============================================================================
