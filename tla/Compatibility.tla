--------------------------- MODULE Compatibility ---------------------------
(* Which release can run on this machine: domain/compatibility.py, and the   *)
(* environment that presentation/web_gui.py builds for it out of the install *)
(* records and the runtimes found on disk.                                   *)
(*                                                                           *)
(* An environment is a record: game (the game's version) and state ("ok" when *)
(* that version can be read), gameId, caps (capability -> version), loaders  *)
(* (loader package -> version in use), installed (the loaders present) and   *)
(* table (the index's rows: loader, version, sprocket).  A release declares  *)
(* needs, a sequence of [id, range].                                         *)
EXTENDS Versions, FiniteSetsExt, SequencesExt

CONSTANTS Nothing,  \* None: no version, no row, no decision
          Self      \* VERSION_TEMPLATE: a capability at its provider's version

Unusable == {"legacy", "unreadable"}

Known(env, capability) ==
  IF capability = env.gameId THEN env.state = "ok" ELSE capability \in DOMAIN env.caps
CapabilityVersion(env, capability) ==
  IF capability = env.gameId THEN env.game ELSE env.caps[capability]

\* The row a loader's version in use falls under: the largest lower bound, a
\* row without one last; the later of two rows with the same bound.
RowsOf(env, loader) ==
  {i \in DOMAIN env.table :
     /\ loader \in DOMAIN env.loaders /\ env.table[i].loader = loader
     /\ Satisfies(env.loaders[loader], env.table[i].version)}
RowBefore(a, b, i, j) ==
  IF HasLowerBound(a.version) /\ HasLowerBound(b.version)
  THEN \/ MainLess(LowerBound(a.version), LowerBound(b.version))
       \/ LowerBound(a.version) = LowerBound(b.version) /\ i < j
  ELSE \/ ~HasLowerBound(a.version) /\ HasLowerBound(b.version)
       \/ ~HasLowerBound(a.version) /\ ~HasLowerBound(b.version) /\ i < j
LoaderRowFirst(env, loader) ==    \* faulty variant: the first row that fits
  IF RowsOf(env, loader) = {} THEN Nothing ELSE env.table[Min(RowsOf(env, loader))]
LoaderRow(env, loader) ==
  LET rows == RowsOf(env, loader)
  IN IF rows = {} THEN Nothing
     ELSE env.table[CHOOSE i \in rows :
            \A j \in rows \ {i} : RowBefore(env.table[j], env.table[i], j, i)]

\* The loaders present whose row leaves this game out.
Conflicting(env) ==
  {loader \in env.installed :
     /\ LoaderRow(env, loader) # Nothing
     /\ ~RangeAllows(env.game, LoaderRow(env, loader).sprocket)}
Consistency(env) ==
  IF env.state # "ok" THEN "unknown"
  ELSE IF env.installed # {} THEN IF Conflicting(env) # {} THEN "conflict" ELSE "ok"
  ELSE IF env.table = <<>> THEN "unknown"
  ELSE IF \E i \in DOMAIN env.table : RangeAllows(env.game, env.table[i].sprocket)
  THEN "ok" ELSE "conflict"

\* The needs some part of this machine answers to, and those it fails.
Judged(env, needs) == {need \in Range(needs) : Known(env, need.id)}
Failed(env, needs) ==
  {need \in Judged(env, needs) : ~RangeAllows(CapabilityVersion(env, need.id), need.range)}

Incompatible(env, category, needs) ==
  category # "translation" /\ (env.state \in Unusable \/ Failed(env, needs) # {})
ReleaseVerdict(env, category, needs) ==
  IF category = "translation" THEN "not applicable"
  ELSE IF Incompatible(env, category, needs) THEN "incompatible"
  ELSE IF Judged(env, needs) = {} \/ Consistency(env) = "conflict" THEN "unknown"
  ELSE "compatible"

\* What the index's table says of one release of a loader: the first row of
\* the loader that covers the game decides.
LoaderTableDecision(env, loader, version) ==
  LET own == {i \in DOMAIN env.table : env.table[i].loader = loader}
      covering == {i \in own : RangeAllows(env.game, env.table[i].sprocket)}
  IN IF ~Known(env, env.gameId) \/ own = {} THEN Nothing
     ELSE IF covering # {} /\ Satisfies(version, env.table[Min(covering)].version)
     THEN "compatible" ELSE "incompatible"

\* The rows the page shows under a release: what it declares, what is here.
\* A release that names a capability twice shows the last range only.
Axes(env, needs) ==
  LET ids == {env.gameId} \cup DOMAIN env.caps \cup {need.id : need \in Range(needs)}
      named(id) == {i \in DOMAIN needs : needs[i].id = id}
  IN [id \in ids |->
       IF named(id) = {} \/ ~Known(env, id) THEN "not judged"
       ELSE IF RangeAllows(CapabilityVersion(env, id), needs[Max(named(id))].range)
       THEN "satisfied" ELSE "failed"]

(* ------------------------- the environment --------------------------- *)
\* A package: id, loader (is it one), modloader, external (where its releases
\* come from), category, releases (version, needs, assets, draft, prerelease),
\* listed (by the index), suffixed (does it want prereleases), dependencies (id,
\* range, when), types and supply (install types), provides (capability -> version
\* or Self).
Capabilities(package) ==
  IF DOMAIN package.provides = {} THEN package.id :> Self ELSE package.provides

\* Present and at which version: the record, or a runtime found on disk that
\* no recorded package provides.
RuntimeStates(loaders, records, detected) ==
  LET covered == UNION {DOMAIN Capabilities(p) : p \in {q \in loaders : q.id \in DOMAIN records}}
      found(p) == p.id \in DOMAIN detected
      version(p) ==
        IF p.id \in DOMAIN records /\ records[p.id] # Nothing THEN records[p.id]
        ELSE IF found(p) THEN detected[p.id] ELSE Nothing
      present(p) == p.id \in DOMAIN records \/ (found(p) /\ p.id \notin covered)
  IN [id \in {p.id : p \in loaders} |->
       LET p == CHOOSE q \in loaders : q.id = id
       IN [installed |-> present(p), version |-> IF present(p) THEN version(p) ELSE Nothing]]

Provided(package, version, capability) ==
  LET spec == Capabilities(package)[capability] IN IF spec = Self THEN version ELSE spec

\* packages: the loaders in the order of their ids; latest: the newest
\* release known of each, used for a loader that is not here.
Providers(packages, states, capability, version) ==
  {i \in DOMAIN packages : /\ capability \in DOMAIN Capabilities(packages[i])
                           /\ version[packages[i].id] # Nothing}
EnvironmentOf(packages, records, detected, latest, gameId, game, state, table) ==
  LET states == RuntimeStates(Range(packages), records, detected)
      version == [id \in DOMAIN states |->
                    IF states[id].version # Nothing THEN states[id].version ELSE latest[id]]
      sources(c) == Providers(packages, states, c, version)
      here(c) == {i \in sources(c) : states[packages[i].id].installed}
      from(c) == packages[IF here(c) # {} THEN Max(here(c)) ELSE Max(sources(c))]
      offered == {c \in UNION {DOMAIN Capabilities(p) : p \in Range(packages)} : sources(c) # {}}
  IN [gameId |-> gameId, game |-> game, state |-> state, table |-> table,
      caps |-> [c \in offered \cup DOMAIN detected |->
                  IF c \in offered /\ (here(c) # {} \/ c \notin DOMAIN detected)
                  THEN Provided(from(c), version[from(c).id], c) ELSE detected[c]],
      loaders |-> [id \in {i \in DOMAIN version : version[i] # Nothing} |-> version[id]],
      installed |-> {id \in DOMAIN states : states[id].installed}]
=============================================================================
