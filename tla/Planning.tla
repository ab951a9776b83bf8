------------------------------ MODULE Planning ------------------------------
(* From a published index and a machine to an install plan: the checks made  *)
(* on an index (domain/registry.py), the version the client picks            *)
(* (presentation/controllers/installation_controller.py), the search for a   *)
(* set of releases (application/solver.py) and the table of directories the  *)
(* plan is prepared with (application/preparer.py).                          *)
(*                                                                           *)
(* The solver's recursive search is a stack of frames, one per package given *)
(* a release, and its recursive visit of the dependencies a second stack; a  *)
(* step of the model is one pass of the loop in either.                      *)
EXTENDS Compatibility

CONSTANTS Indexes,   \* the indexes a registry may publish
          Machines   \* what a machine may have: records, detected, game, state

IsList(list) == list \in Seq(Range(list))
\* Releases the index lists are published newest first (gen-index.py, sort_releases_desc).
NewestAreFirst(list) ==
  \A i, j \in DOMAIN list : i < j => ~Less(list[i].version, list[j].version)
ASSUME IndexAssumption ==
  \A x \in Indexes :
    /\ IsList(x.packages) /\ IsList(x.private)
    /\ \A p \in Range(x.packages) \cup Range(x.private) :
         /\ p.id # Nothing /\ IsList(p.releases) /\ IsList(p.dependencies) /\ IsList(p.types)
         /\ \A r \in Range(p.releases) :
              r.version \in Version /\ IsList(r.needs) /\ \A n \in Range(r.needs) : IsRange(n.range)
         /\ \A d \in Range(p.dependencies) : IsRange(d.range)
         /\ p.listed => NewestAreFirst(p.releases)
    /\ \A i \in DOMAIN x.table : IsRange(x.table[i].version)

\* Releases that name a capability once: of two ranges a row would show the last.
NamedOnce ==
  \A x \in Indexes : \A p \in Range(x.packages) \cup Range(x.private) : \A r \in Range(p.releases) :
    \A i, j \in DOMAIN r.needs : r.needs[i].id = r.needs[j].id => i = j

VARIABLES index, machine, env,
          root, range, pinned,   \* the question: a package, a range, named by the user
          private,               \* is it about a developer server's package
          step,                  \* where the client is
          frames,                \* the search, the newest frame last
          path, ordered,         \* the visit: packages being visited, and visited
          outcome
question == <<root, range, pinned, private>>
vars == <<index, machine, env, question, step, frames, path, ordered, outcome>>

(* ---------------------------- lists and tables ------------------------ *)
\* The members of a list that are wanted, in their order; a table with one more entry.
Kept(list, wanted) ==
  LET kept[n \in 0 .. Len(list)] ==
        IF n = 0 THEN <<>>
        ELSE IF list[n] \in wanted THEN Append(kept[n - 1], list[n]) ELSE kept[n - 1]
  IN kept[Len(list)]
With(f, x, v) == [y \in DOMAIN f \cup {x} |-> IF y = x THEN v ELSE f[y]]

\* Newest first, releases of one version in the order they came.
Inserted(list, r) ==
  LET older == {i \in DOMAIN list : Less(list[i].version, r.version)}
  IN InsertAt(list, IF older = {} THEN Len(list) + 1 ELSE Min(older), r)
NewestFirst(list) ==
  LET sorted[n \in 0 .. Len(list)] == IF n = 0 THEN <<>> ELSE Inserted(sorted[n - 1], list[n])
  IN sorted[Len(list)]

(* ------------------------------ the index ----------------------------- *)
\* A private package is searched for among the public ones, in a registry made
\* for it: without the table, and without an environment.
Packages == IF private THEN index.packages \o index.private ELSE index.packages
Table == IF private THEN <<>> ELSE index.table
Ids == {p.id : p \in Range(Packages)}
Get(id) == CHOOSE p \in Range(Packages) : p.id = id
Kind(namespace, category) == [ns |-> namespace, cat |-> category]

\* Does a loader supply this install type; "<namespace>:*" is any of its types.
Supplies(p, type) ==
  \E supplied \in p.supply :
    supplied = type \/ (type.cat = "*" /\ supplied.ns = type.ns)

(* ---------------------------- the registry --------------------------- *)
KnowsCapability(ps, id) ==
  \/ id = index.gameId
  \/ \E p \in Range(ps) :
       IF DOMAIN p.provides # {} THEN id \in DOMAIN p.provides ELSE p.loader /\ p.id = id

\* Registry(): no id twice, no type that nobody supplies, sources that can be.
ValidPackages(ps) ==
  /\ \A i, j \in DOMAIN ps : ps[i].id = ps[j].id => i = j
  /\ \A p \in Range(ps) :
       /\ p.modloader => p.supply # {}
       /\ p.external => p.modloader /\ p.releases # <<>>
       /\ \A i \in DOMAIN p.types : \E q \in Range(ps) : Supplies(q, p.types[i])
\* Registry.from_dict(): and no dependency on what nobody has heard of.
ValidIndex ==
  /\ ValidPackages(index.packages)
  /\ \A p \in Range(index.packages) : \A i \in DOMAIN p.dependencies :
       LET id == p.dependencies[i].id
       IN (\E q \in Range(index.packages) : q.id = id) \/ KnowsCapability(index.packages, id)

ProvidersForType(type) == Kept(Packages, {p \in Range(Packages) : Supplies(p, type)})

Loaders == Kept(Packages, {p \in Range(Packages) : p.loader})

\* As the index lists them, or what GitHub published, newest first: no draft and,
\* unless the package asks for them, nothing marked or numbered as a prerelease.
Releases(p) ==
  IF p.listed THEN p.releases
  ELSE NewestFirst(Kept(p.releases,
         {r \in Range(p.releases) : ~r.draft /\ (p.suffixed \/ ~(r.prerelease \/ Pre(r.version)))}))
\* Without an asset to install it is no release.
Installable(p) == Kept(Releases(p), {r \in Range(Releases(p)) : r.assets})
Latest(p) == IF Installable(p) = <<>> THEN Nothing ELSE Installable(p)[1].version

(* --------------------- the page's word on releases -------------------- *)
VerdictShown(p, r) ==
  LET decision == IF p.loader THEN LoaderTableDecision(env, p.id, r.version) ELSE Nothing
  IN IF decision # Nothing THEN decision ELSE ReleaseVerdict(env, p.category, r.needs)

\* The newest compatible release, else the newest one.
PreferredVersion(p) ==
  LET fit == Kept(Installable(p), {r \in Range(Installable(p)) :
               ReleaseVerdict(env, p.category, r.needs) = "compatible"})
  IN IF fit # <<>> THEN fit[1].version ELSE Latest(p)
VersionRange(p, named) ==
  LET version == IF named # Nothing THEN named ELSE PreferredVersion(p)
  IN IF version = Nothing THEN AnyRange ELSE {{Token("=", version)}}

(* ------------------------------ the solver ---------------------------- *)
EnvBlocks(p, r) ==
  /\ ~private /\ ~(pinned /\ p.id = root)
  /\ Incompatible(env, p.category, r.needs)

Candidates(p, ranges) ==
  Kept(Installable(p), {r \in Range(Installable(p)) :
    ~EnvBlocks(p, r) /\ \A wanted \in ranges : Satisfies(r.version, wanted)})

\* The loader package / game table among several suppliers of one type.
CoveringRows(p) ==
  {i \in DOMAIN Table : /\ Table[i].loader = p.id
                        /\ RangeAllows(env.game, Table[i].sprocket)}
RowsVersionRange(p) ==
  LET ranges == {Table[i].version : i \in CoveringRows(p)}
  IN IF AnyRange \in ranges THEN AnyRange ELSE UNION ranges

Supplier(p, wanted) == [error |-> "none", id |-> p.id, range |-> wanted]
NoSupplier(error) == [error |-> error, id |-> Nothing, range |-> AnyRange]

LoaderForType(p, type, declared) ==
  LET all == ProvidersForType(type)
      named == Kept(all, {q \in Range(all) : q.id \in declared})
      covering == Kept(all, {q \in Range(all) : CoveringRows(q) # {}})
      present == Kept(all, {q \in Range(all) : q.id \in DOMAIN machine.records})
      asked == Known(env, env.gameId) /\ Table # <<>>
  IN CASE all = <<>> \/ p \in Range(all) -> NoSupplier("none")
       [] Len(all) = 1 /\ p \notin Range(all) -> Supplier(all[1], AnyRange)
       [] Len(all) > 1 /\ p \notin Range(all) /\ named # <<>> -> Supplier(named[1], AnyRange)
       [] OTHER ->
          IF asked /\ covering = <<>> THEN NoSupplier("no provider for this game")
          ELSE IF asked /\ Len(covering) = 1
          THEN Supplier(covering[1], RowsVersionRange(covering[1]))
          ELSE IF Len(present) = 1 THEN Supplier(present[1], AnyRange)
          ELSE NoSupplier(IF present = <<>> THEN "no provider installed"
                          ELSE "several providers installed")

\* The declared dependencies that are in force for this release and are
\* packages (or nothing known), then one loader per type that has none yet.
Declared(p, r) ==
  Kept(p.dependencies, {d \in Range(p.dependencies) :
    Satisfies(r.version, d.when) /\ (d.id \in Ids \/ ~KnowsCapability(Packages, d.id))})
DependenciesDeclared(p, r) ==    \* faulty variant: no loader for a type
  [deps |-> Declared(p, r), error |-> "none"]
\* One loader more, unless it is needed already.
AddSupplier(found, ids, supplier) ==
  IF found.error # "none" THEN found
  ELSE IF supplier.error # "none" THEN [found EXCEPT !.error = supplier.error]
  ELSE IF supplier.id \in ids \cup {Nothing} THEN found
  ELSE [found EXCEPT !.deps =
         Append(@, [id |-> supplier.id, range |-> supplier.range, when |-> AnyRange])]
WithLoader(p, found, type) ==
  LET ids == {d.id : d \in Range(found.deps)}
  IN AddSupplier(found, ids, LoaderForType(p, type, ids))
DependenciesFor(p, r) ==
  LET found[n \in 0 .. Len(p.types)] ==
        IF n = 0 THEN [deps |-> Declared(p, r), error |-> "none"]
        ELSE WithLoader(p, found[n - 1], p.types[n])
  IN found[Len(p.types)]

\* assigned: package -> release; wants: package -> ranges; order: the packages
\* as they came up; needs: package -> its dependencies' ids; pick: the package
\* this frame gives a release, rest: the releases it has still to try.
Nobody == "nobody"
Top == frames[Len(frames)]
Below == SubSeq(frames, 1, Len(frames) - 1)
Unresolved(f) == Kept(f.order, Range(f.order) \ DOMAIN f.assigned)

\* Constraints grow with every dependency; an assigned one must fit it.
Constrain(f, deps) ==
  LET wanted(id) == {d.range : d \in {e \in Range(deps) : e.id = id}}
      first == {i \in DOMAIN deps : /\ deps[i].id \notin DOMAIN f.wants
                                    /\ \A j \in 1 .. (i - 1) : deps[j].id # deps[i].id}
      new == Kept([i \in DOMAIN deps |-> i], first)
  IN [f EXCEPT
        !.wants = [id \in DOMAIN @ \cup {d.id : d \in Range(deps)} |->
                     wanted(id) \cup (IF id \in DOMAIN @ THEN @[id] ELSE {})],
        !.order = @ \o [k \in DOMAIN new |-> deps[new[k]].id]]
FitsNewNever(f, deps) == TRUE    \* faulty variant: what is assigned is not looked at
FitsNew(f, deps) ==
  \A d \in Range(deps) :
    d.id \in DOMAIN f.assigned => Satisfies(f.assigned[d.id].version, d.range)

Assign(f, id, r, deps) ==
  [f EXCEPT !.assigned = With(@, id, r),
            !.needs = With(@, id, [i \in DOMAIN deps |-> deps[i].id]),
            !.pick = Nobody, !.rest = <<>>]

(* ------------------------------- actions ------------------------------ *)
Init ==
  /\ index \in Indexes /\ machine \in Machines
  /\ env = Nothing /\ root = Nobody /\ range = AnyRange /\ pinned = FALSE /\ private = FALSE
  /\ step = "closed" /\ frames = <<>> /\ path = <<>> /\ ordered = <<>>
  /\ outcome = "none"

Finish(how) == step' = "done" /\ outcome' = how

\* Registry.from_dict refuses an index with a loose end.
Refuse ==
  /\ step = "closed" /\ ~ValidIndex
  /\ Finish("index refused")
  /\ UNCHANGED <<index, machine, env, question, frames, path, ordered>>

Open ==
  /\ step = "closed" /\ ValidIndex
  /\ env' = EnvironmentOf(Loaders, machine.records, machine.detected,
              [id \in {p.id : p \in Range(Loaders)} |->
                 IF Get(id).modloader THEN Latest(Get(id)) ELSE Nothing],
              index.gameId, machine.game, machine.state, index.table)
  /\ step' = "catalog"
  /\ UNCHANGED <<index, machine, question, frames, path, ordered, outcome>>

\* The search begins with the question just asked.
Start ==
  /\ frames' = << [assigned |-> <<>>, wants |-> [id \in {root'} |-> {range'}], order |-> <<root'>>,
                   needs |-> <<>>, pick |-> Nobody, rest |-> <<>>] >>
  /\ step' = "search"

\* The page: a version the user named, or the one the client prefers.
Ask(p, named) ==
  /\ step = "catalog"
  /\ root' = p.id /\ range' = VersionRange(p, named) /\ pinned' = TRUE
  /\ private' = FALSE
  /\ Start
  /\ UNCHANGED <<index, machine, env, path, ordered, outcome>>

\* The command line: any range, and the environment has its say.
Command(p, wanted) ==
  /\ step = "catalog"
  /\ root' = p.id /\ range' = wanted /\ pinned' = FALSE /\ private' = FALSE
  /\ Start
  /\ UNCHANGED <<index, machine, env, path, ordered, outcome>>

\* A developer server's package, whatever its newest version is.
AskPrivate(p) ==
  /\ step = "catalog"
  /\ root' = p.id /\ range' = AnyRange /\ pinned' = FALSE /\ private' = TRUE
  /\ IF ValidPackages(index.packages \o index.private)
     THEN Start /\ UNCHANGED outcome
     ELSE Finish("index refused") /\ UNCHANGED frames
  /\ UNCHANGED <<index, machine, env, path, ordered>>

\* search() on a frame that has not picked a package yet.
Unregistered(f) == {id \in Range(Unresolved(f)) : id \notin Ids}
CandidatesOf(f, id) == Candidates(Get(id), f.wants[id])

Unknown ==
  /\ step = "search" /\ Top.pick = Nobody /\ Unregistered(Top) # {}
  /\ Finish("not registered")
  /\ UNCHANGED <<index, machine, env, question, frames, path, ordered>>

Found ==
  /\ step = "search" /\ Top.pick = Nobody /\ Unresolved(Top) = <<>>
  /\ step' = "order" /\ path' = << [id |-> root, rest |-> Top.needs[root]] >>
  /\ UNCHANGED <<index, machine, env, question, frames, ordered, outcome>>

Blocked(f) == \E id \in Range(Unresolved(f)) : CandidatesOf(f, id) = <<>>
Back == IF Below = <<>> THEN Finish("none fits") ELSE UNCHANGED <<step, outcome>>

DeadEndGivesUp ==    \* faulty variant: the releases not tried yet are forgotten
  /\ step = "search" /\ Top.pick = Nobody
  /\ Unresolved(Top) # <<>> /\ Unregistered(Top) = {} /\ Blocked(Top)
  /\ frames' = Below /\ Finish("none fits")
  /\ UNCHANGED <<index, machine, env, question, path, ordered>>
DeadEnd ==
  /\ step = "search" /\ Top.pick = Nobody
  /\ Unresolved(Top) # <<>> /\ Unregistered(Top) = {} /\ Blocked(Top)
  /\ frames' = Below /\ Back
  /\ UNCHANGED <<index, machine, env, question, path, ordered>>

\* The package with the fewest candidates, the first that came up of those.
Fewest(open, count) ==
  LET sizes == [i \in DOMAIN open |-> count[open[i]]]
      least == Min(Range(sizes))
  IN open[Min({i \in DOMAIN open : sizes[i] = least})]
Pick ==
  /\ step = "search" /\ Top.pick = Nobody
  /\ Unresolved(Top) # <<>> /\ Unregistered(Top) = {} /\ ~Blocked(Top)
  /\ LET id == Fewest(Unresolved(Top), [i \in Range(Unresolved(Top)) |-> Len(CandidatesOf(Top, i))])
     IN frames' = [frames EXCEPT ![Len(frames)].pick = id, ![Len(frames)].rest = CandidatesOf(Top, id)]
  /\ UNCHANGED <<index, machine, env, question, step, path, ordered, outcome>>

\* The next release of the picked package: out of the question, or one deeper.
Try ==
  /\ step = "search" /\ Top.pick # Nobody /\ Top.rest # <<>>
  /\ LET r == Head(Top.rest)
         found == DependenciesFor(Get(Top.pick), r)
         next == Assign(Top, Top.pick, r, found.deps)
         dropped == [frames EXCEPT ![Len(frames)].rest = Tail(@)]
     IN IF found.error # "none"
        THEN Finish(found.error) /\ UNCHANGED frames
        ELSE /\ UNCHANGED <<step, outcome>>
             /\ frames' = IF FitsNew(next, found.deps)
                          THEN Append(dropped, Constrain(next, found.deps)) ELSE dropped
  /\ UNCHANGED <<index, machine, env, question, path, ordered>>

Exhausted ==
  /\ step = "search" /\ Top.pick # Nobody /\ Top.rest = <<>>
  /\ frames' = Below /\ Back
  /\ UNCHANGED <<index, machine, env, question, path, ordered>>

\* visit(): dependencies first; a package met while it is being visited is a
\* cycle, one already ordered is passed by.
Here == path[Len(path)]
Visit ==
  /\ step = "order" /\ Here.rest # <<>>
  /\ LET id == Head(Here.rest)
         rest == [path EXCEPT ![Len(path)].rest = Tail(@)]
     IN IF id \in Range(ordered) THEN path' = rest /\ UNCHANGED <<step, outcome>>
        ELSE IF \E i \in DOMAIN path : path[i].id = id
        THEN Finish("cycle") /\ UNCHANGED path
        ELSE path' = Append(rest, [id |-> id, rest |-> Top.needs[id]])
             /\ UNCHANGED <<step, outcome>>
  /\ UNCHANGED <<index, machine, env, question, frames, ordered>>

Leave ==
  /\ step = "order" /\ Here.rest = <<>>
  /\ ordered' = Append(ordered, Here.id) /\ path' = SubSeq(path, 1, Len(path) - 1)
  /\ step' = IF path' = <<>> THEN "prepare" ELSE "order"
  /\ UNCHANGED <<index, machine, env, question, frames, outcome>>

\* PlanPreparer.install_directories: one supplier of a type in a plan.
Clash ==
  \E a, b \in Range(ordered) : a # b /\ Get(a).supply \cap Get(b).supply # {}
Prepare ==
  /\ step = "prepare"
  /\ Finish(IF Clash THEN "two suppliers" ELSE "plan")
  /\ UNCHANGED <<index, machine, env, question, frames, path, ordered>>

\* Another question of the same page.
Again ==
  /\ step = "done" /\ env # Nothing
  /\ step' = "catalog" /\ outcome' = "none"
  /\ frames' = <<>> /\ path' = <<>> /\ ordered' = <<>>
  /\ root' = Nobody /\ range' = AnyRange /\ pinned' = FALSE /\ private' = FALSE
  /\ UNCHANGED <<index, machine, env>>

Next ==
  \/ Refuse \/ Open
  \/ \E p \in Range(index.packages) :
       \/ \E named \in {Nothing} \cup {r.version : r \in Range(Releases(p))} : Ask(p, named)
       \/ \E wanted \in index.asked : Command(p, wanted)
  \/ \E p \in Range(index.private) : AskPrivate(p)
  \/ Unknown \/ Found \/ DeadEnd \/ Pick \/ Try \/ Exhausted \/ Visit \/ Leave \/ Prepare
  \/ Again

Spec == Init /\ [][Next]_vars

(* ----------------------------- properties ----------------------------- *)
\* The releases that may be in a plan, with what each depends on.
OffersOf(p, r) ==
  {[id |-> p.id, version |-> r.version, deps |-> Range(found.deps)] :
     found \in {f \in {DependenciesFor(p, r)} :
                 r.assets /\ ~EnvBlocks(p, r) /\ f.error = "none"}}
Offers == UNION {UNION {OffersOf(p, r) : r \in Range(Releases(p))} : p \in Range(Packages)}

\* A set of them answers the question: one release of a package at most, what
\* each depends on is there, and so is the package asked for.
Solves(chosen) ==
  /\ \E o \in chosen : o.id = root /\ Satisfies(o.version, range)
  /\ \A a, b \in chosen : a.id = b.id => a = b
  /\ \A o \in chosen : \A d \in o.deps :
       \E other \in chosen : other.id = d.id /\ Satisfies(other.version, d.range)

\* What the search answers is a set of releases in which every constraint holds
\* and nothing is missing or superfluous, ordered with every dependency before
\* its dependents (solver.py:295-386).
PlanIsSound ==
  [][outcome' = "plan" =>
    /\ Range(ordered) = DOMAIN Top.assigned /\ IsInjective(ordered)
    /\ Satisfies(Top.assigned[root].version, range)
    /\ \A i \in DOMAIN ordered :
         LET p == Get(ordered[i])  r == Top.assigned[p.id] IN
         /\ r.assets /\ ~EnvBlocks(p, r)
         /\ \A d \in Range(DependenciesFor(p, r).deps) :
              \E j \in 1 .. (i - 1) :
                ordered[j] = d.id /\ Satisfies(Top.assigned[d.id].version, d.range)]_vars

\* "no compatible release set found" is said only when there is none: no pick of
\* the package with the fewest candidates, and no release dropped early, hides
\* one; and no newer release of the package asked for would have done
\* (solver.py:295-363).
SearchIsComplete ==
  [][outcome' \in {"none fits", "plan", "cycle", "two suppliers"} =>
       \A chosen \in SUBSET Offers : Solves(chosen) =>
         /\ outcome' # "none fits"
         /\ \A o \in chosen : o.id = root => ~Less(Top.assigned[root].version, o.version)]_vars

\* A plan that is prepared has exactly one package that says where each of its
\* declared install types goes (preparer.py:52-71, solver.py:220-248).
EveryTypeHasItsDirectory ==
  [][outcome' = "plan" =>
    \A id \in Range(ordered) : \A type \in Range(Get(id).types) :
      LET suppliers == {q \in Range(ordered) : Supplies(Get(q), type)}
      IN suppliers # {} /\ (type.cat # "*" => Cardinality(suppliers) = 1)]_vars

\* A loader that the table chose for this game is one that the page, reading
\* the same table for that loader's card, shows as compatible
\* (solver.py:138-174, compatibility.py:171-201).
TableChoiceIsCompatible ==
  ~private /\ Known(env, env.gameId) /\ Table # <<>> =>
    \A id, loader \in Range(ordered) :
      LET p == Get(id)
          declared == {d.id : d \in Range(Declared(p, Top.assigned[id]))}
          chosenFor(type) ==
            LET all == ProvidersForType(type)
            IN /\ Get(loader) \in Range(all) /\ CoveringRows(Get(loader)) # {}
               /\ p \notin Range(all) /\ Len(all) > 1
               /\ declared \cap {s.id : s \in Range(all)} = {}
               /\ Cardinality({s \in Range(all) : CoveringRows(s) # {}}) = 1
      IN (\E type \in Range(p.types) : chosenFor(type))
         => VerdictShown(Get(loader), Top.assigned[loader]) = "compatible"

\* A loader that the environment reports as not following this game is red on
\* its own card too, and the other way round (compatibility.py:171-201, 279-329).
BlamedLoaderIsRed ==
  env.state = "ok" =>
    \A loader \in env.installed :
      LoaderRow(env, loader) # Nothing =>
        (loader \in Conflicting(env)
           <=> LoaderTableDecision(env, loader, env.loaders[loader]) = "incompatible")

\* The colour of a release and the rows under it: red has a failed row or an
\* unusable game, green a satisfied row and no failed one
\* (compatibility.py:255-277, 331-361).
VerdictMatchesAxes ==
  \A p \in Range(Packages) : \A r \in Range(Releases(p)) :
    LET verdict == ReleaseVerdict(env, p.category, r.needs)
        rows == Range(Axes(env, r.needs))
    IN /\ verdict = "incompatible" => "failed" \in rows \/ env.state \in Unusable
       /\ verdict = "compatible" => "failed" \notin rows /\ "satisfied" \in rows

\* The page, the environment's warning, the rows of a release and the solver
\* answer the one question, what runs here, each by its own code: they agree.
AnswersAgree ==
  [][/\ env' # env => BlamedLoaderIsRed' /\ VerdictMatchesAxes'
     /\ outcome' = "plan" => TableChoiceIsCompatible]_vars

AllVersions ==
  UNION {{r.version : r \in Range(p.releases)} : p \in Range(index.packages)}
AllRanges ==
  {index.table[i].version : i \in DOMAIN index.table} \cup
  UNION {{d.range : d \in Range(p.dependencies)} \cup
         UNION {{n.range : n \in Range(r.needs)} : r \in Range(p.releases)} :
           p \in Range(index.packages)}

\* The two readers of a canonical range, the solver's and the verdict's, never
\* disagree, builds with a suffix included, and the order they read by is a strict
\* total order of the versions an index publishes (semver.py:76-188,
\* compatibility.py:50-116).
ReadingsAgree ==
  [][env' # env =>
    /\ \A v \in AllVersions, r \in {g \in AllRanges : Canonical(g)} :
         Satisfies(v, r) <=> RangeAllows(v, r)
    /\ \A u, v, w \in AllVersions :
         /\ ~Less(u, u) /\ (u # v => (Less(u, v) <=> ~Less(v, u)))
         /\ Less(u, v) /\ Less(v, w) => Less(u, w)]_vars
=============================================================================
