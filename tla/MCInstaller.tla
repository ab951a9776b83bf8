------------------------------ MODULE MCInstaller ------------------------------
(***************************************************************************)
(* Small indexes for the installer, each with three packages, three files  *)
(* and the hazard it is made for.                                          *)
(***************************************************************************)
EXTENDS Installer, TLC

CONSTANTS p1, p2, p3, f1, f2, f3, Indexes

Files(a, b, c) == f1 :> a @@ f2 :> b @@ f3 :> c
Of(a, b, c) == p1 :> a @@ p2 :> b @@ p3 :> c
Nobody == Of({}, {}, {})

\* a mod that needs a library, and a patch over the mod
PatchIndex ==
  [kind |-> Of("mod", "mod", "patch"),
   deps |-> Of({p2}, {}, {p1}), declared |-> Of({p2}, {}, {p1}), conflicts |-> Nobody,
   payload |-> Of(<<Files("a", None, None), Files("b", None, None)>>,
                  <<Files(None, "a", None), Files(None, "b", "a")>>,
                  <<Files("c", None, None)>>),
   own |-> Nobody, supply |-> Nobody, area |-> {}, ops |-> 3]

\* two base runtimes that cannot live together; the mod may have been copied in by hand
LoaderIndex ==
  [kind |-> Of("loader", "mod", "loader"),
   deps |-> Of({}, {p1}, {}), declared |-> Nobody, conflicts |-> Of({p3}, {}, {p1}),
   payload |-> Of(<<Files("a", None, None), Files("b", None, None)>>,
                  <<Files(None, "a", None)>>, <<Files("c", None, None)>>),
   own |-> Of({{f1}}, {}, {{f1}}), supply |-> Of({{f2}}, {}, {{f2, f3}}), area |-> {}, ops |-> 4]

\* two translations that take over one directory, and a mod beside it
ReplacerIndex ==
  [kind |-> Of("replacer", "replacer", "mod"),
   deps |-> Nobody, declared |-> Nobody, conflicts |-> Nobody,
   payload |-> Of(<<Files("a", None, None), Files("b", "b", None)>>,
                  <<Files("c", None, None)>>, <<Files(None, None, "a")>>),
   own |-> Nobody, supply |-> Nobody, area |-> {f1, f2}, ops |-> 3]

\* two bridges that supply the same directory and stand on the same base runtime
BridgeIndex ==
  [kind |-> Of("bridge", "bridge", "loader"),
   deps |-> Of({p3}, {p3}, {}), declared |-> Of({p3}, {p3}, {}),
   conflicts |-> Of({p2}, {p1}, {}),
   payload |-> Of(<<Files("a", None, None)>>, <<Files(None, "a", None)>>,
                  <<Files(None, None, "a")>>),
   own |-> Of({{f1}}, {{f2}}, {{f3}}), supply |-> Nobody, area |-> {}, ops |-> 3]

\* a base runtime, a mod copied in by hand, and a mod that needs both
ComebackIndex ==
  [kind |-> Of("loader", "mod", "mod"),
   deps |-> Of({}, {p1}, {p1, p2}), declared |-> Nobody, conflicts |-> Nobody,
   payload |-> Of(<<Files("a", None, None)>>, <<Files(None, "a", None)>>, <<Files(None, None, "a")>>),
   own |-> Of({{f1}}, {}, {}), supply |-> Of({{f2}}, {}, {}), area |-> {}, ops |-> 4]

\* a base runtime with a mod's directory inside its tree
HalvesIndex ==
  [kind |-> Of("loader", "mod", "mod"),
   deps |-> Nobody, declared |-> Nobody, conflicts |-> Nobody,
   payload |-> Of(<<Files("a", None, None), Files("b", None, None)>>,
                  <<Files(None, "a", None)>>, <<Files(None, None, "a")>>),
   own |-> Of({{f1, f2}}, {}, {}), supply |-> Nobody, area |-> {}, ops |-> 5]

\* a base runtime, a mod copied in by hand, and a patch of the game that needs the mod
NeededIndex ==
  [kind |-> Of("loader", "mod", "patch"),
   deps |-> Of({}, {p1}, {p2}), declared |-> Of({}, {}, {p2}), conflicts |-> Nobody,
   payload |-> Of(<<Files("a", None, None)>>, <<Files(None, "a", None)>>, <<Files(None, None, "a")>>),
   own |-> Of({{f1}}, {}, {}), supply |-> Of({{f2}}, {}, {}), area |-> {}, ops |-> 4]

AllIndexes == [patch |-> PatchIndex, loaders |-> LoaderIndex,
               replacer |-> ReplacerIndex, bridges |-> BridgeIndex, comeback |-> ComebackIndex,
               halves |-> HalvesIndex, needed |-> NeededIndex,
               \* the loaders again, with time for copying in, coming back and one more install
               longer |-> [LoaderIndex EXCEPT !.ops = 5]]
MCRegistries == {AllIndexes[i] : i \in Indexes}
================================================================================
