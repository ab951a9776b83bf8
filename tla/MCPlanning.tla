----------------------------- MODULE MCPlanning -----------------------------
(* Small indexes and machines for TLC: the loaders of the published registry *)
(* (a native loader, a second one and a bridge over it), mods that need them,*)
(* and an index for every way a search can go.                               *)
EXTENDS Planning

\* In the order Python compares the texts: "rc10" comes before "rc2".
MCTexts ==
  << [number |-> 10, digits |-> -1, stem |-> "", keyword |-> FALSE],
     [number |-> 9, digits |-> -1, stem |-> "", keyword |-> FALSE],
     [number |-> -1, digits |-> -1, stem |-> "", keyword |-> FALSE],      \* be
     [number |-> -1, digits |-> -1, stem |-> "", keyword |-> TRUE],       \* beta
     [number |-> -1, digits |-> 10, stem |-> "rc", keyword |-> TRUE],
     [number |-> -1, digits |-> 2, stem |-> "rc", keyword |-> TRUE] >>
Be(n) == [main |-> <<6, 0, 0, 0>>, pre |-> <<3, n>>]      \* 6.0.0-be.10 and -be.9
Rc10 == [main |-> <<1, 1, 0, 0>>, pre |-> <<5>>]
Rc2 == [main |-> <<1, 1, 0, 0>>, pre |-> <<6>>]
Beta == [main |-> <<1, 1, 0, 0>>, pre |-> <<4, 1>>]
V(n) == Release(1, n, 0)

From(v) == Token(">=", v)
Before(v) == Token("<", v)
Exactly(v) == {{Token("=", v)}}
Old == Release(0, 2, 53)
New == Release(0, 2, 54)
Newer == [main |-> <<0, 2, 54, 2>>, pre |-> <<>>]
OldGame == {{Before(New)}}
NewGame == {{From(New)}}

R(v, needs) ==
  [version |-> v, needs |-> needs, assets |-> TRUE, draft |-> FALSE, prerelease |-> FALSE]
Need(id, wanted) == [id |-> id, range |-> wanted]
Dep(id, wanted) == [id |-> id, range |-> wanted, when |-> AnyRange]
Mod(id, releases, dependencies, types) ==
  [id |-> id, loader |-> FALSE, modloader |-> FALSE, external |-> FALSE, category |-> "utility",
   listed |-> FALSE, suffixed |-> FALSE, releases |-> releases, dependencies |-> dependencies, types |-> types,
   supply |-> {}, provides |-> <<>>]
Loader(id, releases, supply) ==
  [Mod(id, releases, <<>>, <<>>) EXCEPT !.loader = TRUE, !.modloader = TRUE, !.supply = supply]

MelonTypes == {Kind("melon", "mod"), Kind("melon", "userlib")}
Melon == Loader("melon", <<R(V(1), <<>>), [R(V(3), <<>>) EXCEPT !.prerelease = TRUE],
                            R(V(2), <<>>), R(Rc2, <<>>)>>, MelonTypes)
Bep == [Loader("bep", <<R(Be(1), <<>>), R(Be(2), <<>>)>>, {Kind("bep", "plugin")})
          EXCEPT !.external = TRUE, !.listed = TRUE, !.suffixed = TRUE, !.provides = "bepinex" :> Self]
Bridge == [Loader("bridge", <<R(V(3), <<>>)>>, MelonTypes)
             EXCEPT !.modloader = FALSE, !.dependencies = <<Dep("bep", AnyRange)>>,
                    !.provides = "melon" :> V(2)]
OfMelon == <<Kind("melon", "mod"), Kind("melon", "userlib")>>

Row(loader, version, game) == [loader |-> loader, version |-> version, sprocket |-> game]
\* The newer loader follows the newer game as well.
MelonTable ==
  << Row("melon", {{From(V(1))}}, OldGame), Row("melon", {{From(V(2))}}, {{Before(Newer)}}),
     Row("bep", {{From(Be(2))}}, NewGame), Row("bridge", {{From(V(3))}}, {{From(New), Before(Release(0, 2, 55))}}) >>

Index(public, ours, table, asked) ==
  [packages |-> public, private |-> ours, gameId |-> "game", table |-> table,
   asked |-> asked]

\* A mod for either loader, its two releases for two games, a translation.
Registry ==
  Index(<< Mod("depth", <<R(V(2), <<Need("game", NewGame)>>), R(V(1), <<Need("game", OldGame)>>)>>,
               <<>>, OfMelon),
           Melon, Bep, Bridge,
           [Mod("text", <<R(V(1), <<Need("game", OldGame)>>)>>, <<>>, <<>>)
              EXCEPT !.category = "translation"] >>,
        << Mod("secret", <<R(V(1), <<>>)>>, <<Dep("depth", AnyRange)>>, <<>>),
           Mod("lost", <<R(V(1), <<>>)>>, <<Dep("nobody's", AnyRange)>>, <<>>) >>,
        MelonTable, {AnyRange, {{Token("~", V(1))}}, NewGame})

\* The newest release of a dependency does not fit what the other one wants.
Diamond ==
  Index(<< Mod("top", <<R(V(3), <<>>), R(V(2), <<>>)>>,
               <<[Dep("left", AnyRange) EXCEPT !.when = {{From(V(3))}}], Dep("right", AnyRange)>>, <<>>),
           Mod("left", <<R(V(2), <<>>), [R(V(1), <<>>) EXCEPT !.assets = FALSE]>>,
               <<Dep("base", {{Token("^", V(1)), Before(V(3))}})>>, <<>>),
           Mod("right", <<R(V(2), <<>>), R(V(1), <<>>)>>,
               <<[Dep("base", {{From(V(3))}}) EXCEPT !.when = Exactly(V(2))],
                 [Dep("base", {{From(V(2))}, {Token("=", V(1))}}) EXCEPT !.when = Exactly(V(1))]>>, <<>>),
           Mod("base", <<R(V(3), <<>>), R(V(2), <<>>), R(V(1), <<>>)>>, <<>>, <<>>) >>,
        <<>>, <<>>, {AnyRange, {{Token("n.n.x", V(2))}}, {{Token("<=", V(2))}, {Token(">", V(3))}}})

\* A package already chosen learns of a later wish; two suppliers of one type.
Late ==
  Index(<< Mod("top", <<R(V(1), <<>>)>>, <<Dep("one", AnyRange), Dep("two", AnyRange)>>, <<>>),
           [Mod("one", <<R(Beta, <<>>), R(Rc10, <<>>), R(Rc2, <<>>),
                          [R(V(2), <<>>) EXCEPT !.draft = TRUE]>>, <<>>, <<>>)
              EXCEPT !.suffixed = TRUE],
           Mod("two", <<R(V(2), <<>>), R(V(1), <<>>), R(V(0), <<>>)>>,
               <<[Dep("one", {{From(Beta), Token("<=", Rc2)}}) EXCEPT !.when = {{From(V(1))}}]>>, <<>>),
           Mod("both", <<R(V(1), <<>>)>>, <<Dep("mel", AnyRange), Dep("alt", AnyRange)>>, <<>>),
           Loader("mel", <<R(V(1), <<>>)>>, MelonTypes), Loader("alt", <<R(V(1), <<>>)>>, MelonTypes) >>,
        <<>>, <<>>, {AnyRange})

\* A cycle that only the newest release makes.
Circle ==
  Index(<< Mod("a", <<R(V(2), <<>>), R(V(1), <<>>)>>,
               <<[Dep("b", AnyRange) EXCEPT !.when = Exactly(V(2))]>>, <<>>),
           Mod("b", <<R(V(1), <<>>)>>, <<Dep("a", AnyRange)>>, <<>>),
           Mod("c", <<R(V(1), <<>>)>>, <<Dep("a", Exactly(V(1)))>>, <<>>) >>,
        <<>>, <<>>, {AnyRange})

\* Without a table; a type that is any of a namespace; a need of a loader.
Wild ==
  Index(<< Mod("pack", <<R(V(1), <<Need("melon", {{Token("n.x", V(0)), From(V(2))}})>>)>>,
               <<Dep("melon", AnyRange)>>, <<Kind("melon", "*")>>),
           Mod("plain", <<R(V(1), <<Need("game", OldGame), Need("bepinex", {{From(Be(1))}})>>)>>,
               <<>>, <<Kind("melon", "mod")>>),
           Melon, Bep, Bridge >>,
        << Mod("ours", <<R(V(1), <<>>)>>, <<>>, <<Kind("melon", "mod")>>) >>, <<>>, {AnyRange})

Refused ==
  { Index(<<Mod("x", <<>>, <<>>, <<Kind("none", "mod")>>)>>, <<>>, <<>>, {}),
    Index(<<Mod("x", <<>>, <<Dep("y", AnyRange)>>, <<>>)>>, <<>>, <<>>, {}) }

\* What the theorems suppose of versions and of needs holds here.
ASSUME TextsInOrder /\ NamedOnce

MCIndexes == {Registry, Diamond, Late, Circle, Wild} \cup Refused

Machine(records, detected, game, state) ==
  [records |-> records, detected |-> detected, game |-> game, state |-> state]
MCMachines ==
  { Machine(<<>>, <<>>, Old, "ok"), Machine(<<>>, <<>>, New, "ok"), Machine(<<>>, <<>>, Newer, "ok"),
    Machine(<<>>, <<>>, Release(0, 2, 55), "ok"),
    Machine(<<>>, <<>>, Nothing, "unconfigured"),
    Machine("melon" :> V(2), <<>>, New, "ok"), Machine("melon" :> V(1), <<>>, Newer, "ok"),
    Machine("bep" :> Be(1) @@ "bridge" :> V(3), <<>>, Newer, "ok"),
    Machine("bep" :> Be(1) @@ "bridge" :> V(3) @@ "melon" :> V(2), <<>>, New, "ok"),
    Machine("bep" :> Be(2), "melon" :> V(1), Newer, "ok"),
    Machine(<<>>, "melon" :> V(1), Old, "ok"),
    Machine("melon" :> Nothing, "melon" :> V(1), Nothing, "legacy") }
=============================================================================
