----------------------------- MODULE MCLocalMods -----------------------------
(* A mod of two files known by what its DLLs say, two packages that share a  *)
(* repository, one known by its bytes, a private package with the same bytes,*)
(* a native loader and the bridge that puts mods in MLLoader/.               *)
EXTENDS LocalMods

At(home, type, name) == [home |-> home, type |-> type, name |-> name]
ModA == At("", "mod", "a")
ModB == At("", "mod", "b")
Lib == At("", "userlib", "l")
BridgedA == At("MLLoader", "mod", "a")
MCPlaces == <<ModA, ModB, Lib, BridgedA>>

Dll(name, type, asm, needs, hash) ==
  [name |-> name, type |-> type, id |-> None, repo |-> None, version |-> None,
   asm |-> asm, needs |-> needs, hash |-> hash]
A == [Dll("a", "mod", "A", {"L"}, "ha") EXCEPT !.id = "pa", !.version = 2]
L == [Dll("l", "userlib", "L", {}, "hl") EXCEPT !.repo = "ra", !.version = 1]
B == [Dll("b", "mod", "B", {"L"}, "hb") EXCEPT !.repo = "rs"]
Bytes == Dll("b", "mod", "B", {"L"}, "h2")
MCDlls == {A, L, B, Bytes}

Release(version, assets) == [version |-> version, assets |-> assets]
Asset(name, hash) == [name |-> name, hash |-> hash]
Mod(id, repo, types, releases) ==
  [id |-> id, repo |-> repo, loader |-> FALSE, home |-> "", types |-> types, releases |-> releases]
Loader(id, home) == [Mod(id, None, <<>>, <<>>) EXCEPT !.loader = TRUE, !.home = home]
MCPackages ==
  << Loader("melon", ""), Loader("bridge", "MLLoader"),
     Mod("pa", "ra", "a" :> "mod" @@ "l" :> "userlib",
         <<Release(3, {Asset("a", "h9"), Asset("l", "hl")}), Release(2, {Asset("a", "ha"), Asset("l", "hl")})>>),
     Mod("ps", "rs", <<>>, <<Release(1, {Asset("zip", "hz")})>>),
     Mod("pt", "rs", <<>>, <<Release(2, {Asset("b", "h2")}), Release(1, {Asset("b", "h1")})>>) >>
MCPrivate ==
  {[id |-> "pv", version |-> 1, cached |-> FALSE, files |-> ModB :> "h2"],
   [id |-> "pw", version |-> 1, cached |-> FALSE, files |-> ModB :> "hb"]}

MCVersion == [home \in {"", "MLLoader"} |-> 7]
Native == {"proxy", "native"}
Bridge == {"proxy", "folder", "bridge"}
MCRoots == {{}, Native, Bridge, {"folder"}, Native \cup Bridge}

Here(on, off) == [s \in Slot |-> IF s = "on" THEN on ELSE off]
Nowhere == Here(None, None)
Game(parts, a, b, l, bridged) ==
  [root |-> parts, disk |-> ModA :> a @@ ModB :> b @@ Lib :> l @@ BridgedA :> bridged]
MCFirstGames ==
  { Game(Native, Here(A, None), Here(Bytes, None), Here(L, None), Nowhere),
    Game(Bridge, Here(None, A), Here(B, None), Here(None, L), Here(A, None)) }
=============================================================================
