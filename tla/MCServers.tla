------------------------------ MODULE MCServers ------------------------------
(* Two machines of one account, the first with two calls that may overlap.  *)
(* Only the second one has read the server since it changed its key, or it   *)
(* does not know the server at all.                                          *)
EXTENDS Servers, TLC

CONSTANT OfA    \* the threads of the first machine
MCMachineOf == [t \in Threads |-> IF t \in OfA THEN "A" ELSE "B"]

MCKey == [s \in Servers |-> 2]
Known(ident, at) == [s \in Servers |-> Entry(ident, at)]
MCFirstLists ==
  {"A" :> Known(1, 0) @@ "B" :> Known(2, 1), "A" :> Known(2, 0) @@ "B" :> Nothing}
Symmetry == Permutations(OfA)
=============================================================================
