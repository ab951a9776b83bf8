---------------------------- MODULE PlanningProofs ----------------------------
(* What the solver answers, for every index and machine that IndexAssumption *)
(* allows: its search and its visit are in order (SearchInvariant), a plan is *)
(* what was asked for and can be installed (PlanSound, DirectoriesKnown), and *)
(* no solution is overlooked (NothingOverlooked). The last one, and that the *)
(* two readers of a range agree (ReadersNeverDisagree), suppose that the order *)
(* of versions is one, as it is where TextsInOrder holds (VersionOrder).     *)
EXTENDS Planning, FiniteSetTheorems, WellFoundedInduction, TLAPS

(* ------------------------------- numbers -------------------------------- *)

\* Any numbers have a least one: for the least counterexample of what a function
\* on the numbers computes.
LEMMA LeastExists ==
  ASSUME NEW S \in SUBSET Nat, S # {}
  PROVE \E m \in S : \A k \in S : m <= k
<1> DEFINE R == OpToRel(<, Nat)
<1>1. IsWellFoundedOn(R, Nat)
  BY NatLessThanWellFounded
<1>2. \A j, k \in Nat : j < k => <<j, k>> \in R
  BY DEF OpToRel
<1> HIDE DEF R
<1>3. \E m \in S : \A k \in S : ~ (<<k, m>> \in R)
  BY <1>1, WFMin, Zenon
<1>4. PICK m \in S : \A k \in S : ~ (<<k, m>> \in R)
  BY <1>3
<1>5. \A k \in S : ~ (k < m)
  BY <1>2, <1>4
<1>6. QED
  BY <1>5

\* What holds of 0 and of the next number when of one, holds of all up to a bound.
LEMMA Upwards ==
  ASSUME NEW bound \in Nat, NEW S, 0 \in S, \A n \in 1 .. bound : n - 1 \in S => n \in S
  PROVE \A n \in 0 .. bound : n \in S
<1> DEFINE bad == {n \in 0 .. bound : n \notin S}
<1>1. SUFFICES ASSUME bad # {} PROVE FALSE
  OBVIOUS
<1>0. bad \in SUBSET Nat
  OBVIOUS
<1>2. PICK m \in bad : \A k \in bad : m <= k
  BY <1>0, <1>1, LeastExists
<1>3. m # 0 /\ m - 1 \in 0 .. bound /\ m - 1 \notin bad
  BY <1>2
<1>4. QED
  BY <1>2, <1>3

(* -------------------------------- lists --------------------------------- *)

\* A sequence of the library is a list of its own members.
LEMMA ListIs ==
  ASSUME NEW S, NEW list \in Seq(S)
  PROVE /\ IsList(list) /\ Range(list) \subseteq S
        /\ DOMAIN list = 1 .. Len(list) /\ Len(list) \in Nat
        /\ list = <<>> <=> Range(list) = {}
<1>1. Range(list) \subseteq S
  BY DEF Range
<1>2. IsList(list)
  BY DEF IsList, Range
<1>3. DOMAIN list = 1 .. Len(list) /\ Len(list) \in Nat
  OBVIOUS
<1>4. list = <<>> <=> Range(list) = {}
  <2>1. ASSUME list # <<>> PROVE list[1] \in Range(list)
    <3>1. Len(list) # 0
      BY <2>1
    <3>2. QED
      BY <1>3, <3>1 DEF Range
  <2>2. ASSUME list = <<>> PROVE Range(list) = {}
    BY <2>2 DEF Range
  <2>3. QED
    BY <2>1, <2>2
<1>5. QED
  BY <1>1, <1>2, <1>3, <1>4

\* A list, its members and its places.
LEMMA ListBasics ==
  ASSUME NEW list, IsList(list)
  PROVE /\ Len(list) \in Nat /\ DOMAIN list = 1 .. Len(list)
        /\ \A i \in DOMAIN list : list[i] \in Range(list)
        /\ \A x \in Range(list) : \E i \in DOMAIN list : list[i] = x
        /\ list = <<>> <=> Range(list) = {}
        /\ list = <<>> <=> Len(list) = 0
<1>1. list \in Seq(Range(list))
  BY DEF IsList
<1>2. Len(list) \in Nat /\ DOMAIN list = 1 .. Len(list) /\ (list = <<>> <=> Len(list) = 0)
  BY <1>1
<1>3. list = <<>> <=> Range(list) = {}
  BY <1>1, ListIs
<1>4. QED
  BY <1>2, <1>3 DEF Range

\* Two facts about lists in the words of this model.
LEMMA FirstIsIn ==
  ASSUME NEW list, IsList(list), list # <<>> PROVE list[1] \in Range(list)
<1>1. list \in Seq(Range(list))
  BY DEF IsList
<1>2. 1 \in DOMAIN list
  BY <1>1
<1>3. QED
  BY <1>2 DEF Range

\* The recursive function inside Kept, under a name.
LEMMA KeptIsBuilt ==
  ASSUME NEW S, NEW list \in Seq(S), NEW wanted
  PROVE \E g : /\ g = [n \in 0 .. Len(list) |->
                        IF n = 0 THEN <<>>
                        ELSE IF list[n] \in wanted THEN Append(g[n - 1], list[n]) ELSE g[n - 1]]
               /\ Kept(list, wanted) = g[Len(list)]
<1> DEFINE built(g, m) == [n \in 0 .. m |->
                             IF n = 0 THEN <<>>
                             ELSE IF list[n] \in wanted THEN Append(g[n - 1], list[n]) ELSE g[n - 1]]
           can == {m \in Nat : \E g : g = built(g, m)}
<1>1. 0 \in can
  <2> DEFINE g == [n \in 0 .. 0 |-> <<>>]
  <2>1. g = built(g, 0)
    OBVIOUS
  <2>2. QED
    BY <2>1
<1>2. ASSUME NEW m \in 1 .. Len(list), m - 1 \in can PROVE m \in can
  <2>1. PICK g : g = built(g, m - 1)
    BY <1>2
  <2> DEFINE h == [n \in 0 .. m |-> IF n = m THEN IF list[n] \in wanted THEN Append(g[m - 1], list[n]) ELSE g[m - 1]
                                    ELSE g[n]]
  <2>2. \A n \in 0 .. (m - 1) : g[n] = (IF n = 0 THEN <<>>
                        ELSE IF list[n] \in wanted THEN Append(g[n - 1], list[n]) ELSE g[n - 1])
    BY <2>1
  <2>3. \A n \in 0 .. m : h[n] = (IF n = 0 THEN <<>>
                        ELSE IF list[n] \in wanted THEN Append(h[n - 1], list[n]) ELSE h[n - 1])
    BY <2>2
  <2>4. h = built(h, m)
    BY <2>3
  <2> HIDE DEF h
  <2>5. \E f : f = built(f, m)
    BY <2>4, Zenon
  <2>6. QED
    BY <2>5
<1>3. Len(list) \in Nat /\ Len(list) \in 0 .. Len(list)
  OBVIOUS
<1>4. Len(list) \in can
  <2> HIDE DEF can
  <2>1. \A n \in 1 .. Len(list) : n - 1 \in can => n \in can
    BY <1>2
  <2>2. QED
    BY <1>1, <1>3, <2>1, Upwards
<1>5. QED
  BY <1>4 DEF Kept

\* What is wanted of a list, in the order of the list.
LEMMA KeptIs ==
  ASSUME NEW S, NEW list \in Seq(S), NEW wanted
  PROVE /\ Kept(list, wanted) \in Seq(S)
        /\ Range(Kept(list, wanted)) = Range(list) \cap wanted
        /\ \A i, j \in DOMAIN Kept(list, wanted) : i < j =>
             \E a, b \in DOMAIN list : /\ a < b /\ Kept(list, wanted)[i] = list[a]
                                       /\ Kept(list, wanted)[j] = list[b]
<1>1. PICK g : /\ g = [n \in 0 .. Len(list) |->
                        IF n = 0 THEN <<>>
                        ELSE IF list[n] \in wanted THEN Append(g[n - 1], list[n]) ELSE g[n - 1]]
               /\ Kept(list, wanted) = g[Len(list)]
  BY KeptIsBuilt
<1> DEFINE Is(n) == /\ g[n] \in Seq(S)
                    /\ \A k \in DOMAIN g[n] : \E a \in 1 .. n : g[n][k] = list[a] /\ list[a] \in wanted
                    /\ \A a \in 1 .. n : list[a] \in wanted => \E k \in DOMAIN g[n] : g[n][k] = list[a]
                    /\ \A i, j \in DOMAIN g[n] : i < j =>
                         \E a, b \in 1 .. n : a < b /\ g[n][i] = list[a] /\ g[n][j] = list[b]
           good == {n \in 0 .. Len(list) : Is(n)}
<1>2. Len(list) \in Nat /\ DOMAIN list = 1 .. Len(list) /\ \A a \in 1 .. Len(list) : list[a] \in S
  OBVIOUS
<1>0. \A n \in 0 .. Len(list) : g[n] = IF n = 0 THEN <<>>
        ELSE IF list[n] \in wanted THEN Append(g[n - 1], list[n]) ELSE g[n - 1]
  BY <1>1
<1>3. g[0] = <<>> /\ \A n \in 1 .. Len(list) :
        g[n] = IF list[n] \in wanted THEN Append(g[n - 1], list[n]) ELSE g[n - 1]
  BY <1>0, <1>2
<1>4. 0 \in good
  <2>1. g[0] \in Seq(S) /\ DOMAIN g[0] = {}
    BY <1>3
  <2>2. QED
    BY <1>2, <2>1
<1>5. ASSUME NEW n \in 1 .. Len(list), n - 1 \in good PROVE n \in good
  <2>1. Is(n - 1)
    BY <1>5
  <2>2. CASE list[n] \in wanted
    <3>1. g[n] = Append(g[n - 1], list[n])
      BY <1>3, <2>2
    <3>2. /\ g[n] \in Seq(S) /\ Len(g[n]) = Len(g[n - 1]) + 1 /\ g[n][Len(g[n])] = list[n]
          /\ DOMAIN g[n] = 1 .. (Len(g[n - 1]) + 1) /\ DOMAIN g[n - 1] = 1 .. Len(g[n - 1])
          /\ \A k \in DOMAIN g[n - 1] : g[n][k] = g[n - 1][k]
          /\ Len(g[n - 1]) \in Nat
      BY <1>2, <2>1, <3>1
    <3>3. \A k \in DOMAIN g[n] : \E a \in 1 .. n : g[n][k] = list[a] /\ list[a] \in wanted
      BY <2>1, <2>2, <3>2
    <3>4. \A a \in 1 .. n : list[a] \in wanted => \E k \in DOMAIN g[n] : g[n][k] = list[a]
      BY <2>1, <3>2
    <3>5. ASSUME NEW i \in DOMAIN g[n], NEW j \in DOMAIN g[n], i < j
          PROVE \E a, b \in 1 .. n : a < b /\ g[n][i] = list[a] /\ g[n][j] = list[b]
      <4>1. i \in DOMAIN g[n - 1]
        BY <3>2, <3>5
      <4>2. CASE j \in DOMAIN g[n - 1]
        <5>1. PICK a, b \in 1 .. (n - 1) : a < b /\ g[n - 1][i] = list[a] /\ g[n - 1][j] = list[b]
          BY <2>1, <3>5, <4>1, <4>2
        <5>2. a \in 1 .. n /\ b \in 1 .. n
          OBVIOUS
        <5>3. QED
          BY <3>2, <4>1, <4>2, <5>1, <5>2
      <4>3. CASE j = Len(g[n])
        <5>1. PICK a \in 1 .. (n - 1) : g[n - 1][i] = list[a]
          BY <2>1, <4>1
        <5>2. a < n /\ a \in 1 .. n /\ n \in 1 .. n
          OBVIOUS
        <5>3. QED
          BY <3>2, <4>1, <4>3, <5>1, <5>2
      <4>4. QED
        BY <3>2, <4>2, <4>3
    <3>6. Is(n)
      BY <3>2, <3>3, <3>4, <3>5
    <3> HIDE DEF Is
    <3>7. QED
      BY <3>6
  <2>3. CASE list[n] \notin wanted
    <3>1. g[n] = g[n - 1]
      BY <1>3, <2>3
    <3>2. \A a \in 1 .. n : a \in 1 .. (n - 1) \/ a = n
      OBVIOUS
    <3>3. \A a \in 1 .. (n - 1) : a \in 1 .. n
      OBVIOUS
    <3>4. Is(n)
      <4>1. \A k \in DOMAIN g[n] : \E a \in 1 .. n : g[n][k] = list[a] /\ list[a] \in wanted
        BY <2>1, <3>1, <3>3
      <4>2. \A a \in 1 .. n : list[a] \in wanted => \E k \in DOMAIN g[n] : g[n][k] = list[a]
        BY <2>1, <2>3, <3>1, <3>2
      <4>3. \A i, j \in DOMAIN g[n] : i < j =>
              \E a, b \in 1 .. n : a < b /\ g[n][i] = list[a] /\ g[n][j] = list[b]
        BY <2>1, <3>1, <3>3
      <4>4. QED
        BY <2>1, <3>1, <4>1, <4>2, <4>3
    <3> HIDE DEF Is
    <3>5. QED
      BY <3>4
  <2>4. QED
    BY <2>2, <2>3
<1>6. Is(Len(list))
  <2>1. Len(list) \in good
    <3> HIDE DEF good
    <3>1. \A n \in 1 .. Len(list) : n - 1 \in good => n \in good
      BY <1>5
    <3>2. \A n \in 0 .. Len(list) : n \in good
      BY <1>2, <1>4, <3>1, Upwards
    <3>3. QED
      BY <1>2, <3>2
  <2>2. QED
    BY <2>1
<1> DEFINE kept == Kept(list, wanted)
           last == g[Len(list)]
<1>10. kept = last
  BY <1>1
<1>11. /\ last \in Seq(S)
       /\ \A k \in DOMAIN last : \E a \in 1 .. Len(list) : last[k] = list[a] /\ list[a] \in wanted
       /\ \A a \in 1 .. Len(list) : list[a] \in wanted => \E k \in DOMAIN last : last[k] = list[a]
       /\ \A i, j \in DOMAIN last : i < j =>
            \E a, b \in 1 .. Len(list) : a < b /\ last[i] = list[a] /\ last[j] = list[b]
  BY <1>6, Zenon
<1> HIDE DEF kept, last
<1>8. Range(last) = Range(list) \cap wanted
  BY <1>2, <1>11 DEF Range
<1>9. ASSUME NEW i \in DOMAIN last, NEW j \in DOMAIN last, i < j
      PROVE \E a, b \in DOMAIN list : a < b /\ last[i] = list[a] /\ last[j] = list[b]
  <2>1. PICK a, b \in 1 .. Len(list) : a < b /\ last[i] = list[a] /\ last[j] = list[b]
    BY <1>9, <1>11, Zenon
  <2>2. QED
    BY <1>2, <2>1
<1>12. QED
  BY <1>8, <1>9, <1>10, <1>11 DEF kept

LEMMA KeptIsIn ==
  ASSUME NEW list, IsList(list), NEW wanted
  PROVE IsList(Kept(list, wanted)) /\ Range(Kept(list, wanted)) = Range(list) \cap wanted
<1>1. list \in Seq(Range(list))
  BY DEF IsList
<1>2. Kept(list, wanted) \in Seq(Range(list)) /\ Range(Kept(list, wanted)) = Range(list) \cap wanted
  BY <1>1, KeptIs
<1>3. QED
  BY <1>2, ListIs

\* Two lists in a row, as the public and the private packages are searched.
LEMMA JoinedIs ==
  ASSUME NEW a, NEW b, IsList(a), IsList(b)
  PROVE IsList(a \o b) /\ Range(a \o b) = Range(a) \cup Range(b)
<1> DEFINE S == Range(a) \cup Range(b)
<1>1. a \in Seq(S) /\ b \in Seq(S)
  BY DEF IsList
<1>2. a \o b \in Seq(S)
  BY <1>1
<1>3. /\ Len(a \o b) = Len(a) + Len(b)
      /\ \A i \in 1 .. Len(a) : (a \o b)[i] = a[i]
      /\ \A i \in 1 .. Len(b) : (a \o b)[i + Len(a)] = b[i]
      /\ \A i \in 1 .. Len(a \o b) : i \in 1 .. Len(a) \/ i - Len(a) \in 1 .. Len(b)
      /\ Len(a) \in Nat /\ Len(b) \in Nat
  BY <1>1
<1>4. /\ DOMAIN a = 1 .. Len(a) /\ DOMAIN b = 1 .. Len(b) /\ DOMAIN (a \o b) = 1 .. Len(a \o b)
  BY <1>1, <1>2
<1>5. S \subseteq Range(a \o b)
  <2>1. ASSUME NEW i \in 1 .. Len(b) PROVE b[i] \in Range(a \o b)
    <3>1. i + Len(a) \in DOMAIN (a \o b)
      BY <1>3, <1>4
    <3>2. QED
      BY <1>3, <3>1 DEF Range
  <2>2. ASSUME NEW i \in 1 .. Len(a) PROVE a[i] \in Range(a \o b)
    <3>1. i \in DOMAIN (a \o b)
      BY <1>3, <1>4
    <3>2. QED
      BY <1>3, <3>1 DEF Range
  <2>3. QED
    BY <1>4, <2>1, <2>2 DEF Range
<1>6. QED
  BY <1>2, <1>5, ListIs

\* A list without its last member.
LEMMA BelowIs ==
  ASSUME NEW list, IsList(list), list # <<>>
  PROVE LET b == SubSeq(list, 1, Len(list) - 1)
        IN /\ IsList(b) /\ Range(b) \subseteq Range(list)
           /\ DOMAIN b = 1 .. (Len(list) - 1) /\ Len(b) = Len(list) - 1
           /\ \A k \in DOMAIN b : b[k] = list[k]
<1>1. list \in Seq(Range(list)) /\ Len(list) \in Nat /\ Len(list) # 0
  BY ListBasics DEF IsList
<1> DEFINE b == SubSeq(list, 1, Len(list) - 1)
           S == Range(list)
<1> HIDE DEF S
<1>0. list \in Seq(S)
  BY <1>1 DEF S
<1>2. b \in Seq(S) /\ Len(b) = Len(list) - 1 /\ DOMAIN b = 1 .. (Len(list) - 1)
      /\ \A k \in DOMAIN b : b[k] = list[k]
  <2>1. PICK n : n = Len(list) - 1
    OBVIOUS
  <2>2. n \in 0 .. Len(list) /\ n \in Nat
    BY <1>1, <2>1
  <2>3. b = SubSeq(list, 1, n)
    BY <2>1
  <2> HIDE DEF b
  <2>4. b \in Seq(S) /\ Len(b) = n
    BY <1>0, <1>1, <2>2, <2>3
  <2>5. \A k \in 1 .. n : b[k] = list[k]
    BY <1>0, <1>1, <2>2, <2>3
  <2>6. QED
    BY <2>1, <2>4, <2>5
<1> HIDE DEF b
<1>3. IsList(b) /\ Range(b) \subseteq S
  BY <1>2, ListIs
<1>4. QED
  BY <1>2, <1>3 DEF S, b

\* A list with one member more.
LEMMA AppendIs ==
  ASSUME NEW list, IsList(list), NEW x
  PROVE LET t == Append(list, x)
        IN /\ IsList(t) /\ Range(t) = Range(list) \cup {x}
           /\ DOMAIN t = 1 .. (Len(list) + 1) /\ Len(t) = Len(list) + 1 /\ t # <<>>
           /\ \A k \in DOMAIN list : t[k] = list[k]
           /\ t[Len(list) + 1] = x
<1> DEFINE t == Append(list, x)
           S == Range(list) \cup {x}
<1>0. list \in Seq(Range(list)) /\ Range(list) \subseteq S /\ x \in S
  BY DEF IsList
<1> HIDE DEF S
<1>1. list \in Seq(S) /\ Len(list) \in Nat /\ DOMAIN list = 1 .. Len(list)
  BY <1>0
<1>2. /\ t \in Seq(S) /\ DOMAIN t = 1 .. (Len(list) + 1) /\ Len(t) = Len(list) + 1
      /\ \A k \in DOMAIN list : t[k] = list[k]
      /\ t[Len(list) + 1] = x
  BY <1>0, <1>1
<1> HIDE DEF t
<1>3. Range(t) = Range(list) \cup {x}
  BY <1>1, <1>2 DEF Range
<1>4. IsList(t) /\ t # <<>>
  BY <1>1, <1>2, ListIs
<1>5. QED
  BY <1>2, <1>3, <1>4 DEF t

\* A list without its first member.
LEMMA TailIs ==
  ASSUME NEW list, IsList(list), list # <<>>
  PROVE /\ Head(list) \in Range(list) /\ IsList(Tail(list))
        /\ Range(list) = {Head(list)} \cup Range(Tail(list))
        /\ Head(list) = list[1] /\ Len(Tail(list)) = Len(list) - 1
        /\ \A k \in 1 .. (Len(list) - 1) : Tail(list)[k] = list[k + 1]
<1>1. list \in Seq(Range(list)) /\ Len(list) \in Nat /\ Len(list) # 0 /\ DOMAIN list = 1 .. Len(list)
  BY ListBasics DEF IsList
<1> DEFINE t == Tail(list)
           S == Range(list)
<1> HIDE DEF S
<1>0. list \in Seq(S)
  BY <1>1 DEF S
<1>2. t \in Seq(S) /\ Len(t) = Len(list) - 1 /\ \A k \in 1 .. (Len(list) - 1) : t[k] = list[k + 1]
  BY <1>0, <1>1
<1>3. Head(list) = list[1]
  BY <1>1
<1> HIDE DEF t
<1>4. IsList(t) /\ DOMAIN t = 1 .. (Len(list) - 1)
  BY <1>1, <1>2, ListIs
<1>5. \A k \in DOMAIN list : k = 1 \/ (k - 1 \in DOMAIN t /\ t[k - 1] = list[k])
  BY <1>1, <1>2, <1>4
<1>6. \A k \in DOMAIN t : k + 1 \in DOMAIN list /\ t[k] = list[k + 1]
  BY <1>1, <1>2, <1>4
<1>7. Range(list) = {Head(list)} \cup Range(t)
  <2>1. \A k \in DOMAIN list : list[k] \in {Head(list)} \cup Range(t)
    BY <1>3, <1>5 DEF Range
  <2>2. \A k \in DOMAIN t : t[k] \in Range(list)
    BY <1>6 DEF Range
  <2>3. Head(list) \in Range(list)
    BY <1>1, <1>3 DEF Range
  <2>4. QED
    BY <2>1, <2>2, <2>3 DEF Range
<1>8. QED
  BY <1>2, <1>3, <1>4, <1>7 DEF t

\* A list with its last member replaced.
LEMMA ReplacedIs ==
  ASSUME NEW list, IsList(list), list # <<>>, NEW x, NEW t,
         t = [k \in DOMAIN t |-> t[k]], DOMAIN t = DOMAIN list,
         \A k \in DOMAIN list : t[k] = IF k = Len(list) THEN x ELSE list[k]
  PROVE /\ IsList(t) /\ t # <<>> /\ Len(t) = Len(list)
        /\ t[Len(list)] = x
        /\ \A k \in 1 .. (Len(list) - 1) : t[k] = list[k]
<1>1. /\ Len(list) \in Nat /\ Len(list) # 0 /\ DOMAIN list = 1 .. Len(list)
      /\ \A k \in DOMAIN list : list[k] \in Range(list)
  BY ListBasics
<1> DEFINE S == Range(list) \cup {x}
<1>2. Range(list) \subseteq S /\ x \in S
  OBVIOUS
<1> HIDE DEF S
<1>3. \A k \in 1 .. Len(list) : t[k] \in S
  BY <1>1, <1>2
<1>4. t \in Seq(S)
  BY <1>1, <1>3
<1>5. Len(t) = Len(list)
  BY <1>1, <1>4
<1>6. IsList(t) /\ t # <<>>
  BY <1>1, <1>4, <1>5, ListIs
<1>7. QED
  BY <1>1, <1>5, <1>6

(* ------------------------ releases, newest first ------------------------ *)

\* What InsertAt of the community modules does.
LEMMA InsertAtIs ==
  ASSUME NEW S, NEW list \in Seq(S), NEW at \in 1 .. (Len(list) + 1), NEW r \in S
  PROVE LET t == InsertAt(list, at, r)
        IN /\ t \in Seq(S) /\ DOMAIN t = 1 .. (Len(list) + 1)
           /\ \A i \in DOMAIN t : t[i] = IF i < at THEN list[i] ELSE IF i = at THEN r ELSE list[i - 1]
<1> DEFINE left == SubSeq(list, 1, at - 1)
           right == SubSeq(list, at, Len(list))
<1>1. /\ left \in Seq(S) /\ Len(left) = at - 1 /\ \A i \in 1 .. (at - 1) : left[i] = list[i]
      /\ right \in Seq(S) /\ Len(right) = Len(list) + 1 - at
      /\ \A i \in 1 .. (Len(list) + 1 - at) : right[i] = list[at + i - 1]
      /\ Len(list) \in Nat
  OBVIOUS
<1>2. <<r>> \in Seq(S) /\ Len(<<r>>) = 1 /\ <<r>>[1] = r
  OBVIOUS
<1> HIDE DEF left, right
<1> DEFINE one == left \o <<r>>
           t == one \o right
<1>8. one \in Seq(S) /\ Len(one) = at /\ one[at] = r /\ \A i \in 1 .. (at - 1) : one[i] = left[i]
  BY <1>1, <1>2
<1>9. t = left \o <<r>> \o right
  OBVIOUS
<1> HIDE DEF one
<1>3. /\ t \in Seq(S) /\ Len(t) = Len(list) + 1
      /\ \A i \in 1 .. (at - 1) : t[i] = left[i]
      /\ t[at] = r
      /\ \A i \in (at + 1) .. (Len(list) + 1) : t[i] = right[i - at]
  BY <1>1, <1>8
<1> HIDE DEF t
<1>4. ASSUME NEW i \in 1 .. (Len(list) + 1)
      PROVE t[i] = IF i < at THEN list[i] ELSE IF i = at THEN r ELSE list[i - 1]
  <2>1. CASE i < at
    BY <1>1, <1>3, <2>1
  <2>2. CASE i = at
    BY <1>3, <2>2
  <2>3. CASE i > at
    <3>1. i - at \in 1 .. (Len(list) + 1 - at) /\ i \in (at + 1) .. (Len(list) + 1)
          /\ at + (i - at) - 1 = i - 1
      BY <2>3
    <3>2. QED
      BY <1>1, <1>3, <2>3, <3>1
  <2>4. at \in Int /\ i \in Int
    BY <1>1
  <2>5. i < at \/ i = at \/ i > at
    BY <2>4
  <2>6. QED
    BY <2>1, <2>2, <2>3, <2>5
<1>5. InsertAt(list, at, r) = t
  BY <1>9 DEF InsertAt, left, right
<1>6. DOMAIN t = 1 .. (Len(list) + 1)
  BY <1>3
<1>7. QED
  BY <1>3, <1>4, <1>5, <1>6

\* The order of versions, as far as sorting needs it.
Chains(S) == \A q, r, s \in S :
  /\ ~Less(q.version, q.version)
  /\ Less(q.version, r.version) /\ Less(r.version, s.version) => Less(q.version, s.version)

\* A release put into a list in order leaves it in order, and loses nothing.
LEMMA InsertedIs ==
  ASSUME NEW S, NEW list \in Seq(S), NEW r \in S
  PROVE /\ Inserted(list, r) \in Seq(S)
        /\ Range(Inserted(list, r)) = Range(list) \cup {r}
        /\ Chains(S) /\ NewestAreFirst(list) => NewestAreFirst(Inserted(list, r))
<1> DEFINE older == {i \in DOMAIN list : Less(list[i].version, r.version)}
           at == IF older = {} THEN Len(list) + 1 ELSE Min(older)
           t == InsertAt(list, at, r)
<1>1. Inserted(list, r) = t
  BY DEF Inserted
<1>2. Len(list) \in Nat /\ DOMAIN list = 1 .. Len(list) /\ \A i \in DOMAIN list : list[i] \in S
  OBVIOUS
<1>3. /\ at \in 1 .. (Len(list) + 1) /\ \A i \in DOMAIN list : i < at => ~Less(list[i].version, r.version)
      /\ at \in DOMAIN list => Less(list[at].version, r.version)
  <2>1. CASE older = {}
    BY <1>2, <2>1
  <2>2. CASE older # {}
    <3>1. older \in SUBSET Nat
      BY <1>2
    <3>2. \E m \in older : \A k \in older : m <= k
      BY <2>2, <3>1, LeastExists
    <3>3. Min(older) \in older /\ \A k \in older : Min(older) <= k
      BY <3>2 DEF Min
    <3>4. at = Min(older)
      BY <2>2
    <3>5. PICK m : m = at /\ m \in older /\ \A k \in older : m <= k
      BY <3>3, <3>4
    <3> HIDE DEF at
    <3>6. m \in 1 .. (Len(list) + 1) /\ m \in DOMAIN list /\ Less(list[m].version, r.version)
      BY <1>2, <3>5
    <3>7. ASSUME NEW i \in DOMAIN list, i < m PROVE ~Less(list[i].version, r.version)
      BY <1>2, <3>5, <3>6, <3>7
    <3>8. QED
      BY <3>5, <3>6, <3>7
  <2>3. QED
    BY <2>1, <2>2
<1> HIDE DEF at
<1>4. /\ t \in Seq(S) /\ DOMAIN t = 1 .. (Len(list) + 1)
      /\ \A i \in DOMAIN t : t[i] = IF i < at THEN list[i] ELSE IF i = at THEN r ELSE list[i - 1]
  BY <1>3, InsertAtIs
<1> HIDE DEF t, older
<1>5. Range(t) = Range(list) \cup {r}
  <2>1. ASSUME NEW i \in DOMAIN t PROVE t[i] \in Range(list) \cup {r}
    BY <1>2, <1>3, <1>4 DEF Range
  <2>2. ASSUME NEW i \in DOMAIN list PROVE list[i] \in Range(t)
    <3>1. CASE i < at
      BY <1>2, <1>4, <3>1 DEF Range
    <3>2. CASE ~(i < at)
      <4>1. i + 1 \in DOMAIN t /\ ~(i + 1 < at) /\ i + 1 # at /\ (i + 1) - 1 = i
        BY <1>2, <1>3, <1>4, <3>2
      <4>2. t[i + 1] = list[i]
        BY <1>4, <4>1
      <4>3. QED
        BY <4>1, <4>2 DEF Range
    <3>3. QED
      BY <3>1, <3>2
  <2>3. t[at] = r /\ at \in DOMAIN t
    BY <1>3, <1>4
  <2>4. QED
    BY <2>1, <2>2, <2>3 DEF Range
<1>6. ASSUME Chains(S), NewestAreFirst(list), NEW i \in DOMAIN t, NEW j \in DOMAIN t, i < j
      PROVE ~Less(t[i].version, t[j].version)
  <2>1. CASE j < at
    <3>1. i \in DOMAIN list /\ j \in DOMAIN list /\ t[i] = list[i] /\ t[j] = list[j]
      BY <1>2, <1>3, <1>4, <1>6, <2>1
    <3>2. QED
      BY <1>6, <3>1 DEF NewestAreFirst
  <2>2. CASE j = at
    <3>1. i \in DOMAIN list /\ t[i] = list[i] /\ t[j] = r /\ i < at
      BY <1>2, <1>3, <1>4, <1>6, <2>2
    <3>2. QED
      BY <1>3, <3>1
  <2>3. CASE j > at /\ i < at
    <3>1. i \in DOMAIN list /\ j - 1 \in DOMAIN list /\ i < j - 1 /\ t[i] = list[i] /\ t[j] = list[j - 1]
      BY <1>2, <1>3, <1>4, <1>6, <2>3
    <3>2. QED
      BY <1>6, <3>1 DEF NewestAreFirst
  <2>4. CASE j > at /\ i > at
    <3>1. i - 1 \in DOMAIN list /\ j - 1 \in DOMAIN list /\ i - 1 < j - 1 /\ t[i] = list[i - 1] /\ t[j] = list[j - 1]
      BY <1>2, <1>3, <1>4, <1>6, <2>4
    <3>2. QED
      BY <1>6, <3>1 DEF NewestAreFirst
  <2>5. CASE j > at /\ i = at
    <3>1. at \in DOMAIN list /\ j - 1 \in DOMAIN list /\ (at = j - 1 \/ at < j - 1) /\ t[i] = r /\ t[j] = list[j - 1]
      BY <1>2, <1>3, <1>4, <1>6, <2>5
    <3>2. Less(list[at].version, r.version)
      BY <1>3, <3>1
    <3>3. CASE at = j - 1
      <4>1. Less(r.version, list[at].version) => FALSE
        <5>1. SUFFICES ASSUME Less(r.version, list[at].version) PROVE FALSE
          OBVIOUS
        <5>2. QED
          BY <1>2, <1>6, <3>1, <3>2, <5>1 DEF Chains
      <4>2. QED
        BY <3>1, <3>3, <4>1
    <3>4. CASE at < j - 1
      <4>1. ~Less(list[at].version, list[j - 1].version)
        BY <1>6, <3>1, <3>4 DEF NewestAreFirst
      <4>2. QED
        BY <1>2, <1>6, <3>1, <3>2, <4>1 DEF Chains
    <3>5. QED
      BY <3>1, <3>3, <3>4
  <2>6. QED
    BY <1>3, <1>4, <2>1, <2>2, <2>3, <2>4, <2>5
<1>7. QED
  BY <1>1, <1>4, <1>5, <1>6 DEF NewestAreFirst

\* The recursive function inside NewestFirst, under a name.
LEMMA NewestIsBuilt ==
  ASSUME NEW S, NEW list \in Seq(S)
  PROVE \E g : /\ g = [n \in 0 .. Len(list) |-> IF n = 0 THEN <<>> ELSE Inserted(g[n - 1], list[n])]
               /\ NewestFirst(list) = g[Len(list)]
<1> DEFINE built(g, m) == [n \in 0 .. m |-> IF n = 0 THEN <<>> ELSE Inserted(g[n - 1], list[n])]
           can == {m \in Nat : \E g : g = built(g, m)}
<1>1. 0 \in can
  <2> DEFINE g == [n \in 0 .. 0 |-> <<>>]
  <2>1. g = built(g, 0)
    OBVIOUS
  <2>2. QED
    BY <2>1
<1>2. ASSUME NEW m \in 1 .. Len(list), m - 1 \in can PROVE m \in can
  <2>1. PICK g : g = built(g, m - 1)
    BY <1>2
  <2> DEFINE h == [n \in 0 .. m |-> IF n = m THEN Inserted(g[m - 1], list[n]) ELSE g[n]]
  <2>2. \A n \in 0 .. (m - 1) : g[n] = (IF n = 0 THEN <<>> ELSE Inserted(g[n - 1], list[n]))
    BY <2>1
  <2>3. \A n \in 0 .. m : h[n] = (IF n = 0 THEN <<>> ELSE Inserted(h[n - 1], list[n]))
    BY <2>2
  <2>4. h = built(h, m)
    BY <2>3
  <2> HIDE DEF h
  <2>5. \E f : f = built(f, m)
    BY <2>4, Zenon
  <2>6. QED
    BY <2>5
<1>3. Len(list) \in Nat /\ Len(list) \in 0 .. Len(list)
  OBVIOUS
<1>4. Len(list) \in can
  <2> HIDE DEF can
  <2>1. \A n \in 1 .. Len(list) : n - 1 \in can => n \in can
    BY <1>2
  <2>2. QED
    BY <1>1, <1>3, <2>1, Upwards
<1>5. QED
  BY <1>4 DEF NewestFirst

\* github.py's sort loses no release and leaves them newest first.
LEMMA NewestFirstIs ==
  ASSUME NEW S, NEW list \in Seq(S)
  PROVE /\ NewestFirst(list) \in Seq(S)
        /\ Range(NewestFirst(list)) = Range(list)
        /\ Chains(S) => NewestAreFirst(NewestFirst(list))
<1>1. PICK g : /\ g = [n \in 0 .. Len(list) |-> IF n = 0 THEN <<>> ELSE Inserted(g[n - 1], list[n])]
               /\ NewestFirst(list) = g[Len(list)]
  BY NewestIsBuilt
<1> DEFINE Is(n) == /\ g[n] \in Seq(S)
                    /\ Range(g[n]) = {list[a] : a \in 1 .. n}
                    /\ Chains(S) => NewestAreFirst(g[n])
           good == {n \in 0 .. Len(list) : Is(n)}
<1>2. /\ Len(list) \in Nat /\ DOMAIN list = 1 .. Len(list)
      /\ \A a \in 1 .. Len(list) : list[a] \in S
  OBVIOUS
<1>0. \A n \in 0 .. Len(list) : g[n] = IF n = 0 THEN <<>> ELSE Inserted(g[n - 1], list[n])
  BY <1>1
<1>3. g[0] = <<>> /\ \A n \in 1 .. Len(list) : g[n] = Inserted(g[n - 1], list[n])
  BY <1>0, <1>2
<1>4. 0 \in good
  <2>1. g[0] \in Seq(S) /\ DOMAIN g[0] = {}
    BY <1>3
  <2>2. NewestAreFirst(g[0])
    BY <2>1 DEF NewestAreFirst
  <2>3. Range(g[0]) = {} /\ {list[a] : a \in 1 .. 0} = {}
    BY <2>1 DEF Range
  <2>4. QED
    BY <1>2, <2>1, <2>2, <2>3
<1>5. ASSUME NEW n \in 1 .. Len(list), n - 1 \in good PROVE n \in good
  <2>1. Is(n - 1)
    BY <1>5
  <2>2. g[n] = Inserted(g[n - 1], list[n]) /\ list[n] \in S
    BY <1>2, <1>3
  <2>3. /\ g[n] \in Seq(S) /\ Range(g[n]) = Range(g[n - 1]) \cup {list[n]}
        /\ Chains(S) => NewestAreFirst(g[n])
    <3>1. PICK t, r : t = g[n - 1] /\ r = list[n]
      OBVIOUS
    <3>2. t \in Seq(S) /\ r \in S /\ (Chains(S) => NewestAreFirst(t)) /\ g[n] = Inserted(t, r)
      BY <2>1, <2>2, <3>1
    <3>3. QED
      BY <3>1, <3>2, InsertedIs
  <2>4. {list[a] : a \in 1 .. n} = {list[a] : a \in 1 .. (n - 1)} \cup {list[n]}
    <3>1. 1 .. n = (1 .. (n - 1)) \cup {n}
      OBVIOUS
    <3>2. QED
      BY <3>1
  <2>5. Is(n)
    BY <2>1, <2>3, <2>4
  <2>6. QED
    BY <2>5
<1>6. Is(Len(list))
  <2>1. Len(list) \in good
    <3> HIDE DEF good
    <3>1. \A n \in 1 .. Len(list) : n - 1 \in good => n \in good
      BY <1>5
    <3>2. \A n \in 0 .. Len(list) : n \in good
      BY <1>2, <1>4, <3>1, Upwards
    <3>3. QED
      BY <1>2, <3>2
  <2>2. QED
    BY <2>1
<1>7. Range(list) = {list[a] : a \in 1 .. Len(list)}
  BY <1>2 DEF Range
<1>8. QED
  BY <1>1, <1>6, <1>7

\* What is kept of a list that is in order is in order.
LEMMA KeptInOrder ==
  ASSUME NEW S, NEW list \in Seq(S), NEW wanted, NewestAreFirst(list)
  PROVE NewestAreFirst(Kept(list, wanted))
<1>1. SUFFICES ASSUME NEW i \in DOMAIN Kept(list, wanted), NEW j \in DOMAIN Kept(list, wanted), i < j
               PROVE ~Less(Kept(list, wanted)[i].version, Kept(list, wanted)[j].version)
  BY DEF NewestAreFirst
<1>2. PICK a, b \in DOMAIN list : /\ a < b /\ Kept(list, wanted)[i] = list[a]
                                  /\ Kept(list, wanted)[j] = list[b]
  BY <1>1, KeptIs
<1>3. QED
  BY <1>2 DEF NewestAreFirst

(* ------------------------ the order of versions ------------------------- *)

\* The texts of prerelease identifiers, and their numbers.
LEMMA TextsAre ==
  /\ Len(Texts) \in Nat /\ Identifier = 1 .. Len(Texts)
  /\ \A i \in Identifier : /\ Texts[i].number \in Nat \cup {NoNumber}
                           /\ Texts[i].digits \in Nat \cup {NoNumber}
<1> DEFINE S == [number : Nat \cup {NoNumber}, digits : Nat \cup {NoNumber},
                 stem : STRING, keyword : BOOLEAN]
<1>1. Texts \in Seq(S)
  BY TextsAssumption
<1>2. \A t \in S : t.number \in Nat \cup {NoNumber} /\ t.digits \in Nat \cup {NoNumber}
  OBVIOUS
<1> HIDE DEF S
<1>3. Len(Texts) \in Nat /\ DOMAIN Texts = 1 .. Len(Texts) /\ \A i \in DOMAIN Texts : Texts[i] \in S
  BY <1>1
<1>4. QED
  BY <1>2, <1>3 DEF Identifier

\* The order of identifiers is a strict total one where TextsInOrder ranks them.
LEMMA IdentifierOrder ==
  ASSUME TextsInOrder, NEW p \in Identifier, NEW q \in Identifier, NEW r \in Identifier
  PROVE /\ ~IdentifierLess(p, p)
        /\ p # q => IdentifierLess(p, q) \/ IdentifierLess(q, p)
        /\ IdentifierLess(p, q) /\ IdentifierLess(q, r) => IdentifierLess(p, r)
<1>1. /\ p \in Int /\ q \in Int /\ r \in Int
      /\ \A i \in {p, q, r} : Texts[i].number \in Int /\ Texts[i].digits \in Int
  BY TextsAre DEF NoNumber
<1> DEFINE N(i) == Texts[i].number # NoNumber
           Same(i, j) == CountedBy(i, Texts[i].stem) /\ CountedBy(j, Texts[i].stem)
<1>2. \A i, j \in {p, q, r} :
        IdentifierLess(i, j) <=>
          IF N(i) /\ N(j) THEN Texts[i].number < Texts[j].number
          ELSE IF ~(N(i) <=> N(j)) THEN N(i)
          ELSE IF Same(i, j) THEN Texts[i].digits < Texts[j].digits ELSE i < j
  BY DEF IdentifierLess, CountedBy
<1>3. \A i, j \in {p, q, r} : N(i) /\ Texts[i].number = Texts[j].number => i = j
  BY DEF TextsInOrder
<1>4. \A i, j \in {p, q, r} : Same(i, j) => (Texts[i].digits = Texts[j].digits => i = j)
  BY DEF TextsInOrder
<1>5. \A i, j, k \in {p, q, r} : Same(i, j) /\ ~(k < i) /\ ~(j < k) => Same(i, k)
  <2>1. \A i, j, k \in {p, q, r} : ~(k < i) /\ ~(j < k) => k \in i .. j
    BY <1>1
  <2>2. QED
    BY <2>1 DEF TextsInOrder
<1>6. \A i, j, k \in {p, q, r} : (Same(i, j) <=> Same(j, i)) /\ (Same(i, j) /\ Same(j, k) => Same(i, k))
  BY DEF CountedBy
<1>7. \A i, j \in {p, q, r} : Same(i, j) => ~N(i) /\ ~N(j)
  BY DEF CountedBy
<1> HIDE DEF N, Same
<1>8. ~IdentifierLess(p, p)
  BY <1>1, <1>2
<1>9. ASSUME p # q PROVE IdentifierLess(p, q) \/ IdentifierLess(q, p)
  <2>1. CASE N(p) \/ N(q)
    BY <1>1, <1>2, <1>3, <1>9, <2>1
  <2>2. CASE ~N(p) /\ ~N(q) /\ Same(p, q)
    <3>1. Texts[p].digits # Texts[q].digits /\ Same(q, p)
      BY <1>4, <1>6, <1>9, <2>2
    <3>2. QED
      BY <1>1, <1>2, <2>2, <3>1
  <2>3. CASE ~N(p) /\ ~N(q) /\ ~Same(p, q)
    <3>1. ~Same(q, p)
      BY <1>6, <2>3
    <3>2. p < q \/ q < p
      BY <1>1, <1>9
    <3>3. QED
      BY <1>2, <2>3, <3>1, <3>2
  <2>4. QED
    BY <2>1, <2>2, <2>3
<1>10. ASSUME IdentifierLess(p, q), IdentifierLess(q, r) PROVE IdentifierLess(p, r)
  <2>1. CASE N(p) \/ N(q) \/ N(r)
    BY <1>1, <1>2, <1>10, <2>1
  <2>2. CASE ~N(p) /\ ~N(q) /\ ~N(r) /\ Same(p, q)
    BY <1>1, <1>2, <1>5, <1>6, <1>10, <2>2
  <2>3. CASE ~N(p) /\ ~N(q) /\ ~N(r) /\ ~Same(p, q) /\ Same(q, r)
    BY <1>1, <1>2, <1>5, <1>6, <1>10, <2>3
  <2>4. CASE ~N(p) /\ ~N(q) /\ ~N(r) /\ ~Same(p, q) /\ ~Same(q, r)
    <3>1. p < q /\ q < r
      BY <1>2, <1>10, <2>4
    <3>2. ~Same(p, r)
      BY <1>1, <1>5, <2>4, <3>1
    <3>3. p < r
      BY <1>1, <3>1
    <3>4. QED
      BY <1>2, <2>4, <3>2, <3>3
  <2>5. QED
    BY <2>1, <2>2, <2>3, <2>4
<1>11. QED
  BY <1>8, <1>9, <1>10

\* So is that of the four numbers of a version, the first that differs deciding.
LEMMA MainOrder ==
  ASSUME NEW a \in [1 .. 4 -> Nat], NEW b \in [1 .. 4 -> Nat], NEW c \in [1 .. 4 -> Nat]
  PROVE /\ ~MainLess(a, a)
        /\ a # b => MainLess(a, b) \/ MainLess(b, a)
        /\ MainLess(a, b) /\ MainLess(b, c) => MainLess(a, c)
        /\ MainLess(a, b) => a # b /\ ~MainLess(b, a)
<1> DEFINE Lex(x, y) ==
      \/ x[1] < y[1]
      \/ x[1] = y[1] /\ x[2] < y[2]
      \/ x[1] = y[1] /\ x[2] = y[2] /\ x[3] < y[3]
      \/ x[1] = y[1] /\ x[2] = y[2] /\ x[3] = y[3] /\ x[4] < y[4]
<1>1. \A x, y \in [1 .. 4 -> Nat] : MainLess(x, y) <=> Lex(x, y)
  <2>1. SUFFICES ASSUME NEW x \in [1 .. 4 -> Nat], NEW y \in [1 .. 4 -> Nat]
                 PROVE MainLess(x, y) <=> Lex(x, y)
    OBVIOUS
  <2>2. 1 .. 4 = {1, 2, 3, 4} /\ 1 .. 0 = {} /\ 1 .. 1 = {1} /\ 1 .. 2 = {1, 2} /\ 1 .. 3 = {1, 2, 3}
        /\ 1 - 1 = 0 /\ 2 - 1 = 1 /\ 3 - 1 = 2 /\ 4 - 1 = 3
    OBVIOUS
  <2>3. QED
    BY <2>2 DEF MainLess
<1>2. \A x \in {a, b, c} : x[1] \in Nat /\ x[2] \in Nat /\ x[3] \in Nat /\ x[4] \in Nat
  OBVIOUS
<1>3. a[1] = b[1] /\ a[2] = b[2] /\ a[3] = b[3] /\ a[4] = b[4] => a = b
  <2>1. \A i \in 1 .. 4 : i = 1 \/ i = 2 \/ i = 3 \/ i = 4
    OBVIOUS
  <2>2. QED
    BY <2>1
<1>4. QED
  BY <1>1, <1>2, <1>3

\* So is that of two lists of identifiers, the shorter one first when it begins the other.
LEMMA PreOrder ==
  ASSUME TextsInOrder, NEW p \in Seq(Identifier), NEW q \in Seq(Identifier), NEW r \in Seq(Identifier)
  PROVE /\ ~PreLess(p, p)
        /\ p # q => PreLess(p, q) \/ PreLess(q, p)
        /\ PreLess(p, q) /\ PreLess(q, r) => PreLess(p, r)
<1>1. /\ Len(p) \in Nat /\ Len(q) \in Nat /\ Len(r) \in Nat
      /\ DOMAIN p = 1 .. Len(p) /\ DOMAIN q = 1 .. Len(q) /\ DOMAIN r = 1 .. Len(r)
      /\ \A i \in DOMAIN p : p[i] \in Identifier
      /\ \A i \in DOMAIN q : q[i] \in Identifier
      /\ \A i \in DOMAIN r : r[i] \in Identifier
  OBVIOUS
<1>2. ~PreLess(p, p)
  BY <1>1 DEF PreLess
<1>3. ASSUME p # q PROVE PreLess(p, q) \/ PreLess(q, p)
  <2> DEFINE differ == {i \in DOMAIN p \cap DOMAIN q : p[i] # q[i]}
  <2>1. CASE differ = {}
    <3>1. \A i \in DOMAIN p \cap DOMAIN q : p[i] = q[i]
      BY <2>1
    <3>2. Len(p) # Len(q)
      <4>1. p \in [1 .. Len(p) -> Identifier] /\ q \in [1 .. Len(q) -> Identifier]
        OBVIOUS
      <4>2. SUFFICES ASSUME Len(p) = Len(q) PROVE p = q
        BY <1>3
      <4>3. QED
        BY <1>1, <3>1, <4>1, <4>2
    <3>3. CASE Len(p) < Len(q)
      <4>1. \A i \in DOMAIN p : p[i] = q[i]
        BY <1>1, <3>1, <3>3
      <4>2. QED
        BY <3>3, <4>1 DEF PreLess
    <3>4. CASE Len(q) < Len(p)
      <4>1. \A i \in DOMAIN q : q[i] = p[i]
        BY <1>1, <3>1, <3>4
      <4>2. QED
        BY <3>4, <4>1 DEF PreLess
    <3>5. Len(p) < Len(q) \/ Len(q) < Len(p)
      <4>1. Len(p) \in Nat /\ Len(q) \in Nat
        BY <1>1
      <4>2. QED
        BY <3>2, <4>1
    <3>6. QED
      BY <3>3, <3>4, <3>5
  <2>2. CASE differ # {}
    <3>1. differ \in SUBSET Nat
      BY <1>1
    <3> HIDE DEF differ
    <3>2. PICK m \in differ : \A k \in differ : m <= k
      BY <2>2, <3>1, LeastExists
    <3>3. m \in DOMAIN p \cap DOMAIN q /\ p[m] # q[m] /\ m \in Nat
      BY <1>1, <3>2 DEF differ
    <3>4. \A j \in 1 .. (m - 1) : p[j] = q[j]
      BY <1>1, <3>2, <3>3 DEF differ
    <3>5. IdentifierLess(p[m], q[m]) \/ IdentifierLess(q[m], p[m])
      BY <1>1, <3>3, IdentifierOrder
    <3>6. QED
      BY <3>3, <3>4, <3>5 DEF PreLess
  <2>3. QED
    BY <2>1, <2>2
<1>4. ASSUME PreLess(p, q), PreLess(q, r) PROVE PreLess(p, r)
  <2> DEFINE First(x, y, i) == /\ i \in DOMAIN x \cap DOMAIN y /\ x[i] # y[i]
                               /\ \A j \in 1 .. (i - 1) : x[j] = y[j]
                               /\ IdentifierLess(x[i], y[i])
             Begins(x, y) == Len(x) < Len(y) /\ \A i \in DOMAIN x : x[i] = y[i]
  <2>1. \A x, y : PreLess(x, y) <=> (\E i : First(x, y, i)) \/ Begins(x, y)
    BY DEF PreLess
  <2>2. ASSUME NEW i, NEW j, First(p, q, i), First(q, r, j) PROVE PreLess(p, r)
    <3>1. i \in Nat /\ j \in Nat /\ i # 0 /\ j # 0
      BY <1>1, <2>2
    <3>2. CASE i < j
      <4>1. q[i] = r[i] /\ i \in DOMAIN r /\ \A k \in 1 .. (i - 1) : q[k] = r[k]
        BY <1>1, <2>2, <3>1, <3>2
      <4>2. First(p, r, i)
        BY <2>2, <4>1
      <4>3. QED
        BY <2>1, <4>2
    <3>3. CASE j < i
      <4>1. p[j] = q[j] /\ j \in DOMAIN p /\ \A k \in 1 .. (j - 1) : p[k] = q[k]
        BY <1>1, <2>2, <3>1, <3>3
      <4>2. First(p, r, j)
        BY <2>2, <4>1
      <4>3. QED
        BY <2>1, <4>2
    <3>4. CASE i = j
      <4>1. p[i] \in Identifier /\ q[i] \in Identifier /\ r[i] \in Identifier
        BY <1>1, <2>2, <3>4
      <4>2. IdentifierLess(p[i], r[i]) /\ p[i] # r[i]
        <5>1. IdentifierLess(p[i], r[i])
          BY <2>2, <3>4, <4>1, IdentifierOrder
        <5>2. ~IdentifierLess(p[i], p[i])
          BY <4>1, IdentifierOrder
        <5>3. QED
          BY <5>1, <5>2
      <4>3. First(p, r, i)
        BY <2>2, <3>4, <4>2
      <4>4. QED
        BY <2>1, <4>3
    <3>5. QED
      BY <3>1, <3>2, <3>3, <3>4
  <2>3. ASSUME NEW i, First(p, q, i), Begins(q, r) PROVE PreLess(p, r)
    <3>1. i \in DOMAIN r /\ r[i] = q[i] /\ \A j \in 1 .. (i - 1) : r[j] = q[j]
      BY <1>1, <2>3
    <3>2. First(p, r, i)
      BY <2>3, <3>1
    <3>3. QED
      BY <2>1, <3>2
  <2>4. ASSUME NEW j, Begins(p, q), First(q, r, j) PROVE PreLess(p, r)
    <3>1. CASE j \in DOMAIN p
      <4>1. p[j] = q[j] /\ \A k \in 1 .. (j - 1) : p[k] = q[k]
        BY <1>1, <2>4, <3>1
      <4>2. First(p, r, j)
        BY <2>4, <3>1, <4>1
      <4>3. QED
        BY <2>1, <4>2
    <3>2. CASE j \notin DOMAIN p
      <4>1. Len(p) < Len(r) /\ \A k \in DOMAIN p : k \in 1 .. (j - 1)
        BY <1>1, <2>4, <3>2
      <4>2. Begins(p, r)
        BY <2>4, <4>1
      <4>3. QED
        BY <2>1, <4>2
    <3>3. QED
      BY <3>1, <3>2
  <2>5. ASSUME Begins(p, q), Begins(q, r) PROVE PreLess(p, r)
    <3>1. Begins(p, r)
      BY <1>1, <2>5
    <3>2. QED
      BY <2>1, <3>1
  <2> HIDE DEF First, Begins
  <2>6. QED
    BY <1>4, <2>1, <2>2, <2>3, <2>4, <2>5
<1>5. QED
  BY <1>2, <1>3, <1>4

\* The order of releases (domain/semver.py, Version.__lt__) is a strict total order:
\* whichever two the solver sorts by, one of them is newer, and never in a circle.
THEOREM VersionOrder ==
  ASSUME TextsInOrder, NEW u \in Version, NEW v \in Version, NEW w \in Version
  PROVE /\ ~Less(u, u) /\ (u # v => (Less(u, v) <=> ~Less(v, u)))
        /\ Less(u, v) /\ Less(v, w) => Less(u, w)
<1>1. \A x \in {u, v, w} : x.main \in [1 .. 4 -> Nat] /\ x.pre \in Seq(Identifier)
                           /\ x = [main |-> x.main, pre |-> x.pre]
  BY DEF Version
<1>2. \A x \in {u, v, w} : Rank(x) \in {0, 1, 2}
  BY DEF Rank
<1>3. \A x, y, z \in {u, v, w} :
        /\ ~MainLess(x.main, x.main) /\ ~PreLess(x.pre, x.pre)
        /\ x.main # y.main => MainLess(x.main, y.main) \/ MainLess(y.main, x.main)
        /\ MainLess(x.main, y.main) /\ MainLess(y.main, z.main) => MainLess(x.main, z.main)
        /\ MainLess(x.main, y.main) => x.main # y.main /\ ~MainLess(y.main, x.main)
        /\ x.pre # y.pre => PreLess(x.pre, y.pre) \/ PreLess(y.pre, x.pre)
        /\ PreLess(x.pre, y.pre) /\ PreLess(y.pre, z.pre) => PreLess(x.pre, z.pre)
  BY <1>1, MainOrder, PreOrder
<1>4. \A x, y \in {u, v, w} :
        Less(x, y) <=> \/ MainLess(x.main, y.main)
                       \/ x.main = y.main /\ Rank(x) < Rank(y)
                       \/ x.main = y.main /\ Rank(x) = Rank(y) /\ PreLess(x.pre, y.pre)
  BY DEF Less
<1>5. \A x, y \in {u, v, w} : x # y => x.main # y.main \/ x.pre # y.pre
  BY <1>1
<1>6. ~Less(u, u)
  BY <1>2, <1>3, <1>4
<1>7. \A x, y, z \in {u, v, w} : Less(x, y) /\ Less(y, z) => Less(x, z)
  BY <1>2, <1>3, <1>4
<1>8. ASSUME u # v PROVE Less(u, v) \/ Less(v, u)
  BY <1>2, <1>3, <1>4, <1>5, <1>8
<1>9. ~(Less(u, v) /\ Less(v, u))
  BY <1>6, <1>7
<1>10. QED
  BY <1>6, <1>7, <1>8, <1>9

\* Without prereleases only the four numbers count.
LEMMA PlainOrder ==
  ASSUME NEW v \in Version, NEW w \in Version, ~Pre(v), ~Pre(w)
  PROVE /\ Less(v, w) <=> MainLess(v.main, w.main)
        /\ AtMost(v, w) <=> ~MainLess(w.main, v.main)
        /\ v = w <=> v.main = w.main
<1>1. \A x \in {v, w} : /\ x.main \in [1 .. 4 -> Nat] /\ x.pre = <<>>
                        /\ x = [main |-> x.main, pre |-> x.pre]
  BY DEF Version, Pre
<1>2. Rank(v) = 1 /\ Rank(w) = 1
  BY DEF Rank
<1>3. ~PreLess(<<>>, <<>>)
  BY DEF PreLess
<1>4. Less(v, w) <=> MainLess(v.main, w.main)
  BY <1>1, <1>2, <1>3 DEF Less
<1>5. v = w <=> v.main = w.main
  BY <1>1
<1>6. /\ v.main # w.main => MainLess(v.main, w.main) \/ MainLess(w.main, v.main)
      /\ MainLess(v.main, w.main) => v.main # w.main /\ ~MainLess(w.main, v.main)
      /\ ~MainLess(w.main, w.main)
  BY <1>1, MainOrder
<1>7. AtMost(v, w) <=> ~MainLess(w.main, v.main)
  BY <1>4, <1>5, <1>6 DEF AtMost
<1>8. QED
  BY <1>4, <1>5, <1>7

\* The solver's reader of a range (semver.py) and the verdict's (compat.py) do not
\* disagree on a canonical one.
LEMMA ReadersAgree ==
  ASSUME NEW v \in Version, NEW ranges, IsRange(ranges), Canonical(ranges)
  PROVE Satisfies(v, ranges) <=> RangeAllows(v, ranges)
<1>1. CASE Suffixed(v, ranges)
  BY <1>1 DEF RangeAllows
<1>2. CASE ~Suffixed(v, ranges)
  <2>1. ~Pre(v) /\ \A branch \in ranges : \A token \in branch : ~Pre(token.at)
    BY <1>2 DEF Suffixed
  <2>2. \A branch \in ranges : branch # {}
    BY DEF Canonical, ValidRange
  <2>3. ASSUME NEW branch \in ranges, NEW token \in branch
        PROVE MatchToken(v, token) <=> TokenAllows(v, token)
    <3>1. /\ token.op \in Operators /\ token.op \notin {"^", "~"} /\ token.at \in Version
          /\ ~Pre(token.at)
      BY <2>1 DEF IsRange, Canonical
    <3>2. /\ Less(v, token.at) <=> MainLess(v.main, token.at.main)
          /\ AtMost(v, token.at) <=> ~MainLess(token.at.main, v.main)
          /\ v = token.at <=> v.main = token.at.main
      BY <2>1, <3>1, PlainOrder
    <3>3. token.op \in {"any", "n.x", "n.n.x", "<", "<=", ">", ">=", "="}
      BY <3>1 DEF Operators
    <3> HIDE DEF Operators
    <3>4. CASE token.op \in {"any", "n.x", "n.n.x"}
      BY <3>4 DEF MatchToken, TokenAllows
    <3>5. CASE token.op \in {"<", ">="}
      BY <3>2, <3>5 DEF MatchToken, TokenAllows
    <3>6. CASE token.op \in {"<=", ">"}
      BY <3>2, <3>6 DEF MatchToken, TokenAllows
    <3>7. CASE token.op = "="
      BY <3>2, <3>7 DEF MatchToken, TokenAllows
    <3>8. QED
      BY <3>3, <3>4, <3>5, <3>6, <3>7
  <2>4. QED
    BY <1>2, <2>2, <2>3 DEF Satisfies, RangeAllows
<1>3. QED
  BY <1>1, <1>2

(* ----------------------------- the registry ----------------------------- *)

\* What an index promises of the packages the search is made among.
LEMMA PackagesAre ==
  ASSUME index \in Indexes
  PROVE /\ IsList(Packages)
        /\ \A p \in Range(Packages) :
             /\ p.id # Nothing /\ IsList(p.releases) /\ IsList(p.dependencies) /\ IsList(p.types)
             /\ \A r \in Range(p.releases) : r.version \in Version
             /\ p.listed => NewestAreFirst(p.releases)
BY IndexAssumption, JoinedIs DEF Packages

\* The package of an id.
LEMMA GetIs ==
  ASSUME NEW id \in Ids
  PROVE Get(id) \in Range(Packages) /\ Get(id).id = id
<1>1. \E p \in Range(Packages) : p.id = id
  BY DEF Ids
<1>2. QED
  BY <1>1 DEF Get

\* In a registry that was accepted the package of a package's id is itself.
LEMMA GetOwn ==
  ASSUME index \in Indexes, ValidPackages(Packages), NEW q \in Range(Packages)
  PROVE q.id \in Ids /\ Get(q.id) = q
<1>1. q.id \in Ids
  BY DEF Ids
<1>2. PICK other : other = Get(q.id) /\ other \in Range(Packages) /\ other.id = q.id
  BY <1>1, GetIs
<1>3. IsList(Packages)
  BY PackagesAre
<1>4. PICK i, j \in DOMAIN Packages : Packages[i] = q /\ Packages[j] = other
  BY <1>2, <1>3, ListBasics
<1>5. i = j
  BY <1>2, <1>4 DEF ValidPackages
<1>6. QED
  BY <1>1, <1>2, <1>4, <1>5

\* The releases the client offers are some of the package's, newest first.
LEMMA ReleasesAre ==
  ASSUME NEW p, IsList(p.releases), p.listed => NewestAreFirst(p.releases)
  PROVE /\ IsList(Releases(p)) /\ Range(Releases(p)) \subseteq Range(p.releases)
        /\ Chains(Range(p.releases)) => NewestAreFirst(Releases(p))
<1> DEFINE S == Range(p.releases)
           T == {r \in S : ~r.draft /\ (p.suffixed \/ ~(r.prerelease \/ Pre(r.version)))}
<1>1. p.releases \in Seq(S)
  BY DEF IsList
<1>2. CASE p.listed
  BY <1>2 DEF Releases
<1>3. CASE ~p.listed
  <2>1. Kept(p.releases, T) \in Seq(S)
    BY <1>1, KeptIs
  <2>2. Releases(p) = NewestFirst(Kept(p.releases, T))
    BY <1>3 DEF Releases
  <2> HIDE DEF T
  <2>3. Releases(p) \in Seq(S) /\ (Chains(S) => NewestAreFirst(Releases(p)))
    BY <2>1, <2>2, NewestFirstIs
  <2>4. QED
    BY <2>3, ListIs
<1>4. QED
  BY <1>2, <1>3

\* Solver._candidates: those that install here and fit every wish, newest first.
LEMMA CandidatesAre ==
  ASSUME NEW p, NEW ranges, IsList(p.releases), p.listed => NewestAreFirst(p.releases)
  PROVE /\ IsList(Candidates(p, ranges))
        /\ Range(Candidates(p, ranges)) =
             {r \in Range(Releases(p)) : /\ r.assets /\ ~EnvBlocks(p, r)
                                         /\ \A wanted \in ranges : Satisfies(r.version, wanted)}
        /\ Chains(Range(p.releases)) => NewestAreFirst(Candidates(p, ranges))
<1> DEFINE S == Range(Releases(p))
           T == {r \in S : r.assets}
           U == {r \in Range(Installable(p)) : /\ ~EnvBlocks(p, r)
                                               /\ \A wanted \in ranges : Satisfies(r.version, wanted)}
<1>1. Releases(p) \in Seq(S)
  BY ReleasesAre DEF IsList
<1>2. Installable(p) = Kept(Releases(p), T)
  BY DEF Installable
<1> HIDE DEF T
<1>3. Installable(p) \in Seq(S) /\ Range(Installable(p)) = S \cap T
  BY <1>1, <1>2, KeptIs
<1>4. Candidates(p, ranges) = Kept(Installable(p), U)
  BY DEF Candidates
<1> HIDE DEF U
<1>5. Candidates(p, ranges) \in Seq(S) /\ Range(Candidates(p, ranges)) = Range(Installable(p)) \cap U
  BY <1>3, <1>4, KeptIs
<1>6. Range(Candidates(p, ranges)) =
        {r \in S : /\ r.assets /\ ~EnvBlocks(p, r)
                   /\ \A wanted \in ranges : Satisfies(r.version, wanted)}
  BY <1>3, <1>5 DEF T, U
<1>7. Chains(Range(p.releases)) => NewestAreFirst(Candidates(p, ranges))
  BY <1>1, <1>2, <1>3, <1>4, ReleasesAre, KeptInOrder
<1>8. QED
  BY <1>5, <1>6, <1>7, ListIs

\* Any releases of an index are in the order of their versions.
LEMMA ReleasesChain ==
  ASSUME TextsInOrder, index \in Indexes, NEW p \in Range(Packages) PROVE Chains(Range(p.releases))
<1>1. \A r \in Range(p.releases) : r.version \in Version
  BY PackagesAre
<1>2. \A q, r, s \in Range(p.releases) :
        /\ ~Less(q.version, q.version)
        /\ Less(q.version, r.version) /\ Less(r.version, s.version) => Less(q.version, s.version)
  BY <1>1, VersionOrder
<1>3. QED
  BY <1>2 DEF Chains

(* ------------------------- what a release needs ------------------------- *)

\* The loader chosen for a type is one that supplies it.
LEMMA LoaderSupplies ==
  ASSUME NEW p, NEW type, NEW declared, IsList(Packages), LoaderForType(p, type, declared).error = "none"
  PROVE \/ ProvidersForType(type) = <<>> \/ p \in Range(ProvidersForType(type))
        \/ \E q \in Range(ProvidersForType(type)) : q.id = LoaderForType(p, type, declared).id
<1> DEFINE all == ProvidersForType(type)
           named == Kept(all, {q \in Range(all) : q.id \in declared})
           covering == Kept(all, {q \in Range(all) : CoveringRows(q) # {}})
           present == Kept(all, {q \in Range(all) : q.id \in DOMAIN machine.records})
           asked == Known(env, env.gameId) /\ Table # <<>>
           s == LoaderForType(p, type, declared)
<1>1. SUFFICES ASSUME all # <<>>, p \notin Range(all) PROVE \E q \in Range(all) : q.id = s.id
  OBVIOUS
<1>2. IsList(all)
  BY KeptIsIn DEF ProvidersForType
<1>3. /\ IsList(named) /\ Range(named) \subseteq Range(all)
      /\ IsList(covering) /\ Range(covering) \subseteq Range(all)
      /\ IsList(present) /\ Range(present) \subseteq Range(all)
  BY <1>2, KeptIsIn
<1>4. \A q \in Range(all) : \A r : Supplier(q, r).id = q.id
  BY DEF Supplier
<1>5. NoSupplier("no provider for this game").error # "none" /\ NoSupplier("no provider installed").error # "none"
      /\ NoSupplier("several providers installed").error # "none"
  BY DEF NoSupplier
<1>6. s = CASE all = <<>> \/ p \in Range(all) -> NoSupplier("none")
            [] Len(all) = 1 /\ p \notin Range(all) -> Supplier(all[1], AnyRange)
            [] Len(all) > 1 /\ p \notin Range(all) /\ named # <<>> -> Supplier(named[1], AnyRange)
            [] OTHER ->
                IF asked /\ covering = <<>> THEN NoSupplier("no provider for this game")
                ELSE IF asked /\ Len(covering) = 1
                THEN Supplier(covering[1], RowsVersionRange(covering[1]))
                ELSE IF Len(present) = 1 THEN Supplier(present[1], AnyRange)
                ELSE NoSupplier(IF present = <<>> THEN "no provider installed"
                                ELSE "several providers installed")
  BY DEF LoaderForType
<1>7. s.error = "none"
  OBVIOUS
<1>8. Len(covering) = 1 => covering # <<>>
  OBVIOUS
<1>9. Len(present) = 1 => present # <<>>
  OBVIOUS
<1> HIDE DEF all, named, covering, present, asked, s
<1>10. CASE Len(all) = 1
  BY <1>1, <1>2, <1>4, <1>6, <1>10, FirstIsIn
<1>11. CASE Len(all) > 1 /\ named # <<>>
  <2>1. s = Supplier(named[1], AnyRange)
    BY <1>1, <1>6, <1>11
  <2>2. QED
    BY <1>3, <1>4, <1>11, <2>1, FirstIsIn
<1>12. CASE ~(Len(all) = 1) /\ ~(Len(all) > 1 /\ named # <<>>)
  <2>1. s = IF asked /\ covering = <<>> THEN NoSupplier("no provider for this game")
            ELSE IF asked /\ Len(covering) = 1
            THEN Supplier(covering[1], RowsVersionRange(covering[1]))
            ELSE IF Len(present) = 1 THEN Supplier(present[1], AnyRange)
            ELSE NoSupplier(IF present = <<>> THEN "no provider installed"
                            ELSE "several providers installed")
    BY <1>1, <1>6, <1>12
  <2>2. \/ s = Supplier(covering[1], RowsVersionRange(covering[1])) /\ covering # <<>>
        \/ s = Supplier(present[1], AnyRange) /\ present # <<>>
    <3>1. CASE asked /\ covering = <<>>
      BY <1>5, <1>7, <2>1, <3>1
    <3>2. CASE asked /\ covering # <<>> /\ Len(covering) = 1
      <4>1. s = Supplier(covering[1], RowsVersionRange(covering[1]))
        BY <2>1, <3>2, Zenon
      <4>2. QED
        BY <3>2, <4>1
    <3>3. CASE ~(asked /\ covering = <<>>) /\ ~(asked /\ Len(covering) = 1) /\ Len(present) = 1
      BY <1>9, <2>1, <3>3
    <3>4. CASE ~(asked /\ covering = <<>>) /\ ~(asked /\ Len(covering) = 1) /\ Len(present) # 1
      <4>1. s = NoSupplier(IF present = <<>> THEN "no provider installed"
                           ELSE "several providers installed")
        BY <2>1, <3>4
      <4>2. s.error # "none"
        BY <1>5, <4>1
      <4>3. QED
        BY <1>7, <4>2
    <3>5. QED
      BY <3>1, <3>2, <3>3, <3>4
  <2>3. QED
    BY <1>3, <1>4, <2>2, FirstIsIn
<1>13. QED
  BY <1>10, <1>11, <1>12

\* What the choice of a loader can say.
Errors == {"none", "no provider for this game", "no provider installed", "several providers installed"}

LEMMA ErrorsAre ==
  ASSUME NEW p, NEW type, NEW declared
  PROVE LoaderForType(p, type, declared).error \in Errors
<1>1. \A id, r : Supplier(id, r).error \in Errors
  BY DEF Supplier, Errors
<1>2. \A e \in Errors : NoSupplier(e).error \in Errors
  BY DEF NoSupplier
<1>3. /\ "none" \in Errors /\ "no provider for this game" \in Errors
      /\ "no provider installed" \in Errors /\ "several providers installed" \in Errors
  BY DEF Errors
<1>4. QED
  BY <1>1, <1>2, <1>3 DEF LoaderForType

\* A declared type is supplied by the package itself, by nobody, or by a dependency.
Supplied(p, type, deps) ==
  \/ ProvidersForType(type) = <<>> \/ p \in Range(ProvidersForType(type))
  \/ \E q \in Range(ProvidersForType(type)) : q.id \in {d.id : d \in Range(deps)}

\* The recursive function inside DependenciesFor, under a name.
LEMMA DependenciesAreBuilt ==
  ASSUME NEW p, NEW r, Len(p.types) \in Nat
  PROVE \E g : /\ g = [n \in 0 .. Len(p.types) |->
                        IF n = 0 THEN [deps |-> Declared(p, r), error |-> "none"]
                        ELSE WithLoader(p, g[n - 1], p.types[n])]
               /\ DependenciesFor(p, r) = g[Len(p.types)]
<1> DEFINE built(g, m) == [n \in 0 .. m |->
                             IF n = 0 THEN [deps |-> Declared(p, r), error |-> "none"]
                             ELSE WithLoader(p, g[n - 1], p.types[n])]
           can == {m \in Nat : \E g : g = built(g, m)}
<1>1. 0 \in can
  <2> DEFINE g == [n \in 0 .. 0 |-> [deps |-> Declared(p, r), error |-> "none"]]
  <2>1. g = built(g, 0)
    OBVIOUS
  <2>2. QED
    BY <2>1
<1>2. ASSUME NEW m \in 1 .. Len(p.types), m - 1 \in can PROVE m \in can
  <2>1. PICK g : g = built(g, m - 1)
    BY <1>2
  <2> DEFINE h == [n \in 0 .. m |-> IF n = m THEN WithLoader(p, g[m - 1], p.types[n]) ELSE g[n]]
  <2>2. \A n \in 0 .. (m - 1) : g[n] = (IF n = 0 THEN [deps |-> Declared(p, r), error |-> "none"]
                             ELSE WithLoader(p, g[n - 1], p.types[n]))
    BY <2>1
  <2>3. \A n \in 0 .. m : h[n] = (IF n = 0 THEN [deps |-> Declared(p, r), error |-> "none"]
                             ELSE WithLoader(p, h[n - 1], p.types[n]))
    BY <2>2
  <2>4. h = built(h, m)
    BY <2>3
  <2> HIDE DEF h
  <2>5. \E f : f = built(f, m)
    BY <2>4, Zenon
  <2>6. QED
    BY <2>5
<1>3. Len(p.types) \in 0 .. Len(p.types)
  OBVIOUS
<1>4. Len(p.types) \in can
  <2> HIDE DEF can
  <2>1. \A n \in 1 .. Len(p.types) : n - 1 \in can => n \in can
    BY <1>2
  <2>2. QED
    BY <1>1, <1>3, <2>1, Upwards
<1>5. QED
  BY <1>4 DEF DependenciesFor

\* One declared type more: nothing needed is lost, and what supplies it is needed.
LEMMA LoaderAdds ==
  ASSUME NEW p, NEW type, NEW found, IsList(Packages), \A q \in Range(Packages) : q.id # Nothing,
         IsList(found.deps), found = [deps |-> found.deps, error |-> found.error], found.error \in Errors
  PROVE LET next == WithLoader(p, found, type)
        IN /\ IsList(next.deps) /\ next = [deps |-> next.deps, error |-> next.error]
           /\ Range(found.deps) \subseteq Range(next.deps) /\ next.error \in Errors
           /\ next.error = "none" => found.error = "none" /\ Supplied(p, type, next.deps)
<1> DEFINE ids == {d.id : d \in Range(found.deps)}
           supplier == LoaderForType(p, type, ids)
           new == [id |-> supplier.id, range |-> supplier.range, when |-> AnyRange]
           next == WithLoader(p, found, type)
<1>1. next = IF found.error # "none" THEN found
             ELSE IF supplier.error # "none" THEN [found EXCEPT !.error = supplier.error]
             ELSE IF supplier.id \in ids \cup {Nothing} THEN found
             ELSE [found EXCEPT !.deps = Append(@, new)]
  BY DEF WithLoader, AddSupplier
<1>2. /\ IsList(Append(found.deps, new))
      /\ Range(Append(found.deps, new)) = Range(found.deps) \cup {new}
  <2> DEFINE S == Range(found.deps) \cup {new}
             list == found.deps
  <2>1. list \in Seq(S) /\ new \in S
    <3>1. list \in Seq(Range(found.deps))
      BY DEF IsList
    <3>2. Range(found.deps) \subseteq S
      OBVIOUS
    <3> HIDE DEF list, S
    <3>3. list \in Seq(S)
      BY <3>1, <3>2
    <3>4. new \in S
      BY DEF S
    <3>5. QED
      BY <3>3, <3>4
  <2> HIDE DEF S, new, list
  <2>2. /\ Append(list, new) \in Seq(S) /\ DOMAIN Append(list, new) = 1 .. (Len(list) + 1)
        /\ DOMAIN list = 1 .. Len(list) /\ Len(list) \in Nat
        /\ \A i \in 1 .. Len(list) : Append(list, new)[i] = list[i]
        /\ Append(list, new)[Len(list) + 1] = new
    BY <2>1
  <2>3. Range(Append(list, new)) = Range(list) \cup {new}
    BY <2>2 DEF Range
  <2>4. QED
    BY <2>2, <2>3, ListIs DEF list
<1>3. ASSUME supplier.error = "none"
      PROVE \/ ProvidersForType(type) = <<>> \/ p \in Range(ProvidersForType(type))
            \/ \E q \in Range(ProvidersForType(type)) : q.id = supplier.id
  BY <1>3, LoaderSupplies
<1>4. Range(ProvidersForType(type)) \subseteq Range(Packages)
  BY KeptIsIn DEF ProvidersForType
<1>5. new.id = supplier.id
  OBVIOUS
<1>11. supplier.error \in Errors
  BY ErrorsAre
<1> HIDE DEF supplier, new, next
<1>6. CASE found.error # "none"
  BY <1>1, <1>6 DEF next
<1>7. CASE found.error = "none" /\ supplier.error # "none"
  <2>1. next = [deps |-> found.deps, error |-> supplier.error]
    BY <1>1, <1>7
  <2>2. QED
    BY <1>7, <1>11, <2>1 DEF next
<1>8. CASE found.error = "none" /\ supplier.error = "none" /\ supplier.id \in ids \cup {Nothing}
  <2>1. next = found
    BY <1>1, <1>8
  <2>2. Supplied(p, type, found.deps)
    BY <1>3, <1>4, <1>8 DEF Supplied
  <2>3. QED
    BY <1>8, <2>1, <2>2 DEF next
<1>9. CASE found.error = "none" /\ supplier.error = "none" /\ supplier.id \notin ids \cup {Nothing}
  <2>1. next = [deps |-> Append(found.deps, new), error |-> "none"]
    BY <1>1, <1>9
  <2>2. Supplied(p, type, next.deps)
    <3>1. supplier.id \in {d.id : d \in Range(next.deps)}
      BY <1>2, <1>5, <2>1
    <3>2. QED
      BY <1>3, <1>9, <3>1 DEF Supplied
  <2>3. QED
    BY <1>2, <1>9, <1>11, <2>1, <2>2 DEF next
<1>10. QED
  BY <1>6, <1>7, <1>8, <1>9

\* Solver._dependencies_for: whatever a package declares has a supplier among what
\* it needs, unless an error ends the question.
LEMMA DependenciesAre ==
  ASSUME NEW p, NEW r, IsList(Packages), \A q \in Range(Packages) : q.id # Nothing,
         IsList(p.types), IsList(p.dependencies)
  PROVE /\ IsList(DependenciesFor(p, r).deps) /\ DependenciesFor(p, r).error \in Errors
        /\ DependenciesFor(p, r).error = "none" =>
             \A type \in Range(p.types) : Supplied(p, type, DependenciesFor(p, r).deps)
<1>1. p.types \in Seq(Range(p.types)) /\ Len(p.types) \in Nat /\ DOMAIN p.types = 1 .. Len(p.types)
  BY ListIs DEF IsList
<1>2. PICK g : /\ g = [n \in 0 .. Len(p.types) |->
                        IF n = 0 THEN [deps |-> Declared(p, r), error |-> "none"]
                        ELSE WithLoader(p, g[n - 1], p.types[n])]
               /\ DependenciesFor(p, r) = g[Len(p.types)]
  BY <1>1, DependenciesAreBuilt
<1>3. \A n \in 0 .. Len(p.types) : g[n] = IF n = 0 THEN [deps |-> Declared(p, r), error |-> "none"]
                        ELSE WithLoader(p, g[n - 1], p.types[n])
  BY <1>2
<1>4. g[0] = [deps |-> Declared(p, r), error |-> "none"]
      /\ \A n \in 1 .. Len(p.types) : g[n] = WithLoader(p, g[n - 1], p.types[n])
  BY <1>1, <1>3
<1> DEFINE Is(n) == /\ IsList(g[n].deps) /\ g[n].error \in Errors /\ g[n] = [deps |-> g[n].deps, error |-> g[n].error]
                    /\ g[n].error = "none" =>
                         \A i \in 1 .. n : Supplied(p, p.types[i], g[n].deps)
           good == {n \in 0 .. Len(p.types) : Is(n)}
<1>5. 0 \in good
  <2>1. IsList(Declared(p, r))
    BY KeptIsIn DEF Declared
  <2>2. "none" \in Errors
    BY DEF Errors
  <2>3. QED
    BY <1>1, <1>4, <2>1, <2>2
<1>6. ASSUME NEW n \in 1 .. Len(p.types), n - 1 \in good PROVE n \in good
  <2>1. PICK found, type : found = g[n - 1] /\ type = p.types[n]
    OBVIOUS
  <2>2. /\ IsList(found.deps) /\ found = [deps |-> found.deps, error |-> found.error]
        /\ found.error \in Errors
        /\ found.error = "none" => \A i \in 1 .. (n - 1) : Supplied(p, p.types[i], found.deps)
    BY <1>6, <2>1
  <2>3. PICK next : next = WithLoader(p, found, type)
    OBVIOUS
  <2>4. /\ IsList(next.deps) /\ next = [deps |-> next.deps, error |-> next.error]
        /\ Range(found.deps) \subseteq Range(next.deps) /\ next.error \in Errors
        /\ next.error = "none" => found.error = "none" /\ Supplied(p, type, next.deps)
    BY <2>2, <2>3, LoaderAdds
  <2>5. g[n] = next
    BY <1>4, <2>1, <2>3
  <2>6. ASSUME next.error = "none", NEW i \in 1 .. n PROVE Supplied(p, p.types[i], next.deps)
    <3>1. CASE i = n
      BY <2>1, <2>4, <2>6, <3>1
    <3>2. CASE i # n
      <4>1. Supplied(p, p.types[i], found.deps)
        BY <2>2, <2>4, <2>6, <3>2
      <4>2. QED
        BY <2>4, <4>1 DEF Supplied
    <3>3. QED
      BY <3>1, <3>2
  <2>7. Is(n)
    BY <2>4, <2>5, <2>6
  <2>8. QED
    BY <2>7
<1>7. Is(Len(p.types))
  <2>1. Len(p.types) \in good
    <3> HIDE DEF good
    <3>1. \A n \in 1 .. Len(p.types) : n - 1 \in good => n \in good
      BY <1>6
    <3>2. \A n \in 0 .. Len(p.types) : n \in good
      BY <1>1, <1>5, <3>1, Upwards
    <3>3. QED
      BY <1>1, <3>2
  <2>2. QED
    BY <2>1
<1>8. QED
  BY <1>1, <1>2, <1>7 DEF Range

(* --------------------- the invariant of the search ---------------------- *)
\* A release that may be in a plan, and what it depends on.
Offered(id, r) ==
  id \in Ids /\ r \in Range(Releases(Get(id))) /\ r.assets /\ ~EnvBlocks(Get(id), r)
\* What a release needs, and of which packages.
Needed(id, r) == DependenciesFor(Get(id), r)
DepsOf(id, r) == Range(Needed(id, r).deps)
\* A release every wish is satisfied with.
Fits(r, ranges) == \A wanted \in ranges : Satisfies(r.version, wanted)
\* A package that has a release: it fits every wish, and its own wishes are known.
Chosen(f, id) ==
  LET r == f.assigned[id] IN
  /\ Offered(id, r) /\ Needed(id, r).error = "none" /\ Fits(r, f.wants[id])
  /\ IsList(f.needs[id]) /\ Range(f.needs[id]) = {d.id : d \in DepsOf(id, r)}
  /\ \A d \in DepsOf(id, r) : d.id \in DOMAIN f.wants /\ d.range \in f.wants[d.id]
\* Every package that came up is the one asked for or needed by an earlier one.
Reached(f) ==
  \A i \in DOMAIN f.order : i > 1 =>
    \E j \in 1 .. (i - 1) : f.order[j] \in DOMAIN f.assigned /\ f.order[i] \in Range(f.needs[f.order[j]])
\* Every wish is the question's or that of a package that has a release.
Grounded(f) ==
  \A id \in DOMAIN f.wants : \A wanted \in f.wants[id] :
    \/ id = root /\ wanted = range
    \/ \E other \in DOMAIN f.assigned : \E d \in DepsOf(other, f.assigned[other]) :
         d.id = id /\ d.range = wanted
\* The fields of a frame: what came up has a list and its wishes, what has a release
\* came up and has its needs.
Shape(f) ==
  /\ f = [assigned |-> f.assigned, wants |-> f.wants, order |-> f.order,
          needs |-> f.needs, pick |-> f.pick, rest |-> f.rest]
  /\ IsList(f.order) /\ f.order # <<>> /\ f.order[1] = root
  /\ DOMAIN f.wants = Range(f.order) /\ range \in f.wants[root]
  /\ DOMAIN f.needs = DOMAIN f.assigned /\ DOMAIN f.assigned \subseteq Range(f.order)
\* The package that is tried has no release yet, and whatever is still to try fits.
Picking(f) ==
  f.pick # Nobody =>
    /\ f.pick \in Range(f.order) \ DOMAIN f.assigned /\ f.pick \in Ids
    /\ IsList(f.rest) /\ \A r \in Range(f.rest) : Offered(f.pick, r) /\ Fits(r, f.wants[f.pick])
\* A frame of the search (Solver._search, its arguments) in order.
FrameOk(f) ==
  /\ Shape(f) /\ \A id \in DOMAIN f.assigned : Chosen(f, id)
  /\ Reached(f) /\ Grounded(f) /\ Picking(f)
\* The search: at least one frame, all in order.
FramesOk ==
  IsList(frames) /\ frames # <<>> /\ \A k \in DOMAIN frames : FrameOk(frames[k])
\* The visit: what is ordered has its dependencies before it; what is being
\* visited has them there, still to visit, or next on the path.
After(k) == IF k = Len(path) THEN {} ELSE {path[k + 1].id}
Walk(f) ==
  /\ IsList(path)
  /\ \A k \in DOMAIN path :
       /\ path[k] = [id |-> path[k].id, rest |-> path[k].rest] /\ IsList(path[k].rest)
       /\ path[k].id \in DOMAIN f.assigned \ Range(ordered)
       /\ Range(path[k].rest) \subseteq Range(f.needs[path[k].id])
       /\ Range(f.needs[path[k].id]) \subseteq Range(path[k].rest) \cup Range(ordered) \cup After(k)
  /\ \A k, l \in DOMAIN path : path[k].id = path[l].id => k = l
\* What was visited: each once, and after all it needs.
Laid(f) ==
  /\ IsList(ordered) /\ IsInjective(ordered) /\ Range(ordered) \subseteq DOMAIN f.assigned
  /\ \A i \in DOMAIN ordered : \A id \in Range(f.needs[ordered[i]]) :
       \E j \in 1 .. (i - 1) : ordered[j] = id
\* The visit starts at the package asked for and covers what has a release.
VisitOk(f) ==
  /\ DOMAIN f.assigned = Range(f.order) /\ Walk(f) /\ Laid(f)
  /\ step = "order" <=> path # <<>>
  /\ IF path = <<>> THEN root \in Range(ordered) ELSE path[1].id = root
\* While a question is being answered.
Searching == {"search", "order", "prepare"}
\* The inductive invariant of the search: every frame is in order, the visit is, and
\* what has been checked of the index still holds.
PInv ==
  /\ index \in Indexes
  /\ step \in {"closed", "catalog", "done"} \cup Searching
  /\ outcome # "none" => step = "done"
  /\ step = "closed" => env = Nothing
  /\ step \in {"catalog"} \cup Searching \/ env # Nothing => ValidIndex
  /\ step \in Searching /\ private => ValidPackages(index.packages \o index.private)
  /\ step \in {"closed", "catalog", "search"} => path = <<>> /\ ordered = <<>>
  /\ step \in Searching => /\ IsList(frames) /\ frames # <<>>
                           /\ \A k \in DOMAIN frames : FrameOk(frames[k])
  /\ step \in {"order", "prepare"} => VisitOk(Top)

(* ----------------------- the operators on frames ------------------------ *)
\* What the search does not write: all that the operators above depend on.
Data == <<index, machine, env, question>>

\* What is not written stays in order.
LEMMA DataKept ==
  ASSUME UNCHANGED Data, NEW f
  PROVE /\ \A id, r : (Offered(id, r)' <=> Offered(id, r)) /\ Needed(id, r)' = Needed(id, r)
        /\ FrameOk(f)' <=> FrameOk(f)
        /\ Ids' = Ids
        /\ \A id : Get(id)' = Get(id)
        /\ Packages' = Packages
        /\ \A p, r : (EnvBlocks(p, r)' <=> EnvBlocks(p, r)) /\ DependenciesFor(p, r)' = DependenciesFor(p, r)
<1>1. index' = index /\ machine' = machine /\ env' = env /\ root' = root /\ range' = range
      /\ pinned' = pinned /\ private' = private
  BY DEF Data, question
<1>2. Packages' = Packages /\ Table' = Table
  BY <1>1 DEF Packages, Table
<1>3. Ids' = Ids
  BY <1>2 DEF Ids
<1>4. \A id : Get(id)' = Get(id)
  BY <1>2 DEF Get
<1>5. \A type : ProvidersForType(type)' = ProvidersForType(type)
  BY <1>2 DEF ProvidersForType
<1>6. \A p, r : EnvBlocks(p, r)' <=> EnvBlocks(p, r)
  BY <1>1 DEF EnvBlocks
<1>7. \A p : CoveringRows(p)' = CoveringRows(p)
  BY <1>1, <1>2 DEF CoveringRows
<1>8. \A p : RowsVersionRange(p)' = RowsVersionRange(p)
  BY <1>2, <1>7 DEF RowsVersionRange
<1>9. \A p, type, declared : LoaderForType(p, type, declared)' = LoaderForType(p, type, declared)
  <2> SUFFICES ASSUME NEW p, NEW type, NEW declared
               PROVE LoaderForType(p, type, declared)' = LoaderForType(p, type, declared)
    OBVIOUS
  <2> DEFINE all == ProvidersForType(type)
             named == Kept(all, {q \in Range(all) : q.id \in declared})
             covering == Kept(all, {q \in Range(all) : CoveringRows(q) # {}})
             present == Kept(all, {q \in Range(all) : q.id \in DOMAIN machine.records})
             asked == Known(env, env.gameId) /\ Table # <<>>
             covered == RowsVersionRange(covering[1])
             choice == CASE all = <<>> \/ p \in Range(all) -> NoSupplier("none")
               [] Len(all) = 1 /\ p \notin Range(all) -> Supplier(all[1], AnyRange)
               [] Len(all) > 1 /\ p \notin Range(all) /\ named # <<>> -> Supplier(named[1], AnyRange)
               [] OTHER ->
                   IF asked /\ covering = <<>> THEN NoSupplier("no provider for this game")
                   ELSE IF asked /\ Len(covering) = 1
                   THEN Supplier(covering[1], covered)
                   ELSE IF Len(present) = 1 THEN Supplier(present[1], AnyRange)
                   ELSE NoSupplier(IF present = <<>> THEN "no provider installed"
                                   ELSE "several providers installed")
  <2>1. LoaderForType(p, type, declared) = choice
    BY DEF LoaderForType
  <2>2. LoaderForType(p, type, declared)' = choice'
    BY DEF LoaderForType
  <2>3. all' = all
    BY <1>5
  <2>4. {q \in Range(all) : CoveringRows(q) # {}}' = {q \in Range(all) : CoveringRows(q) # {}}
    BY <1>7, <2>3
  <2>5. named' = named /\ present' = present /\ (asked' <=> asked)
    BY <1>1, <1>2, <2>3
  <2>6. covering' = covering
    BY <2>3, <2>4
  <2>7. covered' = covered
    BY <1>8, <2>6
  <2> HIDE DEF all, named, covering, present, asked, covered
  <2>8. choice' = choice
    BY <2>3, <2>5, <2>6, <2>7
  <2>9. QED
    BY <2>1, <2>2, <2>8
<1>10. \A ps, id : KnowsCapability(ps, id)' <=> KnowsCapability(ps, id)
  BY <1>1 DEF KnowsCapability
<1>11. \A p, r : Declared(p, r)' = Declared(p, r)
  BY <1>2, <1>3, <1>10 DEF Declared
<1>12. \A p, found, type : WithLoader(p, found, type)' = WithLoader(p, found, type)
  <2> SUFFICES ASSUME NEW p, NEW found, NEW type
               PROVE WithLoader(p, found, type)' = WithLoader(p, found, type)
    OBVIOUS
  <2> DEFINE ids == {d.id : d \in Range(found.deps)}
  <2>1. PICK s : s = LoaderForType(p, type, ids)
    OBVIOUS
  <2>2. LoaderForType(p, type, ids)' = s
    BY <1>9, <2>1
  <2> DEFINE next == IF found.error # "none" THEN found
             ELSE IF s.error # "none" THEN [found EXCEPT !.error = s.error]
             ELSE IF s.id \in ids \cup {Nothing} THEN found
             ELSE [found EXCEPT !.deps = Append(@, [id |-> s.id, range |-> s.range, when |-> AnyRange])]
  <2>3. WithLoader(p, found, type) = next
    BY <2>1 DEF WithLoader, AddSupplier
  <2>4. WithLoader(p, found, type)' = next
    BY <2>2 DEF WithLoader, AddSupplier
  <2>5. QED
    BY <2>3, <2>4
<1>13. \A p, r : DependenciesFor(p, r)' = DependenciesFor(p, r)
  BY <1>11, <1>12 DEF DependenciesFor
<1>14. \A id, r : Needed(id, r)' = Needed(id, r)
  BY <1>4, <1>13 DEF Needed
<1>15. \A id, r : Offered(id, r)' <=> Offered(id, r)
  BY <1>3, <1>4, <1>6 DEF Offered
<1>16. \A id, r : DepsOf(id, r)' = DepsOf(id, r)
  BY <1>14 DEF DepsOf
<1>17. \A id : Chosen(f, id)' <=> Chosen(f, id)
  BY <1>14, <1>15, <1>16 DEF Chosen
<1>18. Grounded(f)' <=> Grounded(f)
  BY <1>1, <1>16 DEF Grounded
<1>19. Shape(f)' <=> Shape(f)
  BY <1>1 DEF Shape
<1>20. Picking(f)' <=> Picking(f)
  BY <1>3, <1>15 DEF Picking
<1>21. FrameOk(f)' <=> FrameOk(f)
  BY <1>17, <1>18, <1>19, <1>20 DEF FrameOk, Reached
<1>22. QED
  BY <1>2, <1>3, <1>4, <1>6, <1>13, <1>14, <1>15, <1>21

\* The ids of a list of dependencies.
LEMMA IdsOfIs ==
  ASSUME NEW deps, IsList(deps)
  PROVE LET ids == [i \in DOMAIN deps |-> deps[i].id]
        IN IsList(ids) /\ Range(ids) = {d.id : d \in Range(deps)}
<1> DEFINE ids == [i \in DOMAIN deps |-> deps[i].id]
           S == {d.id : d \in Range(deps)}
<1>1. /\ Len(deps) \in Nat /\ DOMAIN deps = 1 .. Len(deps)
      /\ \A i \in DOMAIN deps : deps[i] \in Range(deps)
      /\ \A d \in Range(deps) : \E i \in DOMAIN deps : deps[i] = d
  BY ListBasics
<1>2. ids \in Seq(S)
  BY <1>1
<1>3. Range(ids) = S
  BY <1>1 DEF Range
<1> HIDE DEF ids
<1>4. QED
  BY <1>2, <1>3, ListIs DEF ids

\* What Constrain adds to a frame: the wishes of a release's dependencies, each
\* under its package, and the packages that now came up, at the end.
LEMMA ConstrainIs ==
  ASSUME NEW f, NEW deps, IsList(deps), IsList(f.order), DOMAIN f.wants = Range(f.order),
         f = [assigned |-> f.assigned, wants |-> f.wants, order |-> f.order,
              needs |-> f.needs, pick |-> f.pick, rest |-> f.rest]
  PROVE LET g == Constrain(f, deps)
            ids == {d.id : d \in Range(deps)}
        IN /\ g = [assigned |-> f.assigned, wants |-> g.wants, order |-> g.order,
                   needs |-> f.needs, pick |-> f.pick, rest |-> f.rest]
           /\ DOMAIN g.wants = Range(f.order) \cup ids
           /\ \A id \in DOMAIN g.wants :
                g.wants[id] = {d.range : d \in {e \in Range(deps) : e.id = id}}
                                \cup (IF id \in Range(f.order) THEN f.wants[id] ELSE {})
           /\ IsList(g.order) /\ Range(g.order) = Range(f.order) \cup ids
           /\ Len(f.order) <= Len(g.order)
           /\ \A i \in DOMAIN f.order : i \in DOMAIN g.order /\ g.order[i] = f.order[i]
           /\ \A i \in DOMAIN g.order \ DOMAIN f.order : g.order[i] \in ids
<1> DEFINE ids == {d.id : d \in Range(deps)}
           wanted(id) == {d.range : d \in {e \in Range(deps) : e.id = id}}
           first == {i \in DOMAIN deps : /\ deps[i].id \notin DOMAIN f.wants
                                         /\ \A j \in 1 .. (i - 1) : deps[j].id # deps[i].id}
           all == [i \in DOMAIN deps |-> i]
           new == Kept(all, first)
           added == [k \in DOMAIN new |-> deps[new[k]].id]
           wants == [id \in DOMAIN f.wants \cup ids |->
                       wanted(id) \cup (IF id \in DOMAIN f.wants THEN f.wants[id] ELSE {})]
           g == Constrain(f, deps)
<1>1. g = [f EXCEPT !.wants = wants, !.order = f.order \o added]
  BY DEF Constrain
<1>2. g = [assigned |-> f.assigned, wants |-> wants, order |-> f.order \o added,
           needs |-> f.needs, pick |-> f.pick, rest |-> f.rest]
  <2> HIDE DEF wants, added, g
  <2>1. QED
    BY <1>1
<1>3. /\ Len(deps) \in Nat /\ DOMAIN deps = 1 .. Len(deps)
      /\ \A i \in DOMAIN deps : deps[i] \in Range(deps)
      /\ \A d \in Range(deps) : \E i \in DOMAIN deps : deps[i] = d
  BY ListBasics
<1>4. all \in Seq(Nat) /\ Range(all) = DOMAIN deps
  BY <1>3 DEF Range
<1>5. new \in Seq(Nat) /\ Range(new) = first
  <2> HIDE DEF all, new
  <2>1. Kept(all, first) \in Seq(Nat) /\ Range(Kept(all, first)) = Range(all) \cap first
    BY <1>4, KeptIs
  <2>2. QED
    BY <1>4, <2>1 DEF new
<1>6. /\ Len(new) \in Nat /\ DOMAIN new = 1 .. Len(new)
      /\ \A k \in DOMAIN new : new[k] \in first
      /\ \A i \in first : \E k \in DOMAIN new : new[k] = i
  <2> HIDE DEF first, new
  <2>1. QED
    BY <1>5 DEF Range
<1>7. added \in Seq(ids) /\ Range(added) = {deps[i].id : i \in first}
  <2> HIDE DEF new
  <2>1. \A k \in DOMAIN new : deps[new[k]].id \in ids
    BY <1>3, <1>6
  <2>2. added \in Seq(ids)
    BY <1>6, <2>1
  <2> HIDE DEF first
  <2>3. Range(added) = {deps[i].id : i \in first}
    BY <1>6 DEF Range
  <2>4. QED
    BY <2>2, <2>3
<1>8. \A id \in ids : id \in Range(f.order) \cup Range(added)
  <2>1. SUFFICES ASSUME NEW d \in Range(deps), d.id \notin Range(f.order)
                 PROVE d.id \in Range(added)
    OBVIOUS
  <2> DEFINE at == {i \in DOMAIN deps : deps[i].id = d.id}
  <2>2. at \in SUBSET Nat /\ at # {}
    BY <1>3
  <2> HIDE DEF at
  <2>3. PICK m \in at : \A k \in at : m <= k
    BY <2>2, LeastExists
  <2>4. m \in first
    BY <1>3, <2>1, <2>3 DEF at
  <2>5. deps[m].id = d.id
    BY <2>3 DEF at
  <2>6. QED
    BY <1>7, <2>4, <2>5
<1> HIDE DEF added, new, wants, first
<1>9. IsList(added) /\ Range(added) \subseteq ids
  BY <1>7, ListIs
<1>10. IsList(f.order \o added) /\ Range(f.order \o added) = Range(f.order) \cup Range(added)
  BY <1>9, JoinedIs
<1>11. Range(f.order \o added) = Range(f.order) \cup ids
  BY <1>8, <1>9, <1>10
<1>12. /\ f.order \in Seq(Range(f.order)) /\ added \in Seq(ids)
       /\ DOMAIN f.order = 1 .. Len(f.order) /\ Len(f.order) \in Nat /\ Len(added) \in Nat
  BY <1>7, ListBasics DEF IsList
<1>13. /\ DOMAIN (f.order \o added) = 1 .. (Len(f.order) + Len(added))
       /\ Len(f.order \o added) = Len(f.order) + Len(added)
       /\ \A i \in 1 .. Len(f.order) : (f.order \o added)[i] = f.order[i]
       /\ \A i \in (Len(f.order) + 1) .. (Len(f.order) + Len(added)) :
            (f.order \o added)[i] = added[i - Len(f.order)]
  BY <1>12
<1>14. \A i \in 1 .. Len(added) : added[i] \in ids
  BY <1>7
<1>15. \A i \in DOMAIN (f.order \o added) \ DOMAIN f.order : (f.order \o added)[i] \in ids
  BY <1>12, <1>13, <1>14
<1>16. \A id \in DOMAIN wants : wants[id] = wanted(id) \cup (IF id \in Range(f.order) THEN f.wants[id] ELSE {})
  BY DEF wants
<1>17. DOMAIN wants = Range(f.order) \cup ids
  BY DEF wants
<1>18. \A i \in DOMAIN f.order : i \in DOMAIN (f.order \o added) /\ (f.order \o added)[i] = f.order[i]
  BY <1>12, <1>13
<1>19. g.wants = wants /\ g.order = f.order \o added
  BY <1>2
<1> HIDE DEF g, wanted, ids
<1>20. /\ g = [assigned |-> f.assigned, wants |-> g.wants, order |-> g.order,
               needs |-> f.needs, pick |-> f.pick, rest |-> f.rest]
       /\ DOMAIN g.wants = Range(f.order) \cup ids
       /\ \A id \in DOMAIN g.wants : g.wants[id] = wanted(id) \cup (IF id \in Range(f.order) THEN f.wants[id] ELSE {})
       /\ IsList(g.order) /\ Range(g.order) = Range(f.order) \cup ids
       /\ Len(f.order) <= Len(g.order)
  BY <1>2, <1>10, <1>11, <1>12, <1>13, <1>16, <1>17, <1>19
<1>21. /\ \A i \in DOMAIN f.order : i \in DOMAIN g.order /\ g.order[i] = f.order[i]
       /\ \A i \in DOMAIN g.order \ DOMAIN f.order : g.order[i] \in ids
  BY <1>15, <1>18, <1>19
<1>22. QED
  BY <1>20, <1>21 DEF g, wanted, ids

\* What Assign adds to a frame: a release of one package and its needs, nothing else.
LEMMA AssignIs ==
  ASSUME NEW f, Shape(f), NEW id, NEW r, NEW deps, IsList(deps)
  PROVE LET g == Assign(f, id, r, deps)
        IN /\ g = [assigned |-> g.assigned, wants |-> f.wants, order |-> f.order,
                   needs |-> g.needs, pick |-> Nobody, rest |-> <<>>]
           /\ DOMAIN g.assigned = DOMAIN f.assigned \cup {id} /\ g.assigned[id] = r
           /\ \A other \in DOMAIN f.assigned \ {id} : g.assigned[other] = f.assigned[other]
           /\ DOMAIN g.needs = DOMAIN f.assigned \cup {id}
           /\ IsList(g.needs[id]) /\ Range(g.needs[id]) = {d.id : d \in Range(deps)}
           /\ \A other \in DOMAIN f.assigned \ {id} : g.needs[other] = f.needs[other]
<1> DEFINE ids == [i \in DOMAIN deps |-> deps[i].id]
           assigned == With(f.assigned, id, r)
           needs == With(f.needs, id, ids)
           g == Assign(f, id, r, deps)
<1>1. f = [assigned |-> f.assigned, wants |-> f.wants, order |-> f.order,
           needs |-> f.needs, pick |-> f.pick, rest |-> f.rest]
      /\ DOMAIN f.needs = DOMAIN f.assigned
  BY DEF Shape
<1>2. g = [f EXCEPT !.assigned = assigned, !.needs = needs, !.pick = Nobody, !.rest = <<>>]
  BY DEF Assign
<1>3. IsList(ids) /\ Range(ids) = {d.id : d \in Range(deps)}
  BY IdsOfIs
<1> HIDE DEF g, ids
<1>4. DOMAIN assigned = DOMAIN f.assigned \cup {id} /\ assigned[id] = r
      /\ \A other \in DOMAIN f.assigned \ {id} : assigned[other] = f.assigned[other]
  BY DEF With
<1>5. DOMAIN needs = DOMAIN f.assigned \cup {id} /\ needs[id] = ids
      /\ \A other \in DOMAIN f.assigned \ {id} : needs[other] = f.needs[other]
  BY <1>1 DEF With
<1> HIDE DEF assigned, needs
<1>6. g = [assigned |-> assigned, wants |-> f.wants, order |-> f.order,
           needs |-> needs, pick |-> Nobody, rest |-> <<>>]
  BY <1>1, <1>2
<1>7. g.assigned = assigned /\ g.needs = needs
  BY <1>6
<1>8. QED
  BY <1>3, <1>4, <1>5, <1>6, <1>7 DEF g

\* The frame under a release that was tried and fits is a frame in order.
LEMMA DeeperIsOk ==
  ASSUME index \in Indexes, NEW f, FrameOk(f), f.pick # Nobody, NEW r \in Range(f.rest),
         NEW deps, deps = Needed(f.pick, r).deps, Needed(f.pick, r).error = "none",
         FitsNew(Assign(f, f.pick, r, deps), deps)
  PROVE FrameOk(Constrain(Assign(f, f.pick, r, deps), deps))
<1> DEFINE h == Assign(f, f.pick, r, deps)
           g == Constrain(h, deps)
           ids == {d.id : d \in Range(deps)}
           wanted(id) == {d.range : d \in {e \in Range(deps) : e.id = id}}
<1>1. PICK pick : pick = f.pick
  OBVIOUS
<1>2. /\ pick \in Range(f.order) \ DOMAIN f.assigned /\ pick \in Ids
      /\ Offered(pick, r) /\ Fits(r, f.wants[pick])
  BY <1>1 DEF FrameOk, Picking
<1>3. IsList(deps) /\ DepsOf(pick, r) = Range(deps) /\ Needed(pick, r).error = "none"
  <2>1. Get(pick) \in Range(Packages)
    BY <1>2, GetIs
  <2>2. IsList(Get(pick).types) /\ IsList(Get(pick).dependencies)
    BY <2>1, PackagesAre
  <2>3. IsList(DependenciesFor(Get(pick), r).deps)
    BY <2>2, PackagesAre, DependenciesAre
  <2>4. QED
    BY <1>1, <2>3 DEF DepsOf, Needed
<1>4. /\ IsList(f.order) /\ f.order # <<>> /\ f.order[1] = root
      /\ DOMAIN f.wants = Range(f.order) /\ range \in f.wants[root]
      /\ DOMAIN f.needs = DOMAIN f.assigned /\ DOMAIN f.assigned \subseteq Range(f.order)
  BY DEF FrameOk, Shape
<1>5. /\ h = [assigned |-> h.assigned, wants |-> f.wants, order |-> f.order,
              needs |-> h.needs, pick |-> Nobody, rest |-> <<>>]
      /\ DOMAIN h.assigned = DOMAIN f.assigned \cup {pick} /\ h.assigned[pick] = r
      /\ \A other \in DOMAIN f.assigned \ {pick} : h.assigned[other] = f.assigned[other]
      /\ DOMAIN h.needs = DOMAIN f.assigned \cup {pick}
      /\ IsList(h.needs[pick]) /\ Range(h.needs[pick]) = ids
      /\ \A other \in DOMAIN f.assigned \ {pick} : h.needs[other] = f.needs[other]
  <2>1. Shape(f)
    BY DEF FrameOk
  <2>2. QED
    BY <1>1, <1>3, <2>1, AssignIs
<1>6. FitsNew(h, deps)
  OBVIOUS
<1> HIDE DEF h
<1>7. h.wants = f.wants /\ h.order = f.order /\ h.pick = Nobody /\ h.rest = <<>>
  BY <1>5
<1>8. /\ g = [assigned |-> h.assigned, wants |-> g.wants, order |-> g.order,
              needs |-> h.needs, pick |-> h.pick, rest |-> h.rest]
      /\ DOMAIN g.wants = Range(f.order) \cup ids
      /\ \A id \in DOMAIN g.wants : g.wants[id] = wanted(id) \cup (IF id \in Range(f.order) THEN f.wants[id] ELSE {})
      /\ IsList(g.order) /\ Range(g.order) = Range(f.order) \cup ids
      /\ Len(f.order) <= Len(g.order)
      /\ \A i \in DOMAIN f.order : i \in DOMAIN g.order /\ g.order[i] = f.order[i]
      /\ \A i \in DOMAIN g.order \ DOMAIN f.order : g.order[i] \in ids
  <2>1. h = [assigned |-> h.assigned, wants |-> h.wants, order |-> h.order,
             needs |-> h.needs, pick |-> h.pick, rest |-> h.rest]
    BY <1>5, <1>7
  <2>2. IsList(h.order) /\ DOMAIN h.wants = Range(h.order)
    BY <1>4, <1>7
  <2> HIDE DEF g
  <2>3. /\ g = [assigned |-> h.assigned, wants |-> g.wants, order |-> g.order,
                needs |-> h.needs, pick |-> h.pick, rest |-> h.rest]
        /\ DOMAIN g.wants = Range(h.order) \cup ids
    BY <1>3, <2>1, <2>2, ConstrainIs DEF g
  <2>4. \A id \in DOMAIN g.wants :
          g.wants[id] = wanted(id) \cup (IF id \in Range(h.order) THEN h.wants[id] ELSE {})
    BY <1>3, <2>1, <2>2, ConstrainIs DEF g
  <2>5. IsList(g.order) /\ Range(g.order) = Range(h.order) \cup ids /\ Len(h.order) <= Len(g.order)
    BY <1>3, <2>1, <2>2, ConstrainIs DEF g
  <2>6. /\ \A i \in DOMAIN h.order : i \in DOMAIN g.order /\ g.order[i] = h.order[i]
        /\ \A i \in DOMAIN g.order \ DOMAIN h.order : g.order[i] \in ids
    BY <1>3, <2>1, <2>2, ConstrainIs DEF g
  <2>7. QED
    BY <1>7, <2>3, <2>4, <2>5, <2>6
<1> HIDE DEF g
<1>9. g.assigned = h.assigned /\ g.needs = h.needs /\ g.pick = Nobody
  BY <1>7, <1>8
<1>10. \A d \in Range(deps) : d.id \in ids /\ d.range \in wanted(d.id)
  OBVIOUS
<1>11. \A id : \A w \in wanted(id) : \E d \in Range(deps) : d.id = id /\ d.range = w
  OBVIOUS
<1> HIDE DEF ids, wanted
<1>12. /\ Len(f.order) \in Nat /\ DOMAIN f.order = 1 .. Len(f.order) /\ Len(f.order) # 0
       /\ \A i \in DOMAIN f.order : f.order[i] \in Range(f.order)
       /\ \A x \in Range(f.order) : \E i \in DOMAIN f.order : f.order[i] = x
       /\ Len(g.order) \in Nat /\ DOMAIN g.order = 1 .. Len(g.order)
  BY <1>4, <1>8, ListBasics
<1>13. Shape(g)
  <2>1. g.order[1] = root /\ g.order # <<>> /\ root \in Range(f.order)
    <3>1. 1 \in DOMAIN f.order
      BY <1>12
    <3>2. Len(g.order) # 0
      BY <1>8, <1>12
    <3>3. QED
      BY <1>4, <1>8, <1>12, <3>1, <3>2
  <2>2. range \in g.wants[root]
    BY <1>4, <1>8, <2>1
  <2>3. QED
    BY <1>2, <1>4, <1>5, <1>7, <1>8, <1>9, <2>1, <2>2 DEF Shape
<1>14. ASSUME NEW id \in DOMAIN g.assigned PROVE Chosen(g, id)
  <2>1. CASE id = pick
    <3>1. ASSUME NEW w \in g.wants[pick] PROVE Satisfies(r.version, w)
      <4>1. CASE w \in wanted(pick)
        <5>1. PICK d \in Range(deps) : d.id = pick /\ d.range = w
          BY <1>11, <4>1
        <5>2. QED
          BY <1>5, <1>6, <5>1 DEF FitsNew
      <4>2. CASE w \in f.wants[pick]
        BY <1>2, <4>2 DEF Fits
      <4>3. pick \in DOMAIN g.wants
        BY <1>2, <1>8
      <4>4. QED
        BY <1>2, <1>8, <3>1, <4>1, <4>2, <4>3
    <3>2. \A d \in DepsOf(pick, r) : d.id \in DOMAIN g.wants /\ d.range \in g.wants[d.id]
      BY <1>3, <1>8, <1>10
    <3>3. Range(g.needs[pick]) = {d.id : d \in DepsOf(pick, r)} /\ IsList(g.needs[pick])
      BY <1>3, <1>5, <1>9 DEF ids
    <3>4. g.assigned[pick] = r
      BY <1>5, <1>9
    <3>5. Fits(r, g.wants[pick])
      BY <3>1 DEF Fits
    <3>6. QED
      BY <1>2, <1>3, <2>1, <3>2, <3>3, <3>4, <3>5 DEF Chosen
  <2>2. CASE id # pick
    <3>1. id \in DOMAIN f.assigned /\ g.assigned[id] = f.assigned[id] /\ g.needs[id] = f.needs[id]
      BY <1>5, <1>9, <2>2
    <3>2. PICK s : s = f.assigned[id]
      OBVIOUS
    <3>3. /\ Offered(id, s) /\ Needed(id, s).error = "none" /\ Fits(s, f.wants[id])
          /\ IsList(f.needs[id]) /\ Range(f.needs[id]) = {d.id : d \in DepsOf(id, s)}
          /\ \A d \in DepsOf(id, s) : d.id \in DOMAIN f.wants /\ d.range \in f.wants[d.id]
      BY <3>1, <3>2 DEF FrameOk, Chosen
    <3>4. ASSUME NEW w \in g.wants[id] PROVE Satisfies(s.version, w)
      <4>1. CASE w \in wanted(id)
        <5>1. PICK d \in Range(deps) : d.id = id /\ d.range = w
          BY <1>11, <4>1
        <5>2. id \in DOMAIN h.assigned /\ h.assigned[id] = s
          BY <1>5, <2>2, <3>1, <3>2
        <5>3. QED
          BY <1>6, <5>1, <5>2 DEF FitsNew
      <4>2. CASE w \in f.wants[id]
        BY <3>3, <4>2 DEF Fits
      <4>3. id \in DOMAIN g.wants /\ id \in Range(f.order)
        BY <1>4, <1>8, <3>1
      <4>4. QED
        BY <1>8, <3>4, <4>1, <4>2, <4>3
    <3>5. \A d \in DepsOf(id, s) : d.id \in DOMAIN g.wants /\ d.range \in g.wants[d.id]
      BY <1>4, <1>8, <3>3
    <3>6. Fits(s, g.wants[id])
      BY <3>4 DEF Fits
    <3>7. QED
      BY <3>1, <3>2, <3>3, <3>5, <3>6 DEF Chosen
  <2>3. QED
    BY <2>1, <2>2
<1>15. Reached(g)
  <2>1. SUFFICES ASSUME NEW i \in DOMAIN g.order, i > 1
                 PROVE \E j \in 1 .. (i - 1) : g.order[j] \in DOMAIN g.assigned /\ g.order[i] \in Range(g.needs[g.order[j]])
    BY DEF Reached
  <2>2. CASE i \in DOMAIN f.order
    <3>1. PICK j \in 1 .. (i - 1) : f.order[j] \in DOMAIN f.assigned /\ f.order[i] \in Range(f.needs[f.order[j]])
      BY <2>1, <2>2 DEF FrameOk, Reached
    <3>2. j \in DOMAIN f.order
      BY <1>12, <2>2
    <3>3. g.order[j] = f.order[j] /\ g.order[i] = f.order[i]
      BY <1>8, <2>2, <3>2
    <3>4. f.order[j] # pick
      BY <1>2, <3>1
    <3>5. QED
      BY <1>5, <1>9, <3>1, <3>3, <3>4
  <2>3. CASE i \notin DOMAIN f.order
    <3>1. g.order[i] \in ids
      BY <1>8, <2>3
    <3>2. PICK j \in DOMAIN f.order : f.order[j] = pick
      BY <1>2, <1>12
    <3>3. j \in 1 .. (i - 1) /\ g.order[j] = pick
      BY <1>8, <1>12, <2>3, <3>2
    <3>4. QED
      BY <1>5, <1>9, <3>1, <3>3
  <2>4. QED
    BY <2>2, <2>3
<1>16. Grounded(g)
  <2>1. SUFFICES ASSUME NEW id \in DOMAIN g.wants, NEW w \in g.wants[id], ~(id = root /\ w = range)
                 PROVE \E other \in DOMAIN g.assigned : \E d \in DepsOf(other, g.assigned[other]) :
                         d.id = id /\ d.range = w
    BY DEF Grounded
  <2>2. CASE w \in wanted(id)
    <3>1. PICK d \in Range(deps) : d.id = id /\ d.range = w
      BY <1>11, <2>2
    <3>2. pick \in DOMAIN g.assigned /\ g.assigned[pick] = r
      BY <1>5, <1>9
    <3>3. QED
      BY <1>3, <3>1, <3>2
  <2>3. CASE w \notin wanted(id)
    <3>1. id \in Range(f.order) /\ w \in f.wants[id]
      BY <1>8, <2>1, <2>3
    <3>2. PICK other \in DOMAIN f.assigned : \E d \in DepsOf(other, f.assigned[other]) :
             d.id = id /\ d.range = w
      BY <1>4, <2>1, <3>1 DEF FrameOk, Grounded
    <3>3. other \in DOMAIN g.assigned /\ g.assigned[other] = f.assigned[other]
      BY <1>2, <1>5, <1>9, <3>2
    <3>4. QED
      BY <3>2, <3>3
  <2>4. QED
    BY <2>2, <2>3
<1>17. Picking(g)
  BY <1>9 DEF Picking
<1>18. FrameOk(g)
  BY <1>13, <1>14, <1>15, <1>16, <1>17 DEF FrameOk
<1>19. QED
  BY <1>18 DEF g, h

\* What is assigned in the frame under a release.
LEMMA DeeperAssigns ==
  ASSUME index \in Indexes, NEW f, FrameOk(f), f.pick # Nobody, NEW r \in Range(f.rest), NEW deps,
         deps = Needed(f.pick, r).deps, NEW h, h = Assign(f, f.pick, r, deps),
         NEW g, g = Constrain(h, deps)
  PROVE /\ DOMAIN g.assigned = DOMAIN f.assigned \cup {f.pick} /\ g.assigned[f.pick] = r
        /\ \A other \in DOMAIN f.assigned \ {f.pick} : g.assigned[other] = f.assigned[other]
        /\ g.pick = Nobody /\ g.assigned = h.assigned
<1>1. PICK pick : pick = f.pick
  OBVIOUS
<1>2. pick \in Ids /\ Shape(f) /\ IsList(f.order) /\ DOMAIN f.wants = Range(f.order)
  BY <1>1 DEF FrameOk, Picking, Shape
<1>3. IsList(deps)
  <2>1. IsList(Get(pick).types) /\ IsList(Get(pick).dependencies)
    BY <1>2, GetIs, PackagesAre
  <2>2. IsList(DependenciesFor(Get(pick), r).deps)
    BY <2>1, PackagesAre, DependenciesAre
  <2>3. QED
    BY <1>1, <2>2 DEF Needed
<1>4. /\ h = [assigned |-> h.assigned, wants |-> f.wants, order |-> f.order,
              needs |-> h.needs, pick |-> Nobody, rest |-> <<>>]
      /\ DOMAIN h.assigned = DOMAIN f.assigned \cup {pick} /\ h.assigned[pick] = r
      /\ \A other \in DOMAIN f.assigned \ {pick} : h.assigned[other] = f.assigned[other]
  BY <1>1, <1>2, <1>3, AssignIs
<1>5. h.wants = f.wants /\ h.order = f.order /\ h.pick = Nobody /\ h.rest = <<>>
  BY <1>4
<1>6. g.assigned = h.assigned /\ g.pick = Nobody
  <2>1. h = [assigned |-> h.assigned, wants |-> h.wants, order |-> h.order,
             needs |-> h.needs, pick |-> h.pick, rest |-> h.rest]
    BY <1>4, <1>5
  <2>2. IsList(h.order) /\ DOMAIN h.wants = Range(h.order)
    BY <1>2, <1>5
  <2>3. g = [assigned |-> h.assigned, wants |-> g.wants, order |-> g.order,
             needs |-> h.needs, pick |-> h.pick, rest |-> h.rest]
    BY <1>3, <2>1, <2>2, ConstrainIs
  <2>4. QED
    BY <1>5, <2>3
<1>7. QED
  BY <1>1, <1>4, <1>6

\* The package with the fewest candidates is one of those without a release.
LEMMA FewestIs ==
  ASSUME NEW open, IsList(open), open # <<>>, NEW count, \A id \in Range(open) : count[id] \in Nat
  PROVE Fewest(open, count) \in Range(open)
<1> DEFINE sizes == [i \in DOMAIN open |-> count[open[i]]]
           least == Min(Range(sizes))
           at == {i \in DOMAIN open : sizes[i] = least}
<1>1. /\ Len(open) \in Nat /\ DOMAIN open = 1 .. Len(open) /\ Len(open) # 0
      /\ \A i \in DOMAIN open : open[i] \in Range(open)
  BY ListBasics
<1>2. Range(sizes) \in SUBSET Nat /\ sizes[1] \in Range(sizes)
  BY <1>1 DEF Range
<1>3. \E m \in Range(sizes) : \A k \in Range(sizes) : m <= k
  <2> HIDE DEF sizes
  <2>1. QED
    BY <1>2, LeastExists
<1>4. least \in Range(sizes)
  BY <1>3 DEF Min
<1>5. at # {} /\ at \in SUBSET Nat
  <2> HIDE DEF least
  <2>1. QED
    BY <1>1, <1>4 DEF Range
<1> HIDE DEF at
<1>6. \E m \in at : \A k \in at : m <= k
  BY <1>5, LeastExists
<1>7. Min(at) \in at
  BY <1>6 DEF Min
<1>8. Fewest(open, count) = open[Min(at)]
  BY DEF Fewest, at
<1>9. Min(at) \in DOMAIN open
  BY <1>7 DEF at
<1>10. QED
  BY <1>1, <1>8, <1>9

\* What came up and has no release yet.
LEMMA UnresolvedIs ==
  ASSUME NEW f, FrameOk(f)
  PROVE IsList(Unresolved(f)) /\ Range(Unresolved(f)) = Range(f.order) \ DOMAIN f.assigned
<1>1. IsList(f.order)
  BY DEF FrameOk, Shape
<1>2. QED
  BY <1>1, KeptIsIn DEF Unresolved

\* A frame in order whose pick changes to one that may be is in order.
LEMMA SameFrame ==
  ASSUME NEW f, FrameOk(f), NEW g, NEW pick, NEW rest, Picking(g),
         g = [assigned |-> f.assigned, wants |-> f.wants, order |-> f.order,
              needs |-> f.needs, pick |-> pick, rest |-> rest]
  PROVE FrameOk(g)
<1>1. /\ g.assigned = f.assigned /\ g.wants = f.wants /\ g.order = f.order /\ g.needs = f.needs
      /\ g.pick = pick /\ g.rest = rest
  OBVIOUS
<1>2. Shape(g)
  BY <1>1 DEF FrameOk, Shape
<1>3. \A id \in DOMAIN g.assigned : Chosen(g, id)
  BY <1>1 DEF FrameOk, Chosen
<1>4. Reached(g) /\ Grounded(g)
  BY <1>1 DEF FrameOk, Reached, Grounded
<1>5. QED
  BY <1>2, <1>3, <1>4 DEF FrameOk

\* A package without a release and its candidates may be picked.
LEMMA PickIsOk ==
  ASSUME index \in Indexes, NEW f, FrameOk(f), NEW id \in Range(Unresolved(f)), id \in Ids
  PROVE FrameOk([f EXCEPT !.pick = id, !.rest = CandidatesOf(f, id)])
<1> DEFINE rest == CandidatesOf(f, id)
           g == [f EXCEPT !.pick = id, !.rest = rest]
<1>1. id \in Range(f.order) \ DOMAIN f.assigned
  BY UnresolvedIs
<1>2. Get(id) \in Range(Packages)
  BY GetIs
<1>3. IsList(Get(id).releases) /\ (Get(id).listed => NewestAreFirst(Get(id).releases))
  BY <1>2, PackagesAre
<1>4. /\ IsList(rest)
      /\ \A r \in Range(rest) : Offered(id, r) /\ Fits(r, f.wants[id])
  BY <1>3, CandidatesAre DEF CandidatesOf, Offered, Fits
<1> HIDE DEF rest
<1>5. f = [assigned |-> f.assigned, wants |-> f.wants, order |-> f.order,
           needs |-> f.needs, pick |-> f.pick, rest |-> f.rest]
  BY DEF FrameOk, Shape
<1>0. g = [f EXCEPT !.pick = id, !.rest = rest]
  OBVIOUS
<1> HIDE DEF g
<1>6. g = [assigned |-> f.assigned, wants |-> f.wants, order |-> f.order,
           needs |-> f.needs, pick |-> id, rest |-> rest]
  BY <1>0, <1>5
<1>7. g.pick = id /\ g.rest = rest /\ g.order = f.order /\ g.assigned = f.assigned /\ g.wants = f.wants
  BY <1>6
<1>8. Picking(g)
  BY <1>1, <1>4, <1>7 DEF Picking
<1>9. FrameOk(g)
  BY <1>6, <1>7, <1>8, SameFrame
<1>10. QED
  BY <1>9 DEF g, rest

\* The first candidate may be dropped.
LEMMA DropIsOk ==
  ASSUME NEW f, FrameOk(f), f.pick # Nobody, f.rest # <<>>
  PROVE FrameOk([f EXCEPT !.rest = Tail(@)])
<1> DEFINE g == [f EXCEPT !.rest = Tail(@)]
<1>1. f = [assigned |-> f.assigned, wants |-> f.wants, order |-> f.order,
           needs |-> f.needs, pick |-> f.pick, rest |-> f.rest]
  BY DEF FrameOk, Shape
<1>2. g = [assigned |-> f.assigned, wants |-> f.wants, order |-> f.order,
           needs |-> f.needs, pick |-> f.pick, rest |-> Tail(f.rest)]
  BY <1>1
<1>3. g.pick = f.pick /\ g.rest = Tail(f.rest) /\ g.order = f.order
      /\ g.assigned = f.assigned /\ g.wants = f.wants
  BY <1>2
<1> HIDE DEF g
<1>4. Picking(f)
  BY DEF FrameOk
<1>5. IsList(Tail(f.rest)) /\ Range(Tail(f.rest)) \subseteq Range(f.rest)
  BY <1>4, TailIs DEF Picking
<1>6. Picking(g)
  BY <1>3, <1>4, <1>5 DEF Picking
<1>7. FrameOk(g)
  BY <1>2, <1>3, <1>6, SameFrame
<1>8. QED
  BY <1>7 DEF g

(* ----------------------- the steps of the search ------------------------ *)

\* The frame the search works on.
LEMMA TopIsOk == ASSUME FramesOk PROVE FrameOk(Top)
<1>1. IsList(frames) /\ frames # <<>>
  BY DEF FramesOk
<1>2. Len(frames) \in DOMAIN frames
  BY <1>1, ListBasics
<1>3. QED
  BY <1>2 DEF Top, FramesOk

\* Frames that were shown to be in order are so after the step.
LEMMA FramesKept ==
  ASSUME UNCHANGED Data, NEW t, frames' = t,
         IsList(t), t # <<>>, \A k \in DOMAIN t : FrameOk(t[k])
  PROVE FramesOk'
<1>1. \A f : FrameOk(f)' <=> FrameOk(f)
  BY DataKept
<1>2. QED
  BY <1>1 DEF FramesOk

\* The search starts with the package asked for and the range it was asked for with.
LEMMA StartIsOk ==
  ASSUME Start PROVE FramesOk'
<1>0. PICK a, w : a = root' /\ w = range'
  OBVIOUS
<1>1. PICK f : /\ frames' = <<f>>
               /\ f = [assigned |-> <<>>, wants |-> [id \in {a} |-> {w}], order |-> <<a>>,
                       needs |-> <<>>, pick |-> Nobody, rest |-> <<>>]
  BY <1>0 DEF Start
<1>2. /\ IsList(<<a>>) /\ Range(<<a>>) = {a} /\ <<a>>[1] = a /\ <<a>> # <<>>
      /\ DOMAIN <<a>> = {1}
  <2>1. <<a>> \in Seq({a})
    OBVIOUS
  <2>2. DOMAIN <<a>> = {1} /\ <<a>>[1] = a /\ <<a>> # <<>>
    OBVIOUS
  <2>3. Range(<<a>>) = {a}
    BY <2>2 DEF Range
  <2>4. QED
    BY <2>1, <2>2, <2>3, ListIs
<1>3. f.assigned = <<>> /\ f.order = <<a>> /\ f.needs = <<>> /\ f.pick = Nobody
      /\ f.wants = [id \in {a} |-> {w}]
      /\ f = [assigned |-> f.assigned, wants |-> f.wants, order |-> f.order,
              needs |-> f.needs, pick |-> f.pick, rest |-> f.rest]
  BY <1>1
<1>4. DOMAIN f.assigned = {} /\ DOMAIN f.needs = {}
  BY <1>3
<1>5. DOMAIN f.wants = {a} /\ f.wants[a] = {w}
  BY <1>3
<1>6. Shape(f)'
  BY <1>0, <1>2, <1>3, <1>4, <1>5 DEF Shape
<1>7. Reached(f)' /\ Picking(f)'
  BY <1>2, <1>3 DEF Reached, Picking
<1>8. Grounded(f)'
  BY <1>0, <1>5 DEF Grounded
<1>9. FrameOk(f)'
  BY <1>4, <1>6, <1>7, <1>8 DEF FrameOk
<1>10. IsList(<<f>>) /\ DOMAIN <<f>> = {1} /\ <<f>>[1] = f /\ <<f>> # <<>>
  BY DEF IsList, Range
<1>11. QED
  BY <1>1, <1>9, <1>10 DEF FramesOk

\* What was checked of an index holds while the index is the same.
LEMMA ValidityKept ==
  ASSUME index' = index
  PROVE /\ ValidIndex' <=> ValidIndex
        /\ ValidPackages(index.packages \o index.private)' <=> ValidPackages(index.packages \o index.private)
<1>1. \A ps, id : KnowsCapability(ps, id)' <=> KnowsCapability(ps, id)
  BY DEF KnowsCapability
<1>2. \A ps : ValidPackages(ps)' <=> ValidPackages(ps)
  BY DEF ValidPackages, Supplies
<1>3. QED
  BY <1>1, <1>2 DEF ValidIndex

\* The search goes on, one frame less.
LEMMA BackIsOk ==
  ASSUME PInv, step = "search", UNCHANGED Data, UNCHANGED <<path, ordered>>, frames' = Below, Back
  PROVE PInv'
<1>1. FramesOk
  BY DEF PInv, FramesOk, Searching
<1>2. /\ IsList(Below) /\ DOMAIN Below = 1 .. (Len(frames) - 1)
      /\ \A k \in DOMAIN Below : Below[k] = frames[k]
  BY <1>1, BelowIs DEF FramesOk, Below
<1>3. Len(frames) \in Nat /\ DOMAIN frames = 1 .. Len(frames)
  BY <1>1, ListBasics DEF FramesOk
<1>4. \A k \in DOMAIN Below : FrameOk(Below[k])
  <2>1. \A k \in DOMAIN Below : k \in DOMAIN frames
    BY <1>2, <1>3
  <2>2. QED
    BY <1>1, <1>2, <2>1 DEF FramesOk
<1>5. index' = index /\ env' = env /\ private' = private
  BY DEF Data, question
<1>6. ValidIndex' /\ (private' => ValidPackages(index.packages \o index.private)') /\ index' \in Indexes
      /\ path' = <<>> /\ ordered' = <<>>
  BY <1>5, ValidityKept DEF PInv, Searching
<1>7. CASE Below = <<>>
  BY <1>5, <1>6, <1>7 DEF Back, Finish, PInv, Searching
<1>8. CASE Below # <<>>
  <2>1. FramesOk'
    <3>1. PICK t : t = Below
      OBVIOUS
    <3>2. QED
      BY <1>2, <1>4, <1>8, <3>1, FramesKept
  <2>2. step' = step /\ outcome' = outcome
    BY <1>8 DEF Back
  <2>3. QED
    BY <1>5, <1>6, <2>1, <2>2 DEF FramesOk, PInv, Searching
<1>9. QED
  BY <1>7, <1>8

\* The search goes on with other frames.
LEMMA OnIsOk ==
  ASSUME PInv, step = "search", UNCHANGED Data, UNCHANGED <<path, ordered, step, outcome>>, FramesOk'
  PROVE PInv'
<1>1. index' = index /\ env' = env /\ private' = private
  BY DEF Data, question
<1>2. ValidIndex' /\ (private' => ValidPackages(index.packages \o index.private)') /\ index' \in Indexes
  BY <1>1, ValidityKept DEF PInv, Searching
<1>3. QED
  BY <1>1, <1>2 DEF FramesOk, PInv, Searching

\* What ends a question, whatever it found.
LEMMA FinishIsOk ==
  ASSUME PInv, step \in Searching, UNCHANGED Data, step' = "done"
  PROVE PInv'
<1>1. index' = index /\ env' = env /\ private' = private
  BY DEF Data, question
<1>2. ValidIndex' /\ index' \in Indexes
  BY <1>1, ValidityKept DEF PInv, Searching
<1>3. QED
  BY <1>1, <1>2 DEF PInv, Searching

\* The search gives the top frame a package to try, and that package's candidates.
LEMMA PickDoes ==
  ASSUME PInv, Pick
  PROVE \E id, f, g, t :
          /\ f = Top /\ FrameOk(f) /\ id \in Range(Unresolved(f)) /\ id \in Ids
          /\ g = [assigned |-> f.assigned, wants |-> f.wants, order |-> f.order,
                  needs |-> f.needs, pick |-> id, rest |-> CandidatesOf(f, id)]
          /\ FrameOk(g)
          /\ t = frames' /\ IsList(t) /\ t # <<>> /\ Len(t) = Len(frames)
          /\ \A k \in DOMAIN t : t[k] = IF k = Len(frames) THEN g ELSE frames[k]
<1>1. FramesOk /\ step = "search" /\ index \in Indexes
  BY DEF PInv, FramesOk, Searching, Pick
<1>2. PICK n, f : n = Len(frames) /\ f = Top
  OBVIOUS
<1>3. n \in Nat /\ n # 0 /\ DOMAIN frames = 1 .. n /\ n \in DOMAIN frames
  BY <1>1, <1>2, ListBasics DEF FramesOk
<1>4. f = frames[n] /\ FrameOk(f)
  BY <1>1, <1>2, <1>3 DEF Top, FramesOk
<1>5. Unresolved(f) # <<>> /\ Unregistered(f) = {}
  BY <1>2 DEF Pick
<1>6. PICK count : count = [i \in Range(Unresolved(f)) |-> Len(CandidatesOf(f, i))]
  OBVIOUS
<1>7. PICK id : id = Fewest(Unresolved(f), count)
  OBVIOUS
<1>8. id \in Range(Unresolved(f))
  <2>1. IsList(Unresolved(f))
    BY <1>4, UnresolvedIs
  <2>2. ASSUME NEW i \in Range(Unresolved(f)) PROVE count[i] \in Nat
    <3>1. i \in Ids
      BY <1>5, <2>2 DEF Unregistered
    <3>2. IsList(Get(i).releases) /\ (Get(i).listed => NewestAreFirst(Get(i).releases))
      BY <1>1, <3>1, GetIs, PackagesAre
    <3>3. IsList(CandidatesOf(f, i))
      BY <3>2, CandidatesAre DEF CandidatesOf
    <3>4. QED
      BY <1>6, <2>2, <3>3, ListBasics
  <2>3. QED
    BY <1>5, <1>7, <2>1, <2>2, FewestIs
<1>9. id \in Ids
  BY <1>5, <1>8 DEF Unregistered
<1>10. PICK g : g = [f EXCEPT !.pick = id, !.rest = CandidatesOf(f, id)]
  OBVIOUS
<1>11. FrameOk(g)
  BY <1>1, <1>4, <1>8, <1>9, <1>10, PickIsOk
<1>12. PICK t : t = frames'
  OBVIOUS
<1>13. t = [frames EXCEPT ![n].pick = id, ![n].rest = CandidatesOf(f, id)]
  BY <1>2, <1>6, <1>7, <1>12 DEF Pick
<1>14. /\ t = [k \in DOMAIN t |-> t[k]] /\ DOMAIN t = DOMAIN frames
       /\ \A k \in DOMAIN frames : t[k] = IF k = n THEN g ELSE frames[k]
  <2>1. t = [k \in DOMAIN frames |-> IF k = n THEN g ELSE frames[k]]
    BY <1>3, <1>4, <1>10, <1>13
  <2>2. QED
    BY <2>1
<1>15. IsList(t) /\ t # <<>> /\ Len(t) = Len(frames)
  <2>1. IsList(frames) /\ frames # <<>>
    BY <1>1 DEF FramesOk
  <2>2. /\ t = [k \in DOMAIN t |-> t[k]] /\ DOMAIN t = DOMAIN frames
        /\ \A k \in DOMAIN frames : t[k] = IF k = Len(frames) THEN g ELSE frames[k]
    BY <1>2, <1>14
  <2>3. IsList(t) /\ t # <<>> /\ Len(t) = Len(frames) /\ t[Len(frames)] = g
    BY <2>1, <2>2, ReplacedIs
  <2>4. QED
    BY <1>2, <2>3
<1>16. g = [assigned |-> f.assigned, wants |-> f.wants, order |-> f.order,
             needs |-> f.needs, pick |-> id, rest |-> CandidatesOf(f, id)]
  <2>1. PICK rest : rest = CandidatesOf(f, id)
    OBVIOUS
  <2>2. f = [assigned |-> f.assigned, wants |-> f.wants, order |-> f.order,
             needs |-> f.needs, pick |-> f.pick, rest |-> f.rest]
    BY <1>4 DEF FrameOk, Shape
  <2>3. QED
    BY <1>10, <2>1, <2>2
<1>17. \A k \in DOMAIN t : t[k] = IF k = Len(frames) THEN g ELSE frames[k]
  BY <1>2, <1>14
<1>18. QED
  BY <1>2, <1>4, <1>8, <1>9, <1>11, <1>12, <1>15, <1>16, <1>17

\* The frames after a release r of the picked package was looked at: the top one
\* has dropped it, and when it fits there is one more.
Tried(f, r, deps, g, t) ==
  LET h == Assign(f, f.pick, r, deps) IN
  /\ IsList(t) /\ t # <<>>
  /\ \A k \in 1 .. Len(frames) : t[k] = IF k = Len(frames) THEN g ELSE frames[k]
  /\ IF FitsNew(h, deps) THEN Len(t) = Len(frames) + 1 /\ t[Len(frames) + 1] = Constrain(h, deps)
     ELSE Len(t) = Len(frames)

\* What becomes of the next release of the package that is tried.
LEMMA TryDoes ==
  ASSUME PInv, Try
  PROVE \E f, r, found, g, t :
          /\ f = Top /\ FrameOk(f) /\ f.pick # Nobody /\ f.rest # <<>> /\ IsList(f.rest)
          /\ r = Head(f.rest) /\ r \in Range(f.rest) /\ found = Needed(f.pick, r)
          /\ g = [assigned |-> f.assigned, wants |-> f.wants, order |-> f.order,
                  needs |-> f.needs, pick |-> f.pick, rest |-> Tail(f.rest)]
          /\ FrameOk(g)
          /\ t = frames' /\ IF found.error # "none" THEN Finish(found.error) /\ t = frames
                            ELSE UNCHANGED <<step, outcome>> /\ Tried(f, r, found.deps, g, t)
<1>1. FramesOk /\ step = "search" /\ index \in Indexes
  BY DEF PInv, FramesOk, Searching, Try
<1>2. PICK n, f : n = Len(frames) /\ f = Top
  OBVIOUS
<1>3. n \in Nat /\ n # 0 /\ DOMAIN frames = 1 .. n /\ n \in DOMAIN frames
  BY <1>1, <1>2, ListBasics DEF FramesOk
<1>4. f = frames[n] /\ FrameOk(f)
  BY <1>1, <1>2, <1>3 DEF Top, FramesOk
<1>5. f.pick # Nobody /\ f.rest # <<>> /\ IsList(f.rest)
  BY <1>2, <1>4 DEF Try, FrameOk, Picking
<1>6. PICK r, found : r = Head(f.rest) /\ found = DependenciesFor(Get(f.pick), r)
  OBVIOUS
<1>7. r \in Range(f.rest)
  BY <1>5, <1>6, TailIs
<1>8. PICK deps : deps = found.deps
  OBVIOUS
<1>9. PICK next : next = Assign(f, f.pick, r, deps)
  OBVIOUS
<1>10. PICK g : g = [f EXCEPT !.rest = Tail(@)]
  OBVIOUS
<1>11. FrameOk(g)
  BY <1>4, <1>5, <1>10, DropIsOk
<1>12. PICK dropped : dropped = [frames EXCEPT ![n].rest = Tail(@)]
  OBVIOUS
<1>13. /\ dropped = [k \in DOMAIN dropped |-> dropped[k]] /\ DOMAIN dropped = DOMAIN frames
       /\ \A k \in DOMAIN frames : dropped[k] = IF k = n THEN g ELSE frames[k]
  <2>1. dropped = [k \in DOMAIN frames |-> IF k = n THEN g ELSE frames[k]]
    BY <1>3, <1>4, <1>10, <1>12
  <2>2. QED
    BY <2>1
<1>14. IsList(dropped) /\ dropped # <<>> /\ Len(dropped) = n
  <2>1. IsList(frames) /\ frames # <<>>
    BY <1>1 DEF FramesOk
  <2>2. /\ dropped = [k \in DOMAIN dropped |-> dropped[k]] /\ DOMAIN dropped = DOMAIN frames
        /\ \A k \in DOMAIN frames : dropped[k] = IF k = Len(frames) THEN g ELSE frames[k]
    BY <1>2, <1>13
  <2>3. IsList(dropped) /\ dropped # <<>> /\ Len(dropped) = Len(frames) /\ dropped[Len(frames)] = g
    BY <2>1, <2>2, ReplacedIs
  <2>4. QED
    BY <1>2, <2>3
<1>15. g = [assigned |-> f.assigned, wants |-> f.wants, order |-> f.order,
             needs |-> f.needs, pick |-> f.pick, rest |-> Tail(f.rest)]
  <2>1. f = [assigned |-> f.assigned, wants |-> f.wants, order |-> f.order,
             needs |-> f.needs, pick |-> f.pick, rest |-> f.rest]
    BY <1>4 DEF FrameOk, Shape
  <2>2. QED
    BY <1>10, <2>1
<1>16. PICK t : t = frames'
  OBVIOUS
<1>17. IF found.error # "none" THEN Finish(found.error) /\ t = frames
       ELSE /\ UNCHANGED <<step, outcome>>
            /\ t = IF FitsNew(next, deps) THEN Append(dropped, Constrain(next, deps)) ELSE dropped
  BY <1>2, <1>6, <1>8, <1>9, <1>12, <1>16 DEF Try
<1>18. ASSUME found.error = "none" PROVE Tried(f, r, deps, g, t)
  <2>1. CASE ~FitsNew(next, deps)
    BY <1>2, <1>3, <1>9, <1>13, <1>14, <1>17, <1>18, <2>1 DEF Tried
  <2>2. CASE FitsNew(next, deps)
    <3>1. PICK deeper : deeper = Constrain(next, deps)
      OBVIOUS
    <3>2. t = Append(dropped, deeper)
      BY <1>17, <1>18, <2>2, <3>1
    <3>3. /\ IsList(t) /\ t # <<>> /\ Len(t) = n + 1
          /\ \A k \in 1 .. n : t[k] = dropped[k]
          /\ t[n + 1] = deeper
      BY <1>3, <1>13, <1>14, <3>2, AppendIs
    <3>4. QED
      BY <1>2, <1>3, <1>9, <1>13, <2>2, <3>1, <3>3 DEF Tried
  <2>3. QED
    BY <2>1, <2>2
<1>19. found = Needed(f.pick, r)
  BY <1>6 DEF Needed
<1>20. QED
  BY <1>2, <1>4, <1>5, <1>6, <1>7, <1>8, <1>11, <1>15, <1>16, <1>17, <1>18, <1>19

\* The steps of Next, one lemma each: each keeps the invariant.
LEMMA PickKeeps == ASSUME PInv, Pick PROVE PInv'
<1>1. FramesOk /\ step = "search"
  BY DEF PInv, FramesOk, Searching, Pick
<1>2. PICK id, f, g, t :
        /\ f = Top /\ FrameOk(f) /\ id \in Range(Unresolved(f)) /\ id \in Ids
        /\ g = [assigned |-> f.assigned, wants |-> f.wants, order |-> f.order,
                needs |-> f.needs, pick |-> id, rest |-> CandidatesOf(f, id)]
        /\ FrameOk(g)
        /\ t = frames' /\ IsList(t) /\ t # <<>> /\ Len(t) = Len(frames)
        /\ \A k \in DOMAIN t : t[k] = IF k = Len(frames) THEN g ELSE frames[k]
  BY PickDoes
<1>3. DOMAIN t = DOMAIN frames
  BY <1>1, <1>2, ListBasics DEF FramesOk
<1>4. \A k \in DOMAIN t : FrameOk(t[k])
  BY <1>1, <1>2, <1>3 DEF FramesOk
<1>5. UNCHANGED Data /\ UNCHANGED <<path, ordered, step, outcome>>
  BY DEF Pick, Data
<1>6. FramesOk'
  BY <1>2, <1>4, <1>5, FramesKept
<1>7. QED
  BY <1>1, <1>5, <1>6, OnIsOk

LEMMA TryKeeps == ASSUME PInv, Try PROVE PInv'
<1>1. FramesOk /\ step = "search" /\ index \in Indexes
  BY DEF PInv, FramesOk, Searching, Try
<1>2. PICK f, r, found, g, t :
        /\ f = Top /\ FrameOk(f) /\ f.pick # Nobody /\ f.rest # <<>> /\ IsList(f.rest)
        /\ r = Head(f.rest) /\ r \in Range(f.rest) /\ found = Needed(f.pick, r)
        /\ g = [assigned |-> f.assigned, wants |-> f.wants, order |-> f.order,
                needs |-> f.needs, pick |-> f.pick, rest |-> Tail(f.rest)]
        /\ FrameOk(g)
        /\ t = frames' /\ IF found.error # "none" THEN Finish(found.error) /\ t = frames
                          ELSE UNCHANGED <<step, outcome>> /\ Tried(f, r, found.deps, g, t)
  BY TryDoes
<1>3. UNCHANGED Data /\ UNCHANGED <<path, ordered>>
  BY DEF Try, Data
<1>4. CASE found.error # "none"
  BY <1>1, <1>2, <1>3, <1>4, FinishIsOk DEF Finish, Searching
<1>5. CASE found.error = "none"
  <2>1. PICK n, deps : n = Len(frames) /\ deps = found.deps
    OBVIOUS
  <2>2. n \in Nat /\ DOMAIN frames = 1 .. n
    BY <1>1, <2>1, ListBasics DEF FramesOk
  <2>3. PICK h : h = Assign(f, f.pick, r, deps)
    OBVIOUS
  <2>4. /\ IsList(t) /\ t # <<>> /\ \A k \in 1 .. n : t[k] = IF k = n THEN g ELSE frames[k]
        /\ IF FitsNew(h, deps) THEN Len(t) = n + 1 /\ t[n + 1] = Constrain(h, deps) ELSE Len(t) = n
    BY <1>2, <1>5, <2>1, <2>3 DEF Tried
  <2>5. FitsNew(h, deps) => FrameOk(Constrain(h, deps))
    BY <1>1, <1>2, <1>5, <2>1, <2>3, DeeperIsOk
  <2>6. \A k \in 1 .. n : FrameOk(t[k])
    BY <1>1, <1>2, <2>2, <2>4 DEF FramesOk
  <2>7. DOMAIN t = 1 .. Len(t)
    BY <2>4, ListBasics
  <2>8. \A k \in DOMAIN t : k \in 1 .. n \/ (FitsNew(h, deps) /\ k = n + 1)
    <3>1. Len(t) = n \/ (FitsNew(h, deps) /\ Len(t) = n + 1)
      BY <2>4
    <3>2. \A k \in 1 .. (n + 1) : k \in 1 .. n \/ k = n + 1
      BY <2>2
    <3>3. QED
      BY <2>7, <3>1, <3>2
  <2>9. \A k \in DOMAIN t : FrameOk(t[k])
    BY <2>4, <2>5, <2>6, <2>8
  <2>10. FramesOk'
    BY <1>2, <1>3, <2>4, <2>9, FramesKept
  <2>11. QED
    BY <1>1, <1>2, <1>3, <1>5, <2>10, OnIsOk
<1>6. QED
  BY <1>4, <1>5

LEMMA StartKeeps ==
  ASSUME PInv, step = "catalog", Start, UNCHANGED <<index, machine, env, path, ordered, outcome>>,
         private' => ValidPackages(index.packages \o index.private)
  PROVE PInv'
<1>1. FramesOk'
  BY StartIsOk
<1>2. ValidIndex' /\ (private' => ValidPackages(index.packages \o index.private)') /\ index' \in Indexes
  BY ValidityKept DEF PInv
<1>3. step' = "search"
  BY DEF Start
<1>4. QED
  BY <1>1, <1>2, <1>3 DEF PInv, Searching, FramesOk

(* ------------------------------ the visit ------------------------------- *)

\* What a package with a release needs is a list of packages with a release.
LEMMA NeedsAre ==
  ASSUME NEW f, FrameOk(f), DOMAIN f.assigned = Range(f.order), NEW id \in DOMAIN f.assigned
  PROVE IsList(f.needs[id]) /\ Range(f.needs[id]) \subseteq DOMAIN f.assigned
<1>1. Chosen(f, id) /\ DOMAIN f.wants = Range(f.order)
  BY DEF FrameOk, Shape
<1>2. QED
  BY <1>1 DEF Chosen

\* What is ordered stays so.
LEMMA LaidKept ==
  ASSUME NEW f, Laid(f), ordered' = ordered
  PROVE Laid(f)'
BY DEF Laid

\* A search that has found releases begins the visit with the package asked for.
LEMMA VisitBegins ==
  ASSUME NEW f, FrameOk(f), f = Top, Found, Laid(f), ordered = <<>>, UNCHANGED Data
  PROVE VisitOk(f)'
<1>1. f.order # <<>> /\ f.order[1] = root /\ IsList(f.order) /\ DOMAIN f.assigned \subseteq Range(f.order)
  BY DEF FrameOk, Shape
<1>2. Range(Unresolved(f)) = {} /\ IsList(Unresolved(f))
  <2>1. Unresolved(f) = <<>>
    BY DEF Found
  <2>2. QED
    BY <2>1, UnresolvedIs, ListBasics
<1>3. DOMAIN f.assigned = Range(f.order)
  BY <1>1, <1>2, UnresolvedIs
<1>4. root \in DOMAIN f.assigned
  BY <1>1, <1>3, FirstIsIn
<1>5. PICK e : e = [id |-> root, rest |-> f.needs[root]]
  OBVIOUS
<1>6. e = [id |-> e.id, rest |-> e.rest] /\ e.id = root /\ e.rest = f.needs[root]
  BY <1>5
<1>7. path' = <<e>> /\ step' = "order" /\ ordered' = ordered /\ root' = root
  BY <1>5 DEF Found, Data, question
<1>8. IsList(<<e>>) /\ DOMAIN <<e>> = {1} /\ <<e>>[1] = e /\ <<e>> # <<>> /\ Len(<<e>>) = 1
  BY DEF IsList, Range
<1>9. IsList(f.needs[root])
  BY <1>3, <1>4, NeedsAre
<1>10. Range(ordered) = {}
  BY DEF Range
<1>11. Walk(f)'
  BY <1>4, <1>6, <1>7, <1>8, <1>9, <1>10 DEF Walk, After
<1>12. Laid(f)'
  BY <1>7, LaidKept
<1>13. QED
  BY <1>3, <1>6, <1>7, <1>8, <1>11, <1>12 DEF VisitOk

\* A dependency is visited: it is ordered already, or next on the path.
LEMMA VisitGoesOn ==
  ASSUME NEW f, FrameOk(f), f = Top, VisitOk(f), Visit, step' = "order"
  PROVE VisitOk(f)'
<1>1. /\ path # <<>> /\ IsList(path) /\ DOMAIN f.assigned = Range(f.order) /\ path[1].id = root
      /\ Walk(f) /\ Laid(f)
  BY DEF Visit, VisitOk, Walk
<1>2. PICK n, h : n = Len(path) /\ h = path[n]
  OBVIOUS
<1>3. n \in Nat /\ n # 0 /\ DOMAIN path = 1 .. n /\ n \in DOMAIN path
  BY <1>1, <1>2, ListBasics
<1>4. /\ h = [id |-> h.id, rest |-> h.rest] /\ IsList(h.rest)
      /\ h.id \in DOMAIN f.assigned \ Range(ordered)
      /\ Range(h.rest) \subseteq Range(f.needs[h.id])
      /\ Range(f.needs[h.id]) \subseteq Range(h.rest) \cup Range(ordered)
  BY <1>1, <1>2, <1>3 DEF Walk, After
<1>5. Here = h /\ h.rest # <<>>
  BY <1>2 DEF Here, Visit
<1>6. PICK id, rest : id = Head(h.rest) /\ rest = Tail(h.rest)
  OBVIOUS
<1>7. IsList(rest) /\ Range(h.rest) = {id} \cup Range(rest)
  BY <1>4, <1>5, <1>6, TailIs
<1>8. PICK g : g = [h EXCEPT !.rest = rest]
  OBVIOUS
<1>9. g = [id |-> g.id, rest |-> g.rest] /\ g.id = h.id /\ g.rest = rest
  BY <1>4, <1>8
<1>10. PICK trail : trail = [path EXCEPT ![n] = g]
  OBVIOUS
<1>11. trail = [path EXCEPT ![Len(path)].rest = Tail(@)]
  BY <1>2, <1>3, <1>6, <1>8, <1>10
<1>12. /\ IsList(trail) /\ trail # <<>> /\ Len(trail) = n /\ DOMAIN trail = 1 .. n /\ trail[n] = g
       /\ \A k \in 1 .. (n - 1) : trail[k] = path[k]
  <2>1. /\ trail = [k \in DOMAIN trail |-> trail[k]] /\ DOMAIN trail = DOMAIN path
        /\ \A k \in DOMAIN path : trail[k] = IF k = Len(path) THEN g ELSE path[k]
    BY <1>2, <1>3, <1>10
  <2>2. /\ IsList(trail) /\ trail # <<>> /\ Len(trail) = Len(path)
        /\ trail[Len(path)] = g
        /\ \A k \in 1 .. (Len(path) - 1) : trail[k] = path[k]
    BY <1>1, <2>1, ReplacedIs
  <2>3. QED
    BY <1>2, <1>3, <2>1, <2>2
<1>13. ordered' = ordered /\ root' = root
  BY DEF Visit, question
<1>14. \A k \in 1 .. n : trail[k].id = path[k].id
  <2>1. \A k \in 1 .. n : k \in 1 .. (n - 1) \/ k = n
    BY <1>3
  <2>2. QED
    BY <1>2, <1>9, <1>12, <2>1
<1>15. Laid(f)'
  BY <1>1, <1>13, LaidKept
<1>16. \A k \in 1 .. (n - 1) :
         /\ trail[k] = [id |-> trail[k].id, rest |-> trail[k].rest] /\ IsList(trail[k].rest)
         /\ trail[k].id \in DOMAIN f.assigned \ Range(ordered)
         /\ Range(trail[k].rest) \subseteq Range(f.needs[trail[k].id])
         /\ Range(f.needs[trail[k].id]) \subseteq Range(trail[k].rest) \cup Range(ordered) \cup {trail[k + 1].id}
  <2>1. ASSUME NEW k \in 1 .. (n - 1) PROVE k \in 1 .. n /\ k + 1 \in 1 .. n /\ k # n
    BY <1>3
  <2>2. QED
    BY <1>1, <1>2, <1>3, <1>12, <1>14, <2>1 DEF Walk, After
<1>17. /\ trail[n] = [id |-> trail[n].id, rest |-> trail[n].rest] /\ IsList(trail[n].rest)
       /\ trail[n].id \in DOMAIN f.assigned \ Range(ordered)
       /\ Range(trail[n].rest) \subseteq Range(f.needs[trail[n].id])
       /\ Range(f.needs[trail[n].id]) \subseteq Range(trail[n].rest) \cup Range(ordered) \cup {id}
  BY <1>4, <1>7, <1>9, <1>12
<1>18. \A k, l \in 1 .. n : trail[k].id = trail[l].id => k = l
  BY <1>1, <1>3, <1>14 DEF Walk
<1>19. trail[1].id = root
  BY <1>1, <1>3, <1>14
<1>20. CASE id \in Range(ordered)
  <2>1. path' = trail
    BY <1>5, <1>6, <1>11, <1>20 DEF Visit
  <2>2. \A k \in 1 .. n : k \in 1 .. (n - 1) \/ k = n
    BY <1>3
  <2>3. \A k \in 1 .. (n - 1) : k # n
    BY <1>3
  <2>6. ASSUME NEW k \in 1 .. n
        PROVE /\ trail[k] = [id |-> trail[k].id, rest |-> trail[k].rest] /\ IsList(trail[k].rest)
              /\ trail[k].id \in DOMAIN f.assigned \ Range(ordered)
              /\ Range(trail[k].rest) \subseteq Range(f.needs[trail[k].id])
              /\ Range(f.needs[trail[k].id]) \subseteq Range(trail[k].rest) \cup Range(ordered)
                    \cup (IF k = n THEN {} ELSE {trail[k + 1].id})
    BY <1>16, <1>17, <1>20, <2>2, <2>3
  <2>4. Walk(f)'
    BY <1>12, <1>13, <1>18, <2>1, <2>6 DEF Walk, After
  <2>5. QED
    BY <1>1, <1>12, <1>13, <1>15, <1>19, <2>1, <2>4 DEF VisitOk
<1>21. CASE id \notin Range(ordered)
  <2>1. step = "order"
    BY DEF Visit
  <2>2. ~ \E i \in DOMAIN path : path[i].id = id
    BY <1>5, <1>6, <1>21 DEF Visit, Finish
  <2>3. PICK e : e = [id |-> id, rest |-> f.needs[id]]
    OBVIOUS
  <2>4. e = [id |-> e.id, rest |-> e.rest] /\ e.id = id /\ e.rest = f.needs[id]
    BY <2>3
  <2>5. PICK longer : longer = Append(trail, e)
    OBVIOUS
  <2>6. path' = longer
    BY <1>5, <1>6, <1>11, <1>21, <2>2, <2>3, <2>5 DEF Visit
  <2>7. /\ IsList(longer) /\ longer # <<>> /\ Len(longer) = n + 1 /\ DOMAIN longer = 1 .. (n + 1)
        /\ \A k \in 1 .. n : longer[k] = trail[k]
        /\ longer[n + 1] = e
    BY <1>12, <2>5, AppendIs
  <2>8. id \in DOMAIN f.assigned
    <3>1. Range(f.needs[h.id]) \subseteq DOMAIN f.assigned
      BY <1>1, <1>4, NeedsAre
    <3>2. QED
      BY <1>4, <1>7, <3>1
  <2>9. IsList(f.needs[id])
    BY <1>1, <2>8, NeedsAre
  <2>10. \A k \in 1 .. (n + 1) : k \in 1 .. (n - 1) \/ k = n \/ k = n + 1
    BY <1>3
  <2>11. ASSUME NEW k \in 1 .. (n + 1)
         PROVE /\ longer[k] = [id |-> longer[k].id, rest |-> longer[k].rest] /\ IsList(longer[k].rest)
               /\ longer[k].id \in DOMAIN f.assigned \ Range(ordered)
               /\ Range(longer[k].rest) \subseteq Range(f.needs[longer[k].id])
               /\ Range(f.needs[longer[k].id]) \subseteq Range(longer[k].rest) \cup Range(ordered)
                     \cup (IF k = n + 1 THEN {} ELSE {longer[k + 1].id})
    <3>1. CASE k \in 1 .. (n - 1)
      <4>1. k \in 1 .. n /\ k + 1 \in 1 .. n /\ k # n + 1
        BY <1>3, <3>1
      <4>2. longer[k] = trail[k] /\ longer[k + 1] = trail[k + 1]
        BY <2>7, <4>1
      <4>3. QED
        BY <1>16, <3>1, <4>1, <4>2
    <3>2. CASE k = n
      <4>1. n \in 1 .. n /\ n # n + 1
        BY <1>3
      <4>2. longer[n] = trail[n] /\ longer[n + 1].id = id
        BY <2>4, <2>7, <4>1
      <4>3. QED
        BY <1>17, <3>2, <4>1, <4>2
    <3>3. CASE k = n + 1
      BY <1>21, <2>4, <2>7, <2>8, <2>9, <3>3
    <3>4. QED
      BY <2>10, <3>1, <3>2, <3>3
  <2>12. \A k, l \in 1 .. (n + 1) : longer[k].id = longer[l].id => k = l
    <3>1. \A k \in 1 .. (n + 1) : k \in 1 .. n \/ k = n + 1
      BY <1>3
    <3>2. \A k \in 1 .. n : longer[k].id = trail[k].id /\ longer[k].id # id
      BY <1>3, <1>14, <2>2, <2>7
    <3>3. longer[n + 1].id = id
      BY <2>4, <2>7
    <3>4. QED
      BY <1>18, <3>1, <3>2, <3>3
  <2>13. Walk(f)'
    BY <1>13, <2>6, <2>7, <2>11, <2>12 DEF Walk, After
  <2>14. longer[1].id = root
    BY <1>3, <1>19, <2>7
  <2>15. QED
    BY <1>1, <1>13, <1>15, <2>6, <2>7, <2>13, <2>14 DEF VisitOk
<1>22. QED
  BY <1>20, <1>21

\* A package whose dependencies are visited is ordered after them.
LEMMA VisitLeaves ==
  ASSUME NEW f, FrameOk(f), f = Top, VisitOk(f), Leave
  PROVE VisitOk(f)'
<1>1. /\ path # <<>> /\ IsList(path) /\ DOMAIN f.assigned = Range(f.order) /\ path[1].id = root
      /\ Walk(f) /\ Laid(f)
  BY DEF Leave, VisitOk, Walk
<1>2. PICK n, h : n = Len(path) /\ h = path[n]
  OBVIOUS
<1>3. n \in Nat /\ n # 0 /\ DOMAIN path = 1 .. n /\ n \in DOMAIN path
  BY <1>1, <1>2, ListBasics
<1>4. h.rest = <<>> /\ ordered' = Append(ordered, h.id) /\ path' = SubSeq(path, 1, n - 1)
      /\ root' = root /\ step' = (IF path' = <<>> THEN "prepare" ELSE "order")
  BY <1>2 DEF Leave, Here, question
<1>5. /\ h.id \in DOMAIN f.assigned \ Range(ordered)
      /\ Range(f.needs[h.id]) \subseteq Range(ordered)
  <2>1. Range(<<>>) = {}
    BY DEF Range
  <2>2. QED
    BY <1>1, <1>2, <1>3, <1>4, <2>1 DEF Walk, After
<1>6. PICK short : short = SubSeq(path, 1, n - 1)
  OBVIOUS
<1>7. /\ IsList(short) /\ DOMAIN short = 1 .. (n - 1) /\ Len(short) = n - 1
      /\ \A k \in 1 .. (n - 1) : short[k] = path[k]
  BY <1>1, <1>2, <1>6, BelowIs
<1>8. PICK m, longer : m = Len(ordered) /\ longer = Append(ordered, h.id)
  OBVIOUS
<1>9. /\ IsList(ordered) /\ m \in Nat /\ DOMAIN ordered = 1 .. m
      /\ \A i \in 1 .. m : ordered[i] \in Range(ordered)
      /\ \A x \in Range(ordered) : \E i \in 1 .. m : ordered[i] = x
  <2>1. IsList(ordered)
    BY <1>1 DEF Laid
  <2>2. QED
    BY <1>8, <2>1, ListBasics
<1>10. /\ IsList(longer) /\ Range(longer) = Range(ordered) \cup {h.id}
       /\ DOMAIN longer = 1 .. (m + 1)
       /\ \A i \in 1 .. m : longer[i] = ordered[i]
       /\ longer[m + 1] = h.id
  BY <1>8, <1>9, AppendIs
<1>11. path' = short /\ ordered' = longer
  BY <1>4, <1>6, <1>8
<1>12. Laid(f)'
  <2>1. IsInjective(longer)
    <3>1. \A i \in 1 .. (m + 1) : i \in 1 .. m \/ i = m + 1
      BY <1>9
    <3>2. \A i, j \in 1 .. m : longer[i] = longer[j] => i = j
      BY <1>1, <1>9, <1>10 DEF Laid, IsInjective
    <3>3. \A i \in 1 .. m : longer[i] # h.id
      BY <1>5, <1>9, <1>10
    <3>4. QED
      BY <1>10, <3>1, <3>2, <3>3 DEF IsInjective
  <2>2. ASSUME NEW i \in 1 .. (m + 1), NEW id \in Range(f.needs[longer[i]])
        PROVE \E j \in 1 .. (i - 1) : longer[j] = id
    <3>1. CASE i \in 1 .. m
      <4>1. PICK j \in 1 .. (i - 1) : ordered[j] = id
        BY <1>1, <1>9, <1>10, <2>2, <3>1 DEF Laid
      <4>2. j \in 1 .. m
        BY <1>9, <3>1
      <4>3. QED
        BY <1>10, <4>1, <4>2
    <3>2. CASE i = m + 1
      <4>1. id \in Range(ordered)
        BY <1>5, <1>10, <2>2, <3>2
      <4>2. PICK j \in 1 .. m : ordered[j] = id
        BY <1>9, <4>1
      <4>3. QED
        BY <1>9, <1>10, <3>2, <4>2
    <3>3. QED
      BY <1>9, <3>1, <3>2
  <2>3. Range(longer) \subseteq DOMAIN f.assigned
    BY <1>1, <1>5, <1>10 DEF Laid
  <2>4. QED
    BY <1>10, <1>11, <2>1, <2>2, <2>3 DEF Laid
<1>13. Walk(f)'
  <2>1. ASSUME NEW k \in 1 .. (n - 1)
        PROVE /\ short[k] = [id |-> short[k].id, rest |-> short[k].rest] /\ IsList(short[k].rest)
              /\ short[k].id \in DOMAIN f.assigned \ Range(longer)
              /\ Range(short[k].rest) \subseteq Range(f.needs[short[k].id])
              /\ Range(f.needs[short[k].id]) \subseteq Range(short[k].rest) \cup Range(longer)
                    \cup (IF k = n - 1 THEN {} ELSE {short[k + 1].id})
    <3>1. k \in DOMAIN path /\ k # n /\ n \in DOMAIN path
      BY <1>3
    <3>2. path[k].id # h.id
      BY <1>1, <1>2, <3>1 DEF Walk
    <3>3. k = n - 1 => path[k + 1].id = h.id
      BY <1>2, <1>3
    <3>4. k # n - 1 => path[k + 1] = short[k + 1]
      BY <1>3, <1>7
    <3>5. /\ path[k] = [id |-> path[k].id, rest |-> path[k].rest] /\ IsList(path[k].rest)
          /\ path[k].id \in DOMAIN f.assigned \ Range(ordered)
          /\ Range(path[k].rest) \subseteq Range(f.needs[path[k].id])
          /\ Range(f.needs[path[k].id]) \subseteq Range(path[k].rest) \cup Range(ordered) \cup {path[k + 1].id}
      BY <1>1, <1>2, <3>1 DEF Walk, After
    <3>6. short[k] = path[k]
      BY <1>7
    <3>7. QED
      BY <1>10, <3>2, <3>3, <3>4, <3>5, <3>6
  <2>2. \A k, l \in 1 .. (n - 1) : short[k].id = short[l].id => k = l
    BY <1>1, <1>3, <1>7 DEF Walk
  <2>3. QED
    BY <1>7, <1>11, <2>1, <2>2 DEF Walk, After
<1>14. CASE short = <<>>
  <2>1. n = 1
    BY <1>3, <1>7, <1>14, ListBasics
  <2>2. root \in Range(longer)
    BY <1>1, <1>2, <1>10, <2>1
  <2>3. QED
    BY <1>1, <1>4, <1>11, <1>12, <1>13, <1>14, <2>2 DEF VisitOk
<1>15. CASE short # <<>>
  <2>1. 1 \in 1 .. (n - 1)
    BY <1>3, <1>7, <1>15, ListBasics
  <2>2. short[1].id = root
    BY <1>1, <1>7, <2>1
  <2>3. QED
    BY <1>1, <1>4, <1>11, <1>12, <1>13, <1>15, <2>2 DEF VisitOk
<1>16. QED
  BY <1>14, <1>15

LEMMA FoundKeeps == ASSUME PInv, Found PROVE PInv'
<1>1. FramesOk /\ step = "search" /\ index \in Indexes /\ path = <<>> /\ ordered = <<>>
  BY DEF PInv, FramesOk, Searching, Found
<1>2. PICK f : f = Top
  OBVIOUS
<1>3. FrameOk(f)
  BY <1>1, <1>2, TopIsOk
<1>4. Laid(f)
  <2>1. IsList(<<>>) /\ Range(<<>>) = {} /\ DOMAIN <<>> = {}
    BY DEF IsList, Range
  <2>2. QED
    BY <1>1, <2>1 DEF Laid, IsInjective
<1>5. UNCHANGED Data /\ frames' = frames /\ outcome' = outcome /\ step' = "order"
  BY DEF Found, Data
<1>6. VisitOk(f)'
  BY <1>1, <1>2, <1>3, <1>4, <1>5, VisitBegins
<1>7. Top' = f
  BY <1>2, <1>5 DEF Top
<1>8. FramesOk'
  BY <1>1, <1>5, FramesKept DEF FramesOk
<1>9. index' = index /\ env' = env /\ private' = private
  BY <1>5 DEF Data, question
<1>10. ValidIndex' /\ (private' => ValidPackages(index.packages \o index.private)') /\ index' \in Indexes
  BY <1>1, <1>9, ValidityKept DEF PInv, Searching
<1>11. VisitOk(Top)'
  BY <1>6, <1>7
<1>12. QED
  BY <1>1, <1>5, <1>8, <1>9, <1>10, <1>11 DEF PInv, Searching, FramesOk

LEMMA VisitKeeps == ASSUME PInv, Visit \/ Leave PROVE PInv'
<1>1. FramesOk /\ step = "order" /\ index \in Indexes /\ VisitOk(Top) /\ outcome = "none"
  BY DEF PInv, FramesOk, Searching, Visit, Leave
<1>2. PICK f : f = Top
  OBVIOUS
<1>3. FrameOk(f)
  BY <1>1, <1>2, TopIsOk
<1>4. UNCHANGED Data /\ frames' = frames
  BY DEF Visit, Leave, Data
<1>5. Top' = f
  BY <1>2, <1>4 DEF Top
<1>6. index' = index /\ env' = env /\ private' = private
  BY <1>4 DEF Data, question
<1>7. ValidIndex' /\ (private' => ValidPackages(index.packages \o index.private)') /\ index' \in Indexes
  BY <1>1, <1>6, ValidityKept DEF PInv, Searching
<1>8. FramesOk'
  BY <1>1, <1>4, FramesKept DEF FramesOk
<1>9. CASE step' = "done"
  BY <1>1, <1>4, <1>9, FinishIsOk DEF Searching
<1>10. CASE step' # "done"
  <2>1. VisitOk(f)' /\ outcome' = outcome /\ step' \in {"order", "prepare"}
    <3>1. CASE Visit
      <4>1. step' = step /\ outcome' = outcome
        BY <1>10, <3>1 DEF Visit, Finish
      <4>2. QED
        BY <1>1, <1>2, <1>3, <3>1, <4>1, VisitGoesOn
    <3>2. CASE Leave
      <4>1. step' \in {"order", "prepare"} /\ outcome' = outcome
        BY <3>2 DEF Leave
      <4>2. QED
        BY <1>1, <1>2, <1>3, <3>2, <4>1, VisitLeaves
    <3>3. QED
      BY <3>1, <3>2
  <2>2. VisitOk(Top)'
    BY <1>5, <2>1
  <2>3. QED
    BY <1>1, <1>6, <1>7, <1>8, <2>1, <2>2 DEF PInv, Searching, FramesOk
<1>11. QED
  BY <1>9, <1>10

(* ---------------------------- in every state ---------------------------- *)

LEMMA InvBegins == ASSUME Init PROVE PInv
BY DEF Init, PInv, Searching

LEMMA InvKept == ASSUME PInv, [Next]_vars PROVE PInv'
<1>1. CASE Refuse
  BY <1>1, ValidityKept DEF Refuse, Finish, PInv, Searching
<1>2. CASE Open
  BY <1>2, ValidityKept DEF Open, PInv, Searching
<1>3. ASSUME NEW p, NEW named, Ask(p, named) PROVE PInv'
  BY <1>3, StartKeeps DEF Ask
<1>4. ASSUME NEW p, NEW wanted, Command(p, wanted) PROVE PInv'
  BY <1>4, StartKeeps DEF Command
<1>5. ASSUME NEW p, AskPrivate(p) PROVE PInv'
  <2>1. CASE ValidPackages(index.packages \o index.private)
    BY <1>5, <2>1, StartKeeps DEF AskPrivate
  <2>2. CASE ~ValidPackages(index.packages \o index.private)
    BY <1>5, <2>2, ValidityKept DEF AskPrivate, Finish, PInv, Searching
  <2>3. QED
    BY <2>1, <2>2
<1>6. CASE Unknown
  BY <1>6, FinishIsOk DEF Unknown, Finish, Searching, Data
<1>7. CASE Found
  BY <1>7, FoundKeeps
<1>8. CASE DeadEnd
  BY <1>8, BackIsOk DEF DeadEnd, Data
<1>9. CASE Pick
  BY <1>9, PickKeeps
<1>10. CASE Try
  BY <1>10, TryKeeps
<1>11. CASE Exhausted
  BY <1>11, BackIsOk DEF Exhausted, Data
<1>12. CASE Visit \/ Leave
  BY <1>12, VisitKeeps
<1>13. CASE Prepare
  BY <1>13, FinishIsOk DEF Prepare, Finish, Searching, Data
<1>14. CASE Again
  BY <1>14, ValidityKept DEF Again, PInv, Searching
<1>15. CASE UNCHANGED vars
  <2>1. UNCHANGED Data /\ UNCHANGED <<step, frames, path, ordered, outcome>>
    BY <1>15 DEF vars, Data
  <2>2. index' = index /\ env' = env /\ private' = private
    BY <2>1 DEF Data, question
  <2>3. step \in Searching => FramesOk'
    BY <2>1, FramesKept DEF PInv, FramesOk
  <2>4. step \in {"order", "prepare"} => VisitOk(Top)'
    <3>1. PICK f : f = Top
      OBVIOUS
    <3>2. Top' = f /\ path' = path /\ ordered' = ordered /\ step' = step /\ root' = root
      BY <2>1, <3>1 DEF Top, Data, question
    <3>3. (Walk(f)' <=> Walk(f)) /\ (Laid(f)' <=> Laid(f))
      BY <3>2 DEF Walk, After, Laid
    <3>4. VisitOk(f)' <=> VisitOk(f)
      BY <3>2, <3>3 DEF VisitOk
    <3>5. QED
      BY <3>1, <3>2, <3>4 DEF PInv
  <2>5. QED
    BY <2>1, <2>2, <2>3, <2>4, ValidityKept DEF PInv, FramesOk, Searching
<1>16. QED
  BY <1>1, <1>2, <1>3, <1>4, <1>5, <1>6, <1>7, <1>8, <1>9, <1>10, <1>11, <1>12, <1>13, <1>14, <1>15
     DEF Next

\* The search and the visit are in order in every state: a release is only ever
\* given to a package when it fits every wish known of, its needs become wishes, and
\* nothing is visited before what it needs.
THEOREM SearchInvariant == Spec => []PInv
<1>1. Init => PInv
  BY InvBegins
<1>2. PInv /\ [Next]_vars => PInv'
  BY InvKept
<1>3. QED
  BY <1>1, <1>2, PTL DEF Spec

(* ------------------------------- the plan ------------------------------- *)

\* Which step ends a question, and how.
LEMMA OutcomesAre ==
  ASSUME PInv, Next, outcome' \in {"none fits", "plan", "cycle", "two suppliers"}
  PROVE \/ outcome' = "plan" /\ Prepare /\ ~Clash
        \/ outcome' = "two suppliers" /\ Prepare
        \/ outcome' = "cycle" /\ Visit
        \/ outcome' = "none fits" /\ (DeadEnd \/ Exhausted) /\ Below = <<>>
<1>1. Errors \cap {"none fits", "plan", "cycle", "two suppliers"} = {}
  BY DEF Errors
<1>2. CASE Refuse \/ Unknown \/ Again
  BY <1>2 DEF Refuse, Unknown, Again, Finish
<1>3. ASSUME outcome' = outcome, step \in {"closed", "catalog"} \cup Searching PROVE FALSE
  BY <1>3 DEF PInv, Searching
<1>4. CASE Open \/ Found \/ Pick \/ Leave
  BY <1>3, <1>4 DEF Open, Found, Pick, Leave, Searching
<1>5. ~ \E p, named : Ask(p, named)
  BY <1>3 DEF Ask
<1>6. ~ \E p, wanted : Command(p, wanted)
  BY <1>3 DEF Command
<1>7. ~ \E p : AskPrivate(p)
  BY <1>3 DEF AskPrivate, Finish
<1>8. ~ Try
  <2>1. SUFFICES ASSUME Try PROVE FALSE
    OBVIOUS
  <2>2. FramesOk /\ step = "search" /\ index \in Indexes
    BY <2>1 DEF PInv, FramesOk, Searching, Try
  <2>3. PICK f : f = Top
    OBVIOUS
  <2>4. FrameOk(f)
    BY <2>2, <2>3, TopIsOk
  <2>5. f.pick \in Ids
    BY <2>1, <2>3, <2>4 DEF Try, FrameOk, Picking
  <2>6. IsList(Get(f.pick).types) /\ IsList(Get(f.pick).dependencies)
    BY <2>2, <2>5, GetIs, PackagesAre
  <2>7. PICK found : found = DependenciesFor(Get(f.pick), Head(f.rest))
    OBVIOUS
  <2>8. found.error \in Errors
    BY <2>2, <2>6, <2>7, PackagesAre, DependenciesAre
  <2>9. found.error # "none" => outcome' = found.error
    BY <2>1, <2>3, <2>7 DEF Try, Finish
  <2>10. found.error = "none" => outcome' = outcome
    BY <2>1, <2>3, <2>7 DEF Try
  <2>11. QED
    BY <1>1, <1>3, <2>2, <2>8, <2>9, <2>10 DEF Searching
<1>9. CASE DeadEnd \/ Exhausted
  BY <1>3, <1>9 DEF DeadEnd, Exhausted, Back, Finish, Searching
<1>10. CASE Visit
  <2>1. outcome' = "cycle" \/ outcome' = outcome
    BY <1>10 DEF Visit, Finish
  <2>2. QED
    BY <1>3, <1>10, <2>1 DEF Visit, Searching
<1>11. CASE Prepare
  BY <1>11 DEF Prepare, Finish
<1>12. QED
  BY <1>2, <1>4, <1>5, <1>6, <1>7, <1>8, <1>9, <1>10, <1>11 DEF Next

\* A visit that is over has ordered every package that has a release.
LEMMA AllAreOrdered ==
  ASSUME NEW f, FrameOk(f), VisitOk(f), path = <<>>
  PROVE Range(ordered) = DOMAIN f.assigned
<1>1. /\ IsList(f.order) /\ f.order[1] = root /\ DOMAIN f.assigned = Range(f.order)
      /\ root \in Range(ordered) /\ Laid(f) /\ Reached(f) /\ IsList(ordered)
  BY DEF FrameOk, Shape, VisitOk, Laid
<1>2. /\ Len(f.order) \in Nat /\ DOMAIN f.order = 1 .. Len(f.order)
      /\ \A id \in Range(f.order) : \E i \in DOMAIN f.order : f.order[i] = id
  BY <1>1, ListBasics
<1> DEFINE missing == {i \in DOMAIN f.order : f.order[i] \notin Range(ordered)}
<1>3. missing = {}
  <2>1. SUFFICES ASSUME missing # {} PROVE FALSE
    OBVIOUS
  <2>2. missing \in SUBSET Nat
    BY <1>2
  <2> HIDE DEF missing
  <2>3. PICK m \in missing : \A k \in missing : m <= k
    BY <2>1, <2>2, LeastExists
  <2>4. m \in DOMAIN f.order /\ f.order[m] \notin Range(ordered) /\ m \in Nat
    BY <1>2, <2>3 DEF missing
  <2>5. m > 1
    BY <1>1, <1>2, <2>4
  <2>6. PICK j \in 1 .. (m - 1) : f.order[j] \in DOMAIN f.assigned /\ f.order[m] \in Range(f.needs[f.order[j]])
    BY <1>1, <2>4, <2>5 DEF Reached
  <2>7. j \in DOMAIN f.order /\ ~(m <= j)
    BY <1>2, <2>4
  <2>8. f.order[j] \in Range(ordered)
    BY <2>3, <2>7 DEF missing
  <2>9. PICK i \in DOMAIN ordered : ordered[i] = f.order[j]
    BY <1>1, <2>8, ListBasics
  <2>10. PICK k \in 1 .. (i - 1) : ordered[k] = f.order[m]
    BY <1>1, <2>6, <2>9 DEF Laid
  <2>11. k \in DOMAIN ordered
    BY <1>1, <2>9, ListBasics
  <2>12. f.order[m] \in Range(ordered)
    BY <1>1, <2>10, <2>11, ListBasics
  <2>13. QED
    BY <2>4, <2>12
<1>4. \A id \in Range(f.order) : id \in Range(ordered)
  BY <1>2, <1>3
<1>5. Range(ordered) \subseteq DOMAIN f.assigned
  BY <1>1 DEF Laid
<1>6. QED
  BY <1>1, <1>4, <1>5

\* What is at hand when a plan is prepared.
LEMMA ReadyToPrepare ==
  ASSUME PInv, step = "prepare"
  PROVE /\ FrameOk(Top) /\ VisitOk(Top) /\ Laid(Top) /\ path = <<>> /\ index \in Indexes
        /\ Range(ordered) = DOMAIN Top.assigned /\ root \in Range(ordered) /\ ValidPackages(Packages)
<1>1. FramesOk /\ VisitOk(Top) /\ index \in Indexes
  BY DEF PInv, FramesOk, Searching
<1>2. FrameOk(Top)
  BY <1>1, TopIsOk
<1>3. path = <<>> /\ Laid(Top) /\ root \in Range(ordered)
  BY <1>1 DEF VisitOk
<1>4. Range(ordered) = DOMAIN Top.assigned
  BY <1>1, <1>2, <1>3, AllAreOrdered
<1>5. ValidPackages(Packages)
  BY DEF PInv, Searching, ValidIndex, Packages
<1>6. QED
  BY <1>1, <1>2, <1>3, <1>4, <1>5

\* What a plan that is prepared holds: each package once, after what it needs, with a
\* release that fits.
LEMMA SoundWhenPrepared ==
  ASSUME PInv, step = "prepare"
  PROVE /\ Range(ordered) = DOMAIN Top.assigned /\ IsInjective(ordered)
        /\ Satisfies(Top.assigned[root].version, range)
        /\ \A i \in DOMAIN ordered :
             LET p == Get(ordered[i])  r == Top.assigned[p.id] IN
             /\ r.assets /\ ~EnvBlocks(p, r)
             /\ \A d \in Range(DependenciesFor(p, r).deps) :
                  \E j \in 1 .. (i - 1) :
                    ordered[j] = d.id /\ Satisfies(Top.assigned[d.id].version, d.range)
<1>1. PICK f : f = Top
  OBVIOUS
<1>2. /\ FrameOk(f) /\ VisitOk(f) /\ Laid(f) /\ Range(ordered) = DOMAIN f.assigned /\ root \in Range(ordered)
  BY <1>1, ReadyToPrepare
<1>3. IsInjective(ordered) /\ IsList(ordered)
  BY <1>2 DEF Laid
<1>4. \A id \in DOMAIN f.assigned : Chosen(f, id)
  BY <1>2 DEF FrameOk
<1>5. Satisfies(f.assigned[root].version, range)
  <2>1. Chosen(f, root) /\ range \in f.wants[root]
    BY <1>2, <1>4 DEF FrameOk, Shape
  <2>2. QED
    BY <2>1 DEF Chosen, Fits
<1>6. ASSUME NEW i \in DOMAIN ordered, NEW p, p = Get(ordered[i]), NEW r, r = f.assigned[p.id]
      PROVE /\ r.assets /\ ~EnvBlocks(p, r)
            /\ \A d \in Range(DependenciesFor(p, r).deps) :
                 \E j \in 1 .. (i - 1) :
                   ordered[j] = d.id /\ Satisfies(f.assigned[d.id].version, d.range)
  <2>1. PICK id : id = ordered[i]
    OBVIOUS
  <2>2. id \in DOMAIN f.assigned
    BY <1>2, <1>3, <2>1, ListBasics
  <2>3. id \in Ids
    BY <1>4, <2>2 DEF Chosen, Offered
  <2>4. p.id = id /\ r = f.assigned[id]
    BY <1>6, <2>1, <2>3, GetIs
  <2>5. /\ Offered(id, r) /\ Range(f.needs[id]) = {d.id : d \in DepsOf(id, r)}
        /\ \A d \in DepsOf(id, r) : d.id \in DOMAIN f.wants /\ d.range \in f.wants[d.id]
    BY <1>4, <2>2, <2>4 DEF Chosen
  <2>6. r.assets /\ ~EnvBlocks(p, r)
    BY <1>6, <2>1, <2>5 DEF Offered
  <2>7. ASSUME NEW d \in Range(DependenciesFor(p, r).deps)
        PROVE \E j \in 1 .. (i - 1) :
                ordered[j] = d.id /\ Satisfies(f.assigned[d.id].version, d.range)
    <3>1. d \in DepsOf(id, r)
      BY <1>6, <2>1 DEF DepsOf, Needed
    <3>2. PICK j \in 1 .. (i - 1) : ordered[j] = d.id
      BY <1>2, <2>1, <2>5, <3>1 DEF Laid
    <3>3. d.id \in Range(ordered)
      <4>1. j \in DOMAIN ordered
        BY <1>3, ListBasics
      <4>2. QED
        BY <1>3, <3>2, <4>1, ListBasics
    <3>4. Chosen(f, d.id)
      BY <1>2, <1>4, <3>3
    <3>5. Satisfies(f.assigned[d.id].version, d.range)
      BY <2>5, <3>1, <3>4 DEF Chosen, Fits
    <3>6. QED
      BY <3>2, <3>5
  <2>8. QED
    BY <2>6, <2>7
<1>7. QED
  BY <1>1, <1>2, <1>3, <1>5, <1>6

\* PlanIsSound: a plan is asked for in the range that was asked for, names no package
\* twice, puts each after all it needs in a release that fits, and holds nothing the
\* environment refuses (application/solver.py, plan).
THEOREM PlanSound == Spec => PlanIsSound
<1>1. ASSUME PInv, Next, outcome' = "plan" PROVE step = "prepare"
  BY <1>1, OutcomesAre DEF Prepare
<1>2. PInv /\ [Next]_vars =>
        [outcome' = "plan" =>
           /\ Range(ordered) = DOMAIN Top.assigned /\ IsInjective(ordered)
           /\ Satisfies(Top.assigned[root].version, range)
           /\ \A i \in DOMAIN ordered :
                LET p == Get(ordered[i])  r == Top.assigned[p.id] IN
                /\ r.assets /\ ~EnvBlocks(p, r)
                /\ \A d \in Range(DependenciesFor(p, r).deps) :
                     \E j \in 1 .. (i - 1) :
                       ordered[j] = d.id /\ Satisfies(Top.assigned[d.id].version, d.range)]_vars
  BY <1>1, SoundWhenPrepared
<1>3. QED
  BY <1>2, SearchInvariant, PTL DEF Spec, PlanIsSound

\* A type that a package of the plan declares has one directory, or more of a
\* type that stands for any.
LEMMA DirectoriesWhenPrepared ==
  ASSUME PInv, step = "prepare", ~Clash, NEW id \in Range(ordered), NEW type \in Range(Get(id).types)
  PROVE LET suppliers == {q \in Range(ordered) : Supplies(Get(q), type)}
        IN suppliers # {} /\ (type.cat # "*" => Cardinality(suppliers) = 1)
<1> DEFINE suppliers == {q \in Range(ordered) : Supplies(Get(q), type)}
<1>1. PICK f : f = Top
  OBVIOUS
<1>2. /\ FrameOk(f) /\ Laid(f) /\ Range(ordered) = DOMAIN f.assigned
      /\ ValidPackages(Packages) /\ index \in Indexes
  BY <1>1, ReadyToPrepare
<1>3. PICK p, r : p = Get(id) /\ r = f.assigned[id]
  OBVIOUS
<1>4. Chosen(f, id)
  BY <1>2 DEF FrameOk
<1>5. id \in Ids /\ p \in Range(Packages) /\ p.id = id
  BY <1>3, <1>4, GetIs DEF Chosen, Offered
<1>6. IsList(Packages) /\ IsList(p.types) /\ IsList(p.dependencies)
      /\ \A q \in Range(Packages) : q.id # Nothing
  BY <1>2, <1>5, PackagesAre
<1>7. Supplied(p, type, DependenciesFor(p, r).deps)
  <2>1. DependenciesFor(p, r).error = "none"
    BY <1>3, <1>4 DEF Chosen, Needed
  <2>2. QED
    BY <1>3, <1>6, <2>1, DependenciesAre
<1>8. Range(ProvidersForType(type)) = {q \in Range(Packages) : Supplies(q, type)}
      /\ IsList(ProvidersForType(type))
  BY <1>6, KeptIsIn DEF ProvidersForType
<1>9. \A q \in Range(Packages) : Get(q.id) = q
  BY <1>2, GetOwn
<1>10. suppliers # {}
  <2>1. CASE ProvidersForType(type) = <<>>
    <3>1. PICK i \in DOMAIN p.types : p.types[i] = type
      BY <1>3, <1>6, ListBasics
    <3>2. \E q \in Range(Packages) : Supplies(q, type)
      BY <1>2, <1>5, <3>1 DEF ValidPackages
    <3>3. QED
      BY <1>8, <2>1, <3>2, ListBasics
  <2>2. CASE p \in Range(ProvidersForType(type))
    BY <1>3, <1>8, <2>2
  <2>3. CASE \E q \in Range(ProvidersForType(type)) : q.id \in {d.id : d \in Range(DependenciesFor(p, r).deps)}
    <3>1. PICK q \in Range(ProvidersForType(type)), d \in Range(DependenciesFor(p, r).deps) : q.id = d.id
      BY <2>3
    <3>2. d.id \in Range(ordered)
      <4>1. d \in DepsOf(id, r)
        BY <1>3, <3>1 DEF DepsOf, Needed
      <4>2. d.id \in Range(f.needs[id])
        BY <1>3, <1>4, <4>1 DEF Chosen
      <4>3. PICK i \in DOMAIN ordered : ordered[i] = id
        BY <1>2, ListBasics DEF Laid
      <4>4. PICK j \in 1 .. (i - 1) : ordered[j] = d.id
        BY <1>2, <4>2, <4>3 DEF Laid
      <4>5. IsList(ordered)
        BY <1>2 DEF Laid
      <4>6. j \in DOMAIN ordered
        BY <4>3, <4>5, ListBasics
      <4>7. QED
        BY <4>4, <4>5, <4>6, ListBasics
    <3>3. Get(q.id) = q /\ Supplies(q, type)
      BY <1>8, <1>9
    <3>4. QED
      BY <3>1, <3>2, <3>3
  <2>4. QED
    BY <1>7, <2>1, <2>2, <2>3 DEF Supplied
<1>11. ASSUME type.cat # "*" PROVE Cardinality(suppliers) = 1
  <2>1. \A a \in suppliers : type \in Get(a).supply
    BY <1>11 DEF Supplies
  <2>2. \A a, b \in suppliers : a = b
    BY <2>1 DEF Clash
  <2>3. PICK a : a \in suppliers
    BY <1>10
  <2>4. suppliers = {a}
    BY <2>2, <2>3
  <2> HIDE DEF suppliers
  <2>5. QED
    BY <2>4, FS_Singleton
<1>12. QED
  BY <1>10, <1>11

\* EveryTypeHasItsDirectory: each type that a package of a plan declares is supplied
\* by one package of the plan (application/preparer.py, the table of directories).
THEOREM DirectoriesKnown == Spec => EveryTypeHasItsDirectory
<1>1. ASSUME PInv, Next, outcome' = "plan" PROVE step = "prepare" /\ ~Clash
  BY <1>1, OutcomesAre DEF Prepare
<1>2. PInv /\ [Next]_vars =>
        [outcome' = "plan" =>
           \A id \in Range(ordered) : \A type \in Range(Get(id).types) :
             LET suppliers == {q \in Range(ordered) : Supplies(Get(q), type)}
             IN suppliers # {} /\ (type.cat # "*" => Cardinality(suppliers) = 1)]_vars
  BY <1>1, DirectoriesWhenPrepared
<1>3. QED
  BY <1>2, SearchInvariant, PTL DEF Spec, EveryTypeHasItsDirectory

\* ReadingsAgree: whatever the solver and the page are asked of one version and one
\* range, the two readers give one answer, for every index whose texts the order ranks.
THEOREM ReadersNeverDisagree == ASSUME TextsInOrder PROVE Spec => ReadingsAgree
<1> DEFINE Agreed ==
      /\ \A v \in AllVersions, r \in {g \in AllRanges : Canonical(g)} :
           Satisfies(v, r) <=> RangeAllows(v, r)
      /\ \A u, v, w \in AllVersions :
           /\ ~Less(u, u) /\ (u # v => (Less(u, v) <=> ~Less(v, u)))
           /\ Less(u, v) /\ Less(v, w) => Less(u, w)
<1>1. ASSUME PInv PROVE Agreed
  <2>1. index \in Indexes
    BY <1>1 DEF PInv, Data
  <2>2. \A v \in AllVersions : v \in Version
    BY <2>1, IndexAssumption DEF AllVersions
  <2>3. \A g \in AllRanges : IsRange(g)
    <3>1. ASSUME NEW p \in Range(index.packages)
          PROVE /\ \A d \in Range(p.dependencies) : IsRange(d.range)
                /\ \A r \in Range(p.releases) : \A n \in Range(r.needs) : IsRange(n.range)
      BY <2>1, IndexAssumption
    <3>2. \A i \in DOMAIN index.table : IsRange(index.table[i].version)
      BY <2>1, IndexAssumption
    <3>3. SUFFICES ASSUME NEW g \in AllRanges PROVE IsRange(g)
      OBVIOUS
    <3>4. CASE g \in {index.table[i].version : i \in DOMAIN index.table}
      BY <3>2, <3>4
    <3>5. CASE \E p \in Range(index.packages) : g \in {d.range : d \in Range(p.dependencies)}
      BY <3>1, <3>5
    <3>6. CASE \E p \in Range(index.packages) : \E r \in Range(p.releases) :
                 g \in {n.range : n \in Range(r.needs)}
      BY <3>1, <3>6
    <3>7. CASE g \notin {index.table[i].version : i \in DOMAIN index.table}
      <4>1. PICK p \in Range(index.packages) :
              g \in {d.range : d \in Range(p.dependencies)} \cup
                   UNION {{n.range : n \in Range(r.needs)} : r \in Range(p.releases)}
        BY <3>3, <3>7 DEF AllRanges
      <4>2. QED
        BY <3>5, <3>6, <4>1
    <3>8. QED
      BY <3>3, <3>4, <3>7
  <2>4. \A v \in AllVersions, r \in {g \in AllRanges : Canonical(g)} :
          Satisfies(v, r) <=> RangeAllows(v, r)
    BY <2>2, <2>3, ReadersAgree
  <2>5. \A u, v, w \in AllVersions :
          /\ ~Less(u, u) /\ (u # v => (Less(u, v) <=> ~Less(v, u)))
          /\ Less(u, v) /\ Less(v, w) => Less(u, w)
    BY <2>2, VersionOrder
  <2>6. QED
    BY <2>4, <2>5
<1>2. PInv => [env' # env => Agreed]_vars
  BY <1>1
<1>3. QED
  BY <1>2, SearchInvariant, PTL DEF ReadingsAgree

\* A release whose needs are known by one range each has the rows of its colour.
LEMMA RowsAre ==
  ASSUME index \in Indexes, NamedOnce, NEW p \in Range(Packages), NEW r \in Range(p.releases)
  PROVE LET verdict == ReleaseVerdict(env, p.category, r.needs)
            rows == Range(Axes(env, r.needs))
        IN /\ verdict = "incompatible" => "failed" \in rows \/ env.state \in Unusable
           /\ verdict = "compatible" => "failed" \notin rows /\ "satisfied" \in rows
<1> DEFINE verdict == ReleaseVerdict(env, p.category, r.needs)
           axes == Axes(env, r.needs)
           named(id) == {i \in DOMAIN r.needs : r.needs[i].id = id}
           ids == {env.gameId} \cup DOMAIN env.caps \cup {need.id : need \in Range(r.needs)}
           row(id, need) == IF RangeAllows(CapabilityVersion(env, id), need.range) THEN "satisfied" ELSE "failed"
<1>1. /\ DOMAIN r.needs \subseteq Nat
      /\ \A i, j \in DOMAIN r.needs : r.needs[i].id = r.needs[j].id => i = j
  <2>1. p \in Range(index.packages) \cup Range(index.private)
    <3>1. IsList(index.packages) /\ IsList(index.private)
      BY IndexAssumption
    <3>2. CASE private
      BY <3>1, <3>2, JoinedIs DEF Packages
    <3>3. CASE ~private
      BY <3>3 DEF Packages
    <3>4. QED
      BY <3>2, <3>3
  <2>2. IsList(r.needs)
    BY <2>1, IndexAssumption
  <2>3. QED
    BY <2>1, <2>2, ListBasics DEF NamedOnce
<1>2. DOMAIN axes = ids
  BY DEF Axes
<1>3. ASSUME NEW i \in DOMAIN r.needs, Known(env, r.needs[i].id)
      PROVE axes[r.needs[i].id] = row(r.needs[i].id, r.needs[i])
  <2>1. named(r.needs[i].id) = {i}
    BY <1>1
  <2>2. Max({i}) = i
    BY <1>1 DEF Max
  <2>3. r.needs[i].id \in ids
    BY DEF Range
  <2>4. QED
    BY <1>3, <2>1, <2>2, <2>3 DEF Axes
<1>4. ASSUME NEW id \in ids, axes[id] = "failed" PROVE Failed(env, r.needs) # {}
  <2>1. named(id) # {} /\ Known(env, id)
    BY <1>4 DEF Axes
  <2>2. PICK i \in DOMAIN r.needs : r.needs[i].id = id
    BY <2>1
  <2>3. ~RangeAllows(CapabilityVersion(env, id), r.needs[i].range)
    BY <1>3, <1>4, <2>1, <2>2
  <2>4. r.needs[i] \in Failed(env, r.needs)
    BY <2>1, <2>2, <2>3 DEF Failed, Judged, Range
  <2>5. QED
    BY <2>4
<1>5. ASSUME NEW need \in Judged(env, r.needs)
      PROVE axes[need.id] = row(need.id, need) /\ axes[need.id] \in Range(axes)
  <2>1. PICK i \in DOMAIN r.needs : need = r.needs[i]
    BY DEF Judged, Range
  <2>2. need.id \in ids /\ Known(env, need.id)
    BY DEF Judged
  <2>3. QED
    BY <1>2, <1>3, <2>1, <2>2 DEF Range
<1>6. verdict = "incompatible" => "failed" \in Range(axes) \/ env.state \in Unusable
  <2>1. SUFFICES ASSUME verdict = "incompatible", env.state \notin Unusable PROVE "failed" \in Range(axes)
    OBVIOUS
  <2>2. PICK need : need \in Failed(env, r.needs)
    BY <2>1 DEF ReleaseVerdict, Incompatible
  <2>3. need \in Judged(env, r.needs) /\ row(need.id, need) = "failed"
    BY <2>2 DEF Failed
  <2>4. QED
    BY <1>5, <2>3
<1>7. verdict = "compatible" => "failed" \notin Range(axes) /\ "satisfied" \in Range(axes)
  <2>1. SUFFICES ASSUME verdict = "compatible" PROVE "failed" \notin Range(axes) /\ "satisfied" \in Range(axes)
    OBVIOUS
  <2>2. Failed(env, r.needs) = {} /\ Judged(env, r.needs) # {}
    BY <2>1 DEF ReleaseVerdict, Incompatible
  <2>3. "failed" \notin Range(axes)
    BY <1>2, <1>4, <2>2 DEF Range
  <2>4. PICK need : need \in Judged(env, r.needs)
    BY <2>2
  <2>5. row(need.id, need) = "satisfied"
    BY <2>2, <2>4 DEF Failed
  <2>6. QED
    BY <1>5, <2>3, <2>4, <2>5
<1>8. QED
  BY <1>6, <1>7

\* VerdictMatchesAxes, a part of AnswersAgree: in every environment the colour of a
\* release and the rows under it say the same (domain/compatibility.py, verdict, axes).
THEOREM RowsTellTheVerdict == ASSUME NamedOnce PROVE Spec => []VerdictMatchesAxes
<1>1. ASSUME PInv PROVE VerdictMatchesAxes
  <2>1. index \in Indexes
    BY <1>1 DEF PInv
  <2>2. ASSUME NEW p \in Range(Packages) PROVE Range(Releases(p)) \subseteq Range(p.releases)
    BY <2>1, PackagesAre, ReleasesAre
  <2>3. QED
    BY <2>1, <2>2, RowsAre DEF VerdictMatchesAxes
<1>2. QED
  BY <1>1, SearchInvariant, PTL

(* ------------------------ nothing is overlooked ------------------------- *)
\* The release an offer is made from.
Is(o, id, r) ==
  /\ o.id = id /\ o.version = r.version
  /\ Offered(id, r) /\ Needed(id, r).error = "none" /\ o.deps = DepsOf(id, r)
\* The releases given so far are the solution's, and so is one still to try.
Admits(f, chosen) ==
  /\ \A id \in DOMAIN f.assigned : \E o \in chosen : Is(o, id, f.assigned[id])
  /\ f.pick # Nobody => \E r \in Range(f.rest) : \E o \in chosen : Is(o, f.pick, r)
\* A set of offers that answers the question.
Solution(chosen) == chosen \in SUBSET Offers /\ Solves(chosen)
\* The first frame tries the releases of the package asked for, newest first.
First(f) ==
  /\ DOMAIN f.assigned = {} /\ Range(f.order) = {root}
  /\ f.pick # Nobody => NewestAreFirst(f.rest)
\* The frames of the search together admit every solution there is.
AllIn ==
  /\ \A chosen : Solution(chosen) => \E k \in DOMAIN frames : Admits(frames[k], chosen)
\* The frames above the first have one release of the package asked for, and no
\* release still to try is newer.
NewestInUse ==
  /\ First(frames[1])
  /\ Len(frames) > 1 => frames[1].pick # Nobody
  /\ \A k \in 2 .. Len(frames) :
       /\ root \in DOMAIN frames[k].assigned
       /\ frames[k].assigned[root] = frames[2].assigned[root]
       /\ \A r \in Range(frames[1].rest) : ~Less(frames[k].assigned[root].version, r.version)
\* The inductive invariant of what the search has still before it.
CInv == step \in Searching => AllIn /\ NewestInUse

\* An offer is made from a release.
LEMMA OffersAre ==
  ASSUME index \in Indexes, ValidPackages(Packages), NEW o \in Offers
  PROVE \E r : Is(o, o.id, r)
<1>1. PICK p \in Range(Packages) : o \in UNION {OffersOf(p, r) : r \in Range(Releases(p))}
  BY DEF Offers
<1>2. PICK r \in Range(Releases(p)) : o \in OffersOf(p, r)
  BY <1>1
<1>3. PICK found : /\ found = DependenciesFor(p, r) /\ r.assets /\ ~EnvBlocks(p, r) /\ found.error = "none"
                   /\ o = [id |-> p.id, version |-> r.version, deps |-> Range(found.deps)]
  BY <1>2 DEF OffersOf
<1>4. p.id \in Ids /\ Get(p.id) = p
  BY GetOwn
<1>5. o.id = p.id /\ o.version = r.version /\ o.deps = Range(found.deps)
  BY <1>3
<1>6. Offered(p.id, r)
  BY <1>3, <1>4 DEF Offered
<1>7. Needed(p.id, r) = found /\ DepsOf(p.id, r) = Range(found.deps)
  BY <1>3, <1>4 DEF Needed, DepsOf
<1>8. QED
  BY <1>3, <1>5, <1>6, <1>7 DEF Is

\* A package still without a release has one in every solution a frame admits,
\* and that one is among its candidates.
LEMMA CandidateThere ==
  ASSUME index \in Indexes, ValidPackages(Packages), NEW f, FrameOk(f), NEW chosen,
         Solution(chosen), Admits(f, chosen), NEW id \in Range(Unresolved(f)), id \in Ids
  PROVE \E r \in Range(CandidatesOf(f, id)) : \E o \in chosen : Is(o, id, r)
<1>1. id \in Range(f.order) \ DOMAIN f.assigned
  BY UnresolvedIs
<1>2. /\ IsList(f.order) /\ f.order # <<>> /\ f.order[1] = root /\ DOMAIN f.wants = Range(f.order)
      /\ Reached(f) /\ Grounded(f) /\ \A x \in DOMAIN f.assigned : Chosen(f, x)
  BY DEF FrameOk, Shape
<1>3. /\ \E o \in chosen : o.id = root /\ Satisfies(o.version, range)
      /\ \A a, b \in chosen : a.id = b.id => a = b
      /\ \A o \in chosen : \A d \in o.deps :
           \E other \in chosen : other.id = d.id /\ Satisfies(other.version, d.range)
      /\ chosen \subseteq Offers
  BY DEF Solution, Solves
<1>4. ASSUME NEW x \in DOMAIN f.assigned, NEW d \in DepsOf(x, f.assigned[x])
      PROVE \E other \in chosen : other.id = d.id /\ Satisfies(other.version, d.range)
  <2>1. PICK o \in chosen : Is(o, x, f.assigned[x])
    BY DEF Admits
  <2>2. d \in o.deps
    BY <2>1 DEF Is
  <2>3. QED
    BY <1>3, <2>2
<1>5. \E o \in chosen : o.id = id
  <2>1. PICK i \in DOMAIN f.order : f.order[i] = id
    BY <1>1, <1>2, ListBasics
  <2>2. i \in Nat /\ i # 0
    BY <1>2, ListBasics
  <2>3. CASE i = 1
    BY <1>2, <1>3, <2>1, <2>3
  <2>4. CASE i > 1
    <3>1. PICK j \in 1 .. (i - 1) : f.order[j] \in DOMAIN f.assigned /\ f.order[i] \in Range(f.needs[f.order[j]])
      BY <1>2, <2>4 DEF Reached
    <3>2. PICK x : x = f.order[j]
      OBVIOUS
    <3>3. x \in DOMAIN f.assigned /\ id \in Range(f.needs[x])
      BY <2>1, <3>1, <3>2
    <3>4. Range(f.needs[x]) = {d.id : d \in DepsOf(x, f.assigned[x])}
      BY <1>2, <3>3 DEF Chosen
    <3>5. PICK d \in DepsOf(x, f.assigned[x]) : d.id = id
      BY <3>3, <3>4
    <3>6. QED
      BY <1>4, <3>3, <3>5
  <2>5. QED
    BY <2>2, <2>3, <2>4
<1>6. PICK o \in chosen : o.id = id
  BY <1>5
<1>7. PICK r : Is(o, id, r)
  BY <1>3, <1>6, OffersAre
<1>8. ASSUME NEW w \in f.wants[id] PROVE Satisfies(r.version, w)
  <2>1. id \in DOMAIN f.wants /\ o.version = r.version
    BY <1>1, <1>2, <1>7 DEF Is
  <2>2. CASE id = root /\ w = range
    BY <1>3, <1>6, <2>1, <2>2
  <2>3. CASE \E x \in DOMAIN f.assigned : \E d \in DepsOf(x, f.assigned[x]) : d.id = id /\ d.range = w
    <3>1. PICK other \in chosen : other.id = id /\ Satisfies(other.version, w)
      BY <1>4, <2>3
    <3>2. other = o
      BY <1>3, <1>6, <3>1
    <3>3. QED
      BY <2>1, <3>1, <3>2
  <2>4. QED
    BY <1>2, <2>1, <2>2, <2>3 DEF Grounded
<1>9. r \in Range(Releases(Get(id))) /\ r.assets /\ ~EnvBlocks(Get(id), r)
  BY <1>7 DEF Is, Offered
<1>10. IsList(Get(id).releases) /\ (Get(id).listed => NewestAreFirst(Get(id).releases))
  BY GetIs, PackagesAre
<1>11. r \in Range(CandidatesOf(f, id))
  BY <1>8, <1>9, <1>10, CandidatesAre DEF CandidatesOf
<1>12. QED
  BY <1>7, <1>11

\* A release of a solution fits what is assigned, and the frame under it admits
\* the solution as this one did.
LEMMA DeeperAdmits ==
  ASSUME index \in Indexes, NEW f, FrameOk(f), f.pick # Nobody, NEW r \in Range(f.rest), NEW deps,
         deps = Needed(f.pick, r).deps, Needed(f.pick, r).error = "none",
         NEW chosen, Solution(chosen), NEW o \in chosen, Is(o, f.pick, r),
         \A id \in DOMAIN f.assigned : \E other \in chosen : Is(other, id, f.assigned[id])
  PROVE LET h == Assign(f, f.pick, r, deps)
        IN FitsNew(h, deps) /\ Admits(Constrain(h, deps), chosen)
<1> DEFINE h == Assign(f, f.pick, r, deps)
           g == Constrain(h, deps)
<1>1. PICK pick : pick = f.pick
  OBVIOUS
<1>2. pick \in Ids /\ DepsOf(pick, r) = Range(deps)
  BY <1>1 DEF FrameOk, Picking, DepsOf, Needed
<1>3. /\ DOMAIN g.assigned = DOMAIN f.assigned \cup {pick} /\ g.assigned[pick] = r
      /\ \A other \in DOMAIN f.assigned \ {pick} : g.assigned[other] = f.assigned[other]
      /\ g.pick = Nobody /\ g.assigned = h.assigned
  BY <1>1, DeeperAssigns
<1> HIDE DEF h, g
<1>4. \A id \in DOMAIN h.assigned : \E other \in chosen : Is(other, id, h.assigned[id])
  BY <1>1, <1>3
<1>5. Admits(g, chosen)
  BY <1>3, <1>4 DEF Admits
<1>6. ASSUME NEW d \in Range(deps), d.id \in DOMAIN h.assigned
      PROVE Satisfies(h.assigned[d.id].version, d.range)
  <2>1. PICK other \in chosen : other.id = d.id /\ Satisfies(other.version, d.range)
    BY <1>1, <1>2 DEF Is, Solution, Solves
  <2>2. PICK here \in chosen : Is(here, d.id, h.assigned[d.id])
    BY <1>4, <1>6
  <2>3. here = other
    BY <2>1, <2>2 DEF Is, Solution, Solves
  <2>4. QED
    BY <2>1, <2>2, <2>3 DEF Is
<1>7. FitsNew(h, deps)
  BY <1>6 DEF FitsNew
<1>8. QED
  BY <1>5, <1>7 DEF g, h

\* What is a solution, and which frames admit it, does not change while it searches.
LEMMA SolutionsKept ==
  ASSUME UNCHANGED Data, NEW f, NEW chosen
  PROVE (Solution(chosen)' <=> Solution(chosen)) /\ (Admits(f, chosen)' <=> Admits(f, chosen))
<1>1. root' = root /\ range' = range
  BY DEF Data, question
<1>2. \A p, r : OffersOf(p, r)' = OffersOf(p, r)
  <2>1. SUFFICES ASSUME NEW p, NEW r PROVE OffersOf(p, r)' = OffersOf(p, r)
    OBVIOUS
  <2>2. PICK deps : deps = DependenciesFor(p, r)
    OBVIOUS
  <2>3. DependenciesFor(p, r)' = deps /\ (EnvBlocks(p, r)' <=> EnvBlocks(p, r))
    BY <2>2, DataKept
  <2>4. QED
    BY <2>2, <2>3 DEF OffersOf
<1>3. Offers' = Offers
  <2> DEFINE Of(p) == UNION {OffersOf(p, r) : r \in Range(Releases(p))}
  <2>1. \A p : Of(p)' = Of(p)
    BY <1>2
  <2>2. Packages' = Packages
    BY DataKept
  <2>3. Offers = UNION {Of(p) : p \in Range(Packages)}
    BY DEF Offers
  <2>4. Offers' = UNION {Of(p)' : p \in Range(Packages)'}
    BY DEF Offers
  <2> HIDE DEF Of
  <2>5. QED
    BY <2>1, <2>2, <2>3, <2>4
<1>4. Solution(chosen)' <=> Solution(chosen)
  BY <1>1, <1>3 DEF Solution, Solves
<1>5. \A o, id, r : Is(o, id, r)' <=> Is(o, id, r)
  <2>1. SUFFICES ASSUME NEW o, NEW id, NEW r PROVE Is(o, id, r)' <=> Is(o, id, r)
    OBVIOUS
  <2>2. PICK needed : needed = Needed(id, r)
    OBVIOUS
  <2>3. Needed(id, r)' = needed /\ (Offered(id, r)' <=> Offered(id, r))
    BY <2>2, DataKept
  <2>4. QED
    BY <2>2, <2>3 DEF Is, DepsOf
<1>6. Admits(f, chosen)' <=> Admits(f, chosen)
  BY <1>5 DEF Admits
<1>7. QED
  BY <1>4, <1>6

\* Frames that admit every solution, from frames that did.
LEMMA AllInKept ==
  ASSUME UNCHANGED Data, AllIn, NEW t, frames' = t,
         \A chosen : Solution(chosen) => \A k \in DOMAIN frames : Admits(frames[k], chosen) =>
           \E l \in DOMAIN t : Admits(t[l], chosen)
  PROVE AllIn'
<1>1. \A f, chosen : (Solution(chosen)' <=> Solution(chosen)) /\ (Admits(f, chosen)' <=> Admits(f, chosen))
  BY SolutionsKept
<1>2. \A chosen : Solution(chosen)' => \E k \in DOMAIN t : Admits(t[k], chosen)'
  BY <1>1 DEF AllIn
<1>3. QED
  BY <1>2 DEF AllIn

\* A frame that has no way on admits nothing.
LEMMA NothingLeft ==
  ASSUME PInv, DeadEnd \/ Exhausted, NEW chosen, Solution(chosen)
  PROVE ~Admits(Top, chosen)
<1>1. FramesOk /\ index \in Indexes /\ ValidPackages(Packages)
  BY DEF PInv, FramesOk, Searching, DeadEnd, Exhausted, ValidIndex, Packages
<1>2. PICK f : f = Top
  OBVIOUS
<1>3. FrameOk(f)
  BY <1>1, <1>2, TopIsOk
<1>4. CASE DeadEnd
  <2>1. Unregistered(f) = {} /\ Blocked(f)
    BY <1>2, <1>4 DEF DeadEnd
  <2>2. PICK id \in Range(Unresolved(f)) : CandidatesOf(f, id) = <<>>
    BY <2>1 DEF Blocked
  <2>3. id \in Ids
    BY <2>1 DEF Unregistered
  <2>4. Range(CandidatesOf(f, id)) = {}
    BY <2>2 DEF Range
  <2>5. QED
    BY <1>1, <1>2, <1>3, <2>3, <2>4, CandidateThere
<1>5. CASE Exhausted
  <2>1. f.pick # Nobody /\ Range(f.rest) = {}
    BY <1>2, <1>5 DEF Exhausted, Range
  <2>2. QED
    BY <1>2, <2>1 DEF Admits
<1>6. QED
  BY <1>4, <1>5

\* Going back loses no solution: the frame that is left admitted none.
LEMMA BackIsComplete ==
  ASSUME PInv, CInv, DeadEnd \/ Exhausted PROVE CInv'
<1>1. /\ FramesOk /\ step = "search" /\ frames' = Below /\ Back /\ UNCHANGED Data
  BY DEF PInv, FramesOk, Searching, DeadEnd, Exhausted, Data
<1>2. PICK n, t : n = Len(frames) /\ t = Below
  OBVIOUS
<1>3. n \in Nat /\ n # 0 /\ DOMAIN frames = 1 .. n
  BY <1>1, <1>2, ListBasics DEF FramesOk
<1>4. /\ IsList(t) /\ DOMAIN t = 1 .. (n - 1) /\ Len(t) = n - 1 /\ \A k \in 1 .. (n - 1) : t[k] = frames[k]
  BY <1>1, <1>2, BelowIs DEF FramesOk, Below
<1>5. CASE t = <<>>
  BY <1>1, <1>2, <1>5 DEF Back, Finish, CInv, Searching
<1>6. CASE t # <<>>
  <2>1. n > 1 /\ 1 \in 1 .. (n - 1)
    BY <1>3, <1>4, <1>6, ListBasics
  <2>2. AllIn /\ NewestInUse
    BY <1>1 DEF CInv, Searching
  <2>3. ASSUME NEW chosen, Solution(chosen), NEW k \in DOMAIN frames, Admits(frames[k], chosen)
        PROVE \E l \in DOMAIN t : Admits(t[l], chosen)
    <3>1. k # n
      BY <1>2, <2>3, NothingLeft DEF Top
    <3>2. k \in DOMAIN t /\ t[k] = frames[k]
      BY <1>3, <1>4, <3>1
    <3>3. QED
      BY <2>3, <3>2
  <2>4. AllIn'
    BY <1>1, <1>2, <2>2, <2>3, AllInKept
  <2>5. NewestInUse'
    <3>1. frames' = t /\ root' = root /\ t[1] = frames[1]
      BY <1>1, <1>2, <1>4, <2>1 DEF Data, question
    <3>2. First(frames[1])'
      BY <2>2, <3>1 DEF NewestInUse, First
    <3>3. \A k \in 2 .. (n - 1) : k \in 2 .. n /\ t[k] = frames[k] /\ t[2] = frames[2]
      BY <1>3, <1>4
    <3>4. QED
      BY <1>2, <1>4, <2>1, <2>2, <3>1, <3>2, <3>3 DEF NewestInUse
  <2>6. QED
    BY <2>4, <2>5 DEF CInv
<1>7. QED
  BY <1>5, <1>6

\* Picking a package loses none: its candidates hold every solution's release.
LEMMA PickIsComplete == ASSUME TextsInOrder, PInv, CInv, Pick PROVE CInv'
<1>1. /\ FramesOk /\ step = "search" /\ index \in Indexes /\ ValidPackages(Packages)
      /\ AllIn /\ NewestInUse
  BY DEF PInv, FramesOk, Searching, Pick, ValidIndex, Packages, CInv
<1>2. PICK id, f, g, t :
        /\ f = Top /\ FrameOk(f) /\ id \in Range(Unresolved(f)) /\ id \in Ids
        /\ g = [assigned |-> f.assigned, wants |-> f.wants, order |-> f.order,
                needs |-> f.needs, pick |-> id, rest |-> CandidatesOf(f, id)]
        /\ FrameOk(g)
        /\ t = frames' /\ IsList(t) /\ t # <<>> /\ Len(t) = Len(frames)
        /\ \A k \in DOMAIN t : t[k] = IF k = Len(frames) THEN g ELSE frames[k]
  BY PickDoes
<1>3. PICK n, rest : n = Len(frames) /\ rest = CandidatesOf(f, id)
  OBVIOUS
<1>4. /\ n \in Nat /\ n # 0 /\ DOMAIN frames = 1 .. n /\ DOMAIN t = 1 .. n
  BY <1>1, <1>2, <1>3, ListBasics DEF FramesOk
<1>5. /\ g.assigned = f.assigned /\ g.order = f.order /\ g.pick = id /\ g.rest = rest
      /\ f = frames[n] /\ f.pick = Nobody
  BY <1>2, <1>3 DEF Top, Pick
<1>6. UNCHANGED Data /\ step' = step
  BY DEF Pick, Data
<1>7. ASSUME NEW chosen, Solution(chosen), NEW k \in DOMAIN frames, Admits(frames[k], chosen)
      PROVE \E l \in DOMAIN t : Admits(t[l], chosen)
  <2>1. CASE k = n
    <3>1. \E r \in Range(rest) : \E o \in chosen : Is(o, id, r)
      BY <1>1, <1>2, <1>3, <1>5, <1>7, <2>1, CandidateThere
    <3>2. Admits(g, chosen)
      BY <1>5, <1>7, <2>1, <3>1 DEF Admits
    <3>3. QED
      BY <1>2, <1>3, <1>4, <3>2
  <2>2. CASE k # n
    BY <1>2, <1>3, <1>4, <1>7, <2>2
  <2>3. QED
    BY <2>1, <2>2
<1>8. AllIn'
  BY <1>1, <1>2, <1>6, <1>7, AllInKept
<1>9. CASE n = 1
  <2>1. frames' = t /\ t[1] = g /\ Len(t) = 1 /\ root' = root /\ f = frames[1]
    BY <1>2, <1>3, <1>4, <1>5, <1>6, <1>9 DEF Data, question
  <2>2. NewestAreFirst(rest)
    <3>1. Get(id) \in Range(Packages)
      BY <1>2, GetIs
    <3>2. IsList(Get(id).releases) /\ (Get(id).listed => NewestAreFirst(Get(id).releases))
      BY <1>1, <3>1, PackagesAre
    <3>3. Chains(Range(Get(id).releases))
      BY <1>1, <3>1, ReleasesChain
    <3>4. QED
      BY <1>3, <3>2, <3>3, CandidatesAre DEF CandidatesOf
  <2>3. First(frames[1])'
    BY <1>1, <1>5, <2>1, <2>2 DEF NewestInUse, First
  <2>4. QED
    BY <1>8, <2>1, <2>3 DEF CInv, NewestInUse
<1>10. CASE n # 1
  <2>1. n > 1 /\ 1 \in 1 .. n /\ 1 # n /\ 2 \in 1 .. n
    BY <1>4, <1>10
  <2>2. frames' = t /\ t[1] = frames[1] /\ Len(t) = n /\ root' = root
    BY <1>2, <1>3, <1>4, <1>6, <2>1 DEF Data, question
  <2>3. \A k \in 2 .. n : k \in 1 .. n /\ t[k].assigned = frames[k].assigned
    BY <1>2, <1>3, <1>4, <1>5
  <2>4. First(frames[1])'
    BY <1>1, <2>2 DEF NewestInUse, First
  <2>5. \A k \in 2 .. n : /\ root \in DOMAIN t[k].assigned /\ t[k].assigned[root] = t[2].assigned[root]
                          /\ \A r \in Range(t[1].rest) : ~Less(t[k].assigned[root].version, r.version)
    BY <1>1, <1>3, <2>1, <2>2, <2>3 DEF NewestInUse
  <2>6. NewestInUse'
    BY <1>1, <1>3, <2>1, <2>2, <2>4, <2>5 DEF NewestInUse
  <2>7. QED
    BY <1>8, <2>6 DEF CInv
<1>11. QED
  BY <1>9, <1>10

\* Trying a release loses none: a solution with it fits, one without it has another
\* candidate left.
LEMMA TryIsComplete == ASSUME PInv, CInv, Try PROVE CInv'
<1>1. /\ FramesOk /\ step = "search" /\ index \in Indexes /\ ValidPackages(Packages)
      /\ AllIn /\ NewestInUse
  BY DEF PInv, FramesOk, Searching, Try, ValidIndex, Packages, CInv
<1>2. PICK f, r, found, g, t :
        /\ f = Top /\ FrameOk(f) /\ f.pick # Nobody /\ f.rest # <<>> /\ IsList(f.rest)
        /\ r = Head(f.rest) /\ r \in Range(f.rest) /\ found = Needed(f.pick, r)
        /\ g = [assigned |-> f.assigned, wants |-> f.wants, order |-> f.order,
                needs |-> f.needs, pick |-> f.pick, rest |-> Tail(f.rest)]
        /\ FrameOk(g)
        /\ t = frames' /\ IF found.error # "none" THEN Finish(found.error) /\ t = frames
                          ELSE UNCHANGED <<step, outcome>> /\ Tried(f, r, found.deps, g, t)
  BY TryDoes
<1>3. UNCHANGED Data
  BY DEF Try, Data
<1>4. CASE found.error # "none"
  BY <1>2, <1>4 DEF Finish, CInv, Searching
<1>5. CASE found.error = "none"
  <2>1. PICK n, deps, h, deeper : n = Len(frames) /\ deps = found.deps
                                  /\ h = Assign(f, f.pick, r, deps) /\ deeper = Constrain(h, deps)
    OBVIOUS
  <2>2. n \in Nat /\ n # 0 /\ DOMAIN frames = 1 .. n
    BY <1>1, <2>1, ListBasics DEF FramesOk
  <2>3. /\ IsList(t) /\ t # <<>> /\ \A k \in 1 .. n : t[k] = IF k = n THEN g ELSE frames[k]
        /\ FitsNew(h, deps) => Len(t) = n + 1 /\ t[n + 1] = deeper
        /\ ~FitsNew(h, deps) => Len(t) = n
    BY <1>2, <1>5, <2>1 DEF Tried
  <2>4. DOMAIN t = 1 .. Len(t) /\ (Len(t) = n \/ Len(t) = n + 1) /\ t[n] = g
        /\ \A k \in 1 .. n : k \in DOMAIN t
    <3>1. DOMAIN t = 1 .. Len(t) /\ (Len(t) = n \/ Len(t) = n + 1)
      BY <2>3, ListBasics
    <3>2. t[n] = g
      BY <2>2, <2>3
    <3>3. \A k \in 1 .. n : k \in 1 .. Len(t)
      <4>1. PICK m : m = Len(t)
        OBVIOUS
      <4>2. m = n \/ m = n + 1
        BY <3>1, <4>1
      <4>3. \A k \in 1 .. n : k \in 1 .. m
        BY <2>2, <4>2
      <4>4. QED
        BY <4>1, <4>3
    <3>4. QED
      BY <3>1, <3>2, <3>3
  <2>5. /\ g.assigned = f.assigned /\ g.order = f.order /\ g.pick = f.pick /\ g.rest = Tail(f.rest)
        /\ f = frames[n]
    BY <1>2, <2>1 DEF Top
  <2>6. /\ r = f.rest[1] /\ Range(f.rest) = {r} \cup Range(Tail(f.rest))
        /\ Len(Tail(f.rest)) = Len(f.rest) - 1 /\ IsList(Tail(f.rest))
        /\ \A k \in 1 .. (Len(f.rest) - 1) : Tail(f.rest)[k] = f.rest[k + 1]
    BY <1>2, TailIs
  <2>7. ASSUME NEW chosen, Solution(chosen), NEW k \in DOMAIN frames, Admits(frames[k], chosen)
        PROVE \E l \in DOMAIN t : Admits(t[l], chosen)
    <3>1. CASE k # n
      BY <2>2, <2>3, <2>4, <2>7, <3>1
    <3>2. CASE k = n
      <4>1. PICK s \in Range(f.rest), o \in chosen : Is(o, f.pick, s)
        BY <1>2, <2>5, <2>7, <3>2 DEF Admits
      <4>2. \A id \in DOMAIN f.assigned : \E other \in chosen : Is(other, id, f.assigned[id])
        BY <2>5, <2>7, <3>2 DEF Admits
      <4>3. CASE s = r
        <5>1. FitsNew(h, deps) /\ Admits(deeper, chosen)
          BY <1>1, <1>2, <1>5, <2>1, <2>7, <4>1, <4>2, <4>3, DeeperAdmits
        <5>2. n + 1 \in DOMAIN t
          BY <2>2, <2>3, <2>4, <5>1
        <5>3. QED
          BY <2>3, <5>1, <5>2
      <4>4. CASE s # r
        <5>1. s \in Range(g.rest)
          BY <2>5, <2>6, <4>1, <4>4
        <5>2. Admits(g, chosen)
          BY <2>5, <4>1, <4>2, <5>1 DEF Admits
        <5>3. n \in DOMAIN t /\ t[n] = g
          <6>1. n \in 1 .. n
            BY <2>2
          <6>2. QED
            BY <2>4, <6>1
        <5>4. QED
          BY <5>2, <5>3
      <4>5. QED
        BY <4>3, <4>4
    <3>3. QED
      BY <3>1, <3>2
  <2>8. AllIn'
    BY <1>1, <1>2, <1>3, <2>7, AllInKept
  <2>9. root' = root /\ step' = step /\ frames' = t
    BY <1>2, <1>3, <1>5 DEF Data, question
  <2>10. /\ DOMAIN deeper.assigned = DOMAIN f.assigned \cup {f.pick} /\ deeper.assigned[f.pick] = r
         /\ \A other \in DOMAIN f.assigned \ {f.pick} : deeper.assigned[other] = f.assigned[other]
    <3>0. index \in Indexes /\ FrameOk(f) /\ f.pick # Nobody /\ r \in Range(f.rest)
      BY <1>1, <1>2
    <3>1. deps = Needed(f.pick, r).deps /\ h = Assign(f, f.pick, r, deps) /\ deeper = Constrain(h, deps)
      BY <1>2, <2>1
    <3>2. DOMAIN deeper.assigned = DOMAIN f.assigned \cup {f.pick} /\ deeper.assigned[f.pick] = r
      BY <3>0, <3>1, DeeperAssigns
    <3>3. \A other \in DOMAIN f.assigned \ {f.pick} : deeper.assigned[other] = f.assigned[other]
      BY <3>0, <3>1, DeeperAssigns
    <3>4. QED
      BY <3>2, <3>3
  <2>11. Len(t) = n + 1 => t[n + 1] = deeper
    BY <2>2, <2>3
  <2>12. f.pick \in Range(f.order) \ DOMAIN f.assigned
    BY <1>2 DEF FrameOk, Picking
  <2>13. CASE n = 1
    <3>1. First(f) /\ NewestAreFirst(f.rest) /\ f.pick = root
      BY <1>1, <1>2, <2>5, <2>12, <2>13 DEF NewestInUse, First
    <3>2. \A s \in Range(Tail(f.rest)) : ~Less(r.version, s.version)
      <4>1. SUFFICES ASSUME NEW s \in Range(Tail(f.rest)) PROVE ~Less(r.version, s.version)
        OBVIOUS
      <4>2. PICK k \in DOMAIN Tail(f.rest) : Tail(f.rest)[k] = s
        BY <2>6, ListBasics
      <4>3. DOMAIN Tail(f.rest) = 1 .. (Len(f.rest) - 1) /\ DOMAIN f.rest = 1 .. Len(f.rest)
            /\ Len(f.rest) \in Nat /\ Len(f.rest) # 0
        BY <1>2, <2>6, ListBasics
      <4>4. 1 \in DOMAIN f.rest /\ k + 1 \in DOMAIN f.rest /\ 1 < k + 1 /\ f.rest[k + 1] = s
        BY <2>6, <4>2, <4>3
      <4>5. QED
        BY <2>6, <3>1, <4>4 DEF NewestAreFirst
    <3>3. NewestAreFirst(Tail(f.rest))
      <4>1. DOMAIN Tail(f.rest) = 1 .. (Len(f.rest) - 1) /\ DOMAIN f.rest = 1 .. Len(f.rest)
            /\ Len(f.rest) \in Nat
        BY <1>2, <2>6, ListBasics
      <4>2. SUFFICES ASSUME NEW i \in DOMAIN Tail(f.rest), NEW j \in DOMAIN Tail(f.rest), i < j
                     PROVE ~Less(Tail(f.rest)[i].version, Tail(f.rest)[j].version)
        BY DEF NewestAreFirst
      <4>3. /\ i + 1 \in DOMAIN f.rest /\ j + 1 \in DOMAIN f.rest /\ i + 1 < j + 1
            /\ Tail(f.rest)[i] = f.rest[i + 1] /\ Tail(f.rest)[j] = f.rest[j + 1]
        BY <2>6, <4>1, <4>2
      <4>4. QED
        BY <3>1, <4>3 DEF NewestAreFirst
    <3>4. t[1] = g /\ (Len(t) = 1 \/ (Len(t) = 2 /\ t[2] = deeper))
      <4>1. PICK m : m = n + 1
        OBVIOUS
      <4>2. m = 2 /\ (Len(t) = m => t[m] = deeper) /\ (Len(t) = n \/ Len(t) = m) /\ t[n] = g
        BY <2>4, <2>11, <2>13, <4>1
      <4>3. t[1] = g
        BY <2>13, <4>2
      <4>4. Len(t) = 1 \/ (Len(t) = 2 /\ t[2] = deeper)
        BY <2>13, <4>2
      <4>5. QED
        BY <4>3, <4>4
    <3>5. First(frames[1])'
      BY <2>5, <2>9, <3>1, <3>3, <3>4 DEF First
    <3>6. \A k \in 2 .. Len(t) : k = 2 /\ t[k] = deeper
      <4>1. 2 .. 1 = {} /\ 2 .. 2 = {2}
        OBVIOUS
      <4>2. QED
        BY <3>4, <4>1
    <3>7. root \in DOMAIN deeper.assigned /\ deeper.assigned[root] = r
      BY <2>10, <3>1
    <3>8. \A k \in 2 .. Len(t) :
            /\ root \in DOMAIN t[k].assigned /\ t[k].assigned[root] = t[2].assigned[root]
            /\ \A s \in Range(t[1].rest) : ~Less(t[k].assigned[root].version, s.version)
      BY <2>5, <3>2, <3>4, <3>6, <3>7
    <3>9. NewestInUse'
      BY <1>2, <2>5, <2>9, <3>4, <3>5, <3>8 DEF NewestInUse
    <3>10. QED
      BY <2>8, <3>9 DEF CInv
  <2>14. CASE n # 1
    <3>1. n > 1 /\ 1 \in 1 .. n /\ 1 # n /\ 2 \in 1 .. n /\ n \in 2 .. n
      BY <2>2, <2>14
    <3>2. t[1] = frames[1] /\ frames[1].pick # Nobody /\ First(frames[1])
      BY <1>1, <2>1, <2>3, <3>1 DEF NewestInUse
    <3>3. \A k \in 2 .. n : k \in 1 .. n /\ t[k].assigned = frames[k].assigned
      BY <2>2, <2>3, <2>5
    <3>4. \A k \in 2 .. n :
            /\ root \in DOMAIN t[k].assigned /\ t[k].assigned[root] = t[2].assigned[root]
            /\ \A s \in Range(t[1].rest) : ~Less(t[k].assigned[root].version, s.version)
      BY <1>1, <2>1, <3>1, <3>2, <3>3 DEF NewestInUse
    <3>5. /\ root \in DOMAIN deeper.assigned /\ deeper.assigned[root] = t[2].assigned[root]
          /\ \A s \in Range(t[1].rest) : ~Less(deeper.assigned[root].version, s.version)
      <4>1. root \in DOMAIN f.assigned /\ f.assigned[root] = t[2].assigned[root]
            /\ \A s \in Range(t[1].rest) : ~Less(f.assigned[root].version, s.version)
        BY <2>4, <2>5, <3>1, <3>3, <3>4
      <4>2. deeper.assigned[root] = f.assigned[root]
        BY <2>10, <2>12, <4>1
      <4>3. QED
        BY <2>10, <4>1, <4>2
    <3>6. \A k \in 2 .. Len(t) : k \in 2 .. n \/ t[k] = deeper
      <4>1. \A k \in 2 .. (n + 1) : k \in 2 .. n \/ k = n + 1
        BY <2>2
      <4>2. CASE Len(t) = n
        BY <4>2
      <4>3. CASE Len(t) = n + 1
        BY <2>11, <4>1, <4>3
      <4>4. QED
        BY <2>4, <4>2, <4>3
    <3>7. \A k \in 2 .. Len(t) :
            /\ root \in DOMAIN t[k].assigned /\ t[k].assigned[root] = t[2].assigned[root]
            /\ \A s \in Range(t[1].rest) : ~Less(t[k].assigned[root].version, s.version)
      BY <3>4, <3>5, <3>6
    <3>8. First(frames[1])'
      BY <2>9, <3>2 DEF First
    <3>9. NewestInUse'
      BY <2>9, <3>2, <3>7, <3>8 DEF NewestInUse
    <3>10. QED
      BY <2>8, <3>9 DEF CInv
  <2>15. QED
    BY <2>13, <2>14
<1>6. QED
  BY <1>4, <1>5

\* An empty frame admits every solution.
LEMMA StartIsComplete == ASSUME Start PROVE CInv'
<1>0. PICK a, w : a = root' /\ w = range'
  OBVIOUS
<1>1. PICK f : /\ frames' = <<f>>
               /\ f = [assigned |-> <<>>, wants |-> [id \in {a} |-> {w}], order |-> <<a>>,
                       needs |-> <<>>, pick |-> Nobody, rest |-> <<>>]
  BY <1>0 DEF Start
<1>2. DOMAIN f.assigned = {} /\ f.order = <<a>> /\ f.pick = Nobody
  BY <1>1
<1>3. Range(<<a>>) = {a}
  BY DEF Range
<1>4. DOMAIN <<f>> = {1} /\ <<f>>[1] = f /\ Len(<<f>>) = 1 /\ 2 .. 1 = {}
  OBVIOUS
<1>5. \A chosen : Admits(f, chosen)'
  BY <1>2 DEF Admits
<1>6. AllIn'
  BY <1>1, <1>4, <1>5 DEF AllIn
<1>7. NewestInUse'
  BY <1>0, <1>1, <1>2, <1>3, <1>4 DEF NewestInUse, First
<1>8. QED
  BY <1>6, <1>7 DEF CInv

\* Steps that leave the search as it is.
LEMMA SearchStays ==
  ASSUME CInv, step \in Searching, UNCHANGED Data, frames' = frames PROVE CInv'
<1>1. AllIn /\ NewestInUse
  BY DEF CInv
<1>2. PICK t : t = frames
  OBVIOUS
<1>3. AllIn'
  BY <1>1, <1>2, AllInKept
<1>4. root' = root
  BY DEF Data, question
<1>5. NewestInUse'
  BY <1>1, <1>4 DEF NewestInUse, First
<1>6. QED
  BY <1>3, <1>5 DEF CInv

\* Every step keeps what the search has before it.
LEMMA CompleteKept == ASSUME TextsInOrder, PInv, CInv, [Next]_vars PROVE CInv'
<1>1. CASE Refuse \/ Open \/ Again \/ Unknown \/ Prepare
  BY <1>1 DEF Refuse, Open, Again, Unknown, Prepare, Finish, CInv, Searching
<1>2. ASSUME NEW p, NEW named, Ask(p, named) PROVE CInv'
  BY <1>2, StartIsComplete DEF Ask
<1>3. ASSUME NEW p, NEW wanted, Command(p, wanted) PROVE CInv'
  BY <1>3, StartIsComplete DEF Command
<1>4. ASSUME NEW p, AskPrivate(p) PROVE CInv'
  BY <1>4, StartIsComplete DEF AskPrivate, Finish, CInv, Searching
<1>5. CASE Found \/ Visit \/ Leave
  BY <1>5, SearchStays DEF Found, Visit, Leave, Data, Searching
<1>6. CASE DeadEnd \/ Exhausted
  BY <1>6, BackIsComplete
<1>7. CASE Pick
  BY <1>7, PickIsComplete
<1>8. CASE Try
  BY <1>8, TryIsComplete
<1>9. CASE UNCHANGED vars
  <2>1. UNCHANGED Data /\ frames' = frames /\ step' = step
    BY <1>9 DEF vars, Data
  <2>2. QED
    BY <2>1, SearchStays DEF CInv
<1>10. QED
  BY <1>1, <1>2, <1>3, <1>4, <1>5, <1>6, <1>7, <1>8, <1>9 DEF Next

\* How a question may end that a solution would answer.
Endings == {"none fits", "plan", "cycle", "two suppliers"}

\* When the search has ended, no solution was overlooked and none is newer.
LEMMA CompleteWhenOver ==
  ASSUME TextsInOrder, PInv, CInv, Next, outcome' \in Endings,
         NEW chosen, Solution(chosen)
  PROVE /\ outcome' # "none fits"
        /\ \A o \in chosen : o.id = root => ~Less(Top.assigned[root].version, o.version)
<1>1. CASE outcome' = "none fits"
  <2>1. (DeadEnd \/ Exhausted) /\ Below = <<>>
    BY <1>1, OutcomesAre DEF Endings
  <2>2. FramesOk /\ AllIn
    BY <2>1 DEF PInv, FramesOk, Searching, CInv, DeadEnd, Exhausted
  <2>3. DOMAIN frames = 1 .. Len(frames) /\ Len(frames) \in Nat /\ Len(frames) = 1
    BY <2>1, <2>2, ListBasics, BelowIs DEF FramesOk, Below
  <2>4. Admits(Top, chosen)
    BY <2>2, <2>3 DEF AllIn, Top
  <2>5. QED
    BY <2>1, <2>4, NothingLeft
<1>2. CASE outcome' # "none fits"
  <2>1. Prepare \/ Visit
    BY <1>2, OutcomesAre DEF Endings
  <2>2. /\ FramesOk /\ AllIn /\ NewestInUse /\ VisitOk(Top) /\ index \in Indexes
        /\ ValidPackages(Packages)
    BY <2>1 DEF PInv, FramesOk, Searching, CInv, Prepare, Visit, ValidIndex, Packages
  <2>3. PICK n, f : n = Len(frames) /\ f = Top
    OBVIOUS
  <2>4. n \in Nat /\ n # 0 /\ DOMAIN frames = 1 .. n /\ f = frames[n] /\ FrameOk(f)
    BY <2>2, <2>3, ListBasics, TopIsOk DEF FramesOk, Top
  <2>5. root \in DOMAIN f.assigned
    <3>1. f.order[1] = root /\ f.order # <<>> /\ IsList(f.order) /\ DOMAIN f.assigned = Range(f.order)
      BY <2>2, <2>3, <2>4 DEF FrameOk, Shape, VisitOk
    <3>2. QED
      BY <3>1, FirstIsIn
  <2>6. n > 1
    <3>1. n # 1
      BY <2>2, <2>4, <2>5 DEF NewestInUse, First
    <3>2. n \in Nat /\ n # 0
      BY <2>4
    <3>3. QED
      BY <3>1, <3>2
  <2>7. PICK k \in 1 .. n : Admits(frames[k], chosen)
    BY <2>2, <2>4 DEF AllIn
  <2>8. SUFFICES ASSUME NEW o \in chosen, o.id = root
                 PROVE ~Less(f.assigned[root].version, o.version)
    BY <1>2, <2>3
  <2>9. n \in 2 .. n
    BY <2>4, <2>6
  <2>10. \A l \in 2 .. n : /\ root \in DOMAIN frames[l].assigned
                           /\ frames[l].assigned[root] = frames[2].assigned[root]
                           /\ \A r \in Range(frames[1].rest) : ~Less(frames[l].assigned[root].version, r.version)
    BY <2>2, <2>3 DEF NewestInUse
  <2>11. CASE k = 1
    <3>1. frames[1].pick = root
      <4>1. frames[1].pick # Nobody /\ Range(frames[1].order) = {root} /\ FrameOk(frames[1])
        BY <2>2, <2>3, <2>4, <2>6, <2>7, <2>11 DEF NewestInUse, First, FramesOk
      <4>2. QED
        BY <4>1 DEF FrameOk, Picking
    <3>2. frames[1].pick # Nobody
      BY <2>2, <2>3, <2>6 DEF NewestInUse
    <3>3. PICK r \in Range(frames[1].rest), there \in chosen : Is(there, root, r)
      BY <2>7, <2>11, <3>1, <3>2 DEF Admits
    <3>4. there = o
      BY <2>8, <3>3 DEF Is, Solution, Solves
    <3>5. o.version = r.version
      BY <3>3, <3>4 DEF Is
    <3>6. QED
      BY <2>4, <2>9, <2>10, <3>5
  <2>12. CASE k # 1
    <3>1. k \in 2 .. n
      BY <2>4, <2>12
    <3>2. frames[k].assigned[root] = f.assigned[root] /\ root \in DOMAIN frames[k].assigned
      BY <2>4, <2>9, <2>10, <3>1
    <3>3. PICK there \in chosen : Is(there, root, f.assigned[root])
      BY <2>7, <3>2 DEF Admits
    <3>4. there = o
      BY <2>8, <3>3 DEF Is, Solution, Solves
    <3>5. o.version = f.assigned[root].version
      BY <3>3, <3>4 DEF Is
    <3>6. f.assigned[root].version \in Version
      <4>1. Offered(root, f.assigned[root])
        BY <2>4, <2>5 DEF FrameOk, Chosen
      <4>2. Get(root) \in Range(Packages) /\ f.assigned[root] \in Range(Releases(Get(root)))
        BY <4>1, GetIs DEF Offered
      <4>3. f.assigned[root] \in Range(Get(root).releases)
        BY <2>2, <4>2, PackagesAre, ReleasesAre
      <4>4. QED
        BY <2>2, <4>2, <4>3, PackagesAre
    <3>7. QED
      BY <3>5, <3>6, VersionOrder
  <2>13. QED
    BY <2>11, <2>12
<1>3. QED
  BY <1>1, <1>2

\* SearchIsComplete: "no compatible set" is only said when there is none, and no solution
\* has a newer release of the package asked for than the plan (application/solver.py,
\* Solver._search: newest first, one step back at a time).
THEOREM NothingOverlooked == ASSUME TextsInOrder PROVE Spec => SearchIsComplete
<1>1. Init => CInv
  BY DEF Init, CInv, Searching
<1>2. PInv /\ CInv /\ [Next]_vars => CInv'
  BY CompleteKept
<1>3. PInv /\ CInv /\ [Next]_vars =>
        [outcome' \in {"none fits", "plan", "cycle", "two suppliers"} =>
           \A chosen \in SUBSET Offers : Solves(chosen) =>
             /\ outcome' # "none fits"
             /\ \A o \in chosen : o.id = root => ~Less(Top.assigned[root].version, o.version)]_vars
  <2>1. ASSUME PInv, CInv, Next, outcome' \in Endings,
               NEW chosen \in SUBSET Offers, Solves(chosen)
        PROVE /\ outcome' # "none fits"
              /\ \A o \in chosen : o.id = root => ~Less(Top.assigned[root].version, o.version)
    BY <2>1, CompleteWhenOver DEF Solution
  <2>2. QED
    BY <2>1 DEF Endings
<1>4. QED
  BY <1>1, <1>2, <1>3, SearchInvariant, PTL DEF Spec, SearchIsComplete
===============================================================================
