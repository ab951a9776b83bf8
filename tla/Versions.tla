------------------------------ MODULE Versions ------------------------------
(* Versions and version ranges, as domain/semver.py reads them, and as       *)
(* domain/compatibility.py reads the canonical ranges of the index.          *)
(*                                                                           *)
(* A version has four numbers (a missing fourth one is 0) and a sequence of  *)
(* prerelease identifiers.  An identifier stands for its text: Texts lists   *)
(* the texts that occur in the order Python compares strings, and an         *)
(* identifier is its place in that list, so that `left_part < right_part` is *)
(* a comparison of places.  A range is the set of its `||` branches and a    *)
(* branch the set of its tokens; a hyphen branch "a - b" is {>=a, <=b}.      *)
EXTENDS Integers, Sequences, FiniteSets

CONSTANT Texts  \* <<[number, stem, digits, keyword], ...>>, in text order

NoNumber == -1
Identifier == DOMAIN Texts

ASSUME TextsAssumption ==
  /\ Texts \in Seq([number : Nat \cup {NoNumber}, digits : Nat \cup {NoNumber},
                    stem : STRING, keyword : BOOLEAN])

Version == [main : [1 .. 4 -> Nat], pre : Seq(Identifier)]
Release(a, b, c) == [main |-> <<a, b, c, 0>>, pre |-> <<>>]
Pre(version) == version.pre # <<>>

\* Numbers before words, numbers by value, "rc9" before "rc10"; else by text.
IdentifierLess(p, q) ==
  LET a == Texts[p]  b == Texts[q]
      Numbered(t) == t.number # NoNumber
      Counted(t) == t.digits # NoNumber
  IN IF Numbered(a) /\ Numbered(b) THEN a.number < b.number
     ELSE IF Numbered(a) # Numbered(b) THEN Numbered(a)
     ELSE IF Counted(a) /\ Counted(b) /\ a.stem = b.stem THEN a.digits < b.digits
     ELSE p < q

\* Texts that this order ranks: no two for one number ("1" and "01"), and nothing
\* between two counted texts of a stem ("rc1", "rc2") but counted texts of that stem;
\* be9 < be10, be10 < be1x and be1x < be9 go round in a circle.
CountedBy(i, stem) ==
  Texts[i].number = NoNumber /\ Texts[i].digits # NoNumber /\ Texts[i].stem = stem
TextsInOrder ==
  \A i, j \in Identifier :
    /\ Texts[i].number # NoNumber /\ Texts[i].number = Texts[j].number => i = j
    /\ CountedBy(i, Texts[i].stem) /\ CountedBy(j, Texts[i].stem) =>
         /\ Texts[i].digits = Texts[j].digits => i = j
         /\ \A k \in i .. j : CountedBy(k, Texts[i].stem)

\* A prerelease named by a keyword comes before the release, any other after.
Rank(version) ==
  IF ~Pre(version) THEN 1 ELSE IF Texts[version.pre[1]].keyword THEN 0 ELSE 2

MainLess(a, b) ==
  \E i \in 1 .. 4 : a[i] < b[i] /\ \A j \in 1 .. (i - 1) : a[j] = b[j]

PreLess(p, q) ==
  \/ \E i \in DOMAIN p \cap DOMAIN q :
       /\ p[i] # q[i] /\ \A j \in 1 .. (i - 1) : p[j] = q[j]
       /\ IdentifierLess(p[i], q[i])
  \/ Len(p) < Len(q) /\ \A i \in DOMAIN p : p[i] = q[i]

Less(v, w) ==
  \/ MainLess(v.main, w.main)
  \/ v.main = w.main /\ Rank(v) < Rank(w)
  \/ v.main = w.main /\ Rank(v) = Rank(w) /\ PreLess(v.pre, w.pre)

AtMost(v, w) == Less(v, w) \/ v = w

\* The first version a caret or a tilde range leaves out.
CaretEnd(v) ==
  IF v.main[1] > 0 THEN Release(v.main[1] + 1, 0, 0)
  ELSE IF v.main[2] > 0 THEN Release(0, v.main[2] + 1, 0)
  ELSE Release(0, 0, v.main[3] + 1)
TildeEnd(v) == Release(v.main[1], v.main[2] + 1, 0)

MatchToken(v, token) ==
  LET at == token.at IN
  CASE token.op = "any" -> TRUE
    [] token.op = "n.x" -> v.main[1] = at.main[1]
    [] token.op = "n.n.x" -> v.main[1] = at.main[1] /\ v.main[2] = at.main[2]
    [] token.op \in {"<", ">="} -> Less(v, at) <=> token.op = "<"
    [] token.op \in {"<=", ">"} -> AtMost(v, at) <=> token.op = "<="
    [] token.op \in {"^", "~"} ->
         AtMost(at, v) /\ Less(v, IF token.op = "^" THEN CaretEnd(at) ELSE TildeEnd(at))
    [] token.op = "=" -> v = at

Token(op, version) == [op |-> op, at |-> version]
AnyRange == {{Token("any", Release(0, 0, 0))}}

Satisfies(v, range) ==
  \E branch \in range : \A token \in branch : MatchToken(v, token)

Operators == {"any", "n.x", "n.n.x", "<", "<=", ">", ">=", "=", "^", "~"}
IsRange(range) == \A token \in UNION range : token.op \in Operators /\ token.at \in Version

\* The index publishes no empty branch, and a canonical range no caret or tilde.
ValidRange(range) == {} \notin range
Canonical(range) ==
  ValidRange(range) /\ \A token \in UNION range : token.op \notin {"^", "~"}

\* compatibility.py's own reading of a token: by numbers, carets not guessed.
TokenAllows(v, token) ==
  LET at == token.at.main IN
  CASE token.op = "any" -> TRUE
    [] token.op = "n.x" -> v.main[1] = at[1]
    [] token.op = "n.n.x" -> v.main[1] = at[1] /\ v.main[2] = at[2]
    [] token.op \in {"<", ">="} -> MainLess(v.main, at) <=> token.op = "<"
    [] token.op \in {"<=", ">"} -> MainLess(at, v.main) <=> token.op = ">"
    [] token.op = "=" -> v.main = at
    [] OTHER -> FALSE

Suffixed(v, range) ==
  Pre(v) \/ \E branch \in range : \E token \in branch : Pre(token.at)

RangeAllowsBlunt(v, range) ==    \* faulty variant: a suffix in the range is overlooked
  IF Pre(v) THEN Satisfies(v, range)
  ELSE \E branch \in range : branch # {} /\ \A token \in branch : TokenAllows(v, token)

RangeAllows(v, range) ==
  IF Suffixed(v, range) THEN Satisfies(v, range)
  ELSE \E branch \in range : branch # {} /\ \A token \in branch : TokenAllows(v, token)

\* The largest lower bound of a range; a bound with a suffix is not read.
LowerBounds(range) ==
  {token.at.main : token \in {t \in UNION range : t.op \in {">=", ">"} /\ ~Pre(t.at)}}
HasLowerBound(range) == LowerBounds(range) # {}
LowerBound(range) ==
  CHOOSE bound \in LowerBounds(range) :
    \A other \in LowerBounds(range) : ~MainLess(bound, other)
=============================================================================
