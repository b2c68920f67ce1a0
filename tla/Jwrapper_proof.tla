--------------------------- MODULE Jwrapper_proof ---------------------------
(***************************************************************************)
(* Proofs about the json wrapper, for any documents and whatever tokens    *)
(* the parser makes of them, so long as they nest.                         *)
(*                                                                         *)
(* The four theorems rest on invariants of which each uses those before:   *)
(*   CallsOK   the tokens a call looks at are in its text; NoTokenOutside  *)
(*   SafeInv   calls stand at names, values and elements, a table is led   *)
(*             to from one place; NothingFreedIsUsed                       *)
(*   Parsed    once parsed, the document's own call has seen all of it     *)
(*   SaysInv   calls have the names of their fields, tables say what calls *)
(*             have come to, and what is in them is in no other;           *)
(*             LookupsAreRight, AllIsFreedOnce                             *)
(***************************************************************************)
EXTENDS Jwrapper, DataLemmas

-----------------------------------------------------------------------------
(* Sequences and sets.                                                     *)

\* A sequence, of whatever is in it.
IsList(s) == s \in Seq({s[k] : k \in DOMAIN s})

LEMMA ListOf == ASSUME NEW S, NEW s \in Seq(S) PROVE IsList(s)
<1>1. Len(s) \in Nat /\ DOMAIN s = 1 .. Len(s) /\ s = [k \in 1 .. Len(s) |-> s[k]]
  OBVIOUS
<1> DEFINE T == {s[k] : k \in 1 .. Len(s)}
           n == Len(s)
<1>2. n \in Nat /\ s = [k \in 1 .. n |-> s[k]] /\ \A k \in 1 .. n : s[k] \in T
  BY <1>1
<1> HIDE DEF T, n
<1>3. s \in Seq(T)
  BY <1>2
<1> QED
  BY <1>1, <1>3 DEF IsList, T, n

LEMMA ListFacts ==
    ASSUME NEW s, IsList(s)
    PROVE  Len(s) \in Nat /\ DOMAIN s = 1 .. Len(s)
  BY DEF IsList

\* The sequences the actions make: the last element replaced, one more, one
\* less.
IsSetAt(s, i, x, t) ==
    /\ IsList(t) /\ Len(t) = Len(s) /\ t[i] = x
    /\ \A k \in 1 .. Len(s) : k # i => t[k] = s[k]
IsAppended(s, x, t) ==
    /\ IsList(t) /\ Len(t) = Len(s) + 1 /\ t[Len(s) + 1] = x
    /\ \A k \in 1 .. Len(s) : t[k] = s[k]

LEMMA ListSet ==
    ASSUME NEW s, IsList(s), NEW i \in 1 .. Len(s), NEW x, NEW t, t = [s EXCEPT ![i] = x]
    PROVE  IsSetAt(s, i, x, t)
<1> DEFINE S == {s[k] : k \in DOMAIN s} \cup {x}
<1>1. s \in Seq({s[k] : k \in DOMAIN s})
  BY DEF IsList
<1>2. s \in Seq(S)
  BY <1>1
<1> HIDE DEF S
<1>3. x \in S
  BY DEF S
<1>4. /\ t \in Seq(S) /\ Len(t) = Len(s)
      /\ \A j \in 1 .. Len(s) : t[j] = IF j = i THEN x ELSE s[j]
  BY <1>2, <1>3, ExceptSeq
<1>5. IsList(t)
  BY <1>4, ListOf
<1>6. t[i] = x /\ \A k \in 1 .. Len(s) : k # i => t[k] = s[k]
  BY <1>4
<1> QED
  BY <1>4, <1>5, <1>6, Zenon DEF IsSetAt

LEMMA ListAppend ==
    ASSUME NEW s, IsList(s), NEW x, NEW t, t = Append(s, x)
    PROVE  IsAppended(s, x, t)
<1> DEFINE S == {s[k] : k \in DOMAIN s} \cup {x}
<1>1. s \in Seq({s[k] : k \in DOMAIN s})
  BY DEF IsList
<1>2. s \in Seq(S)
  BY <1>1
<1> HIDE DEF S
<1>3. x \in S
  BY DEF S
<1>4. /\ t \in Seq(S) /\ Len(t) = Len(s) + 1 /\ t[Len(s) + 1] = x
      /\ \A k \in 1 .. Len(s) : t[k] = s[k]
  BY <1>2, <1>3, AppendProperties
<1>5. IsList(t)
  BY <1>4, ListOf
<1> QED
  BY <1>4, <1>5, Zenon DEF IsAppended

LEMMA ListFront ==
    ASSUME NEW s, IsList(s), Len(s) > 0, NEW t, t = Front(s)
    PROVE  /\ IsList(t) /\ Len(t) = Len(s) - 1
           /\ \A k \in 1 .. Len(s) - 1 : t[k] = s[k]
<1> DEFINE S == {s[k] : k \in DOMAIN s}
<1>1. s \in Seq(S)
  BY DEF IsList
<1> HIDE DEF S
<1>2. Front(s) \in Seq(S) /\ Len(Front(s)) = Len(s) - 1
      /\ \A k \in 1 .. Len(s) - 1 : Front(s)[k] = s[k]
  <2>1. Len(s) \in 1 .. Len(s)
    BY <1>1
  <2> QED
    BY <1>1, <2>1, CutAt DEF Front
<1>3. IsList(Front(s))
  BY <1>2, ListOf
<1> QED
  BY <1>2, <1>3, Zenon

LEMMA ListOne == \A x : IsList(<<x>>) /\ Len(<<x>>) = 1 /\ <<x>>[1] = x
<1> TAKE x
<1> DEFINE s == <<x>>
<1>1. s \in Seq({x}) /\ Len(s) = 1 /\ s[1] = x
  OBVIOUS
<1> HIDE DEF s
<1>2. IsList(s)
  BY <1>1, ListOf
<1> QED
  BY <1>1, <1>2 DEF s

-----------------------------------------------------------------------------
(* Tokens.                                                                 *)

TokensOK(ts) == IsList(ts) /\ Len(ts) > 0 /\ WellNested(ts)

LEMMA TokenFacts ==
    ASSUME NEW ts, TokensOK(ts), NEW i \in 1 .. Len(ts)
    PROVE  /\ EndIn(ts, i) \in i .. Len(ts)
           /\ ts[i].size \in Nat
           /\ \A k \in i + 1 .. EndIn(ts, i) : EndIn(ts, k) \in k .. EndIn(ts, i)
           /\ ts[i].type \in {"STRING", "PRIMITIVE"} => EndIn(ts, i) = i
           /\ ts[i].type = "ARRAY" => ts[i].size = Cardinality(PartsOf(ts, i))
<1>1. Len(ts) \in Nat /\ DOMAIN ts = 1 .. Len(ts)
  BY ListFacts DEF TokensOK
<1>2. \A k \in 1 .. Len(ts) :
        /\ ts[k].span \in Nat \ {0} /\ EndIn(ts, k) <= Len(ts)
        /\ ts[k].type \in {"STRING", "PRIMITIVE"} => ts[k].span = 1
  BY <1>1 DEF TokensOK, WellNested
<1>3. \A j \in InsideOf(ts, i) : EndIn(ts, j) <= EndIn(ts, i)
  BY <1>1 DEF TokensOK, WellNested
<1>4. /\ ts[i].size \in Nat
      /\ ts[i].type = "ARRAY" => ts[i].size = Cardinality(PartsOf(ts, i))
  BY <1>1 DEF TokensOK, WellNested
<1>5. \A k \in 1 .. Len(ts) : EndIn(ts, k) = k + ts[k].span - 1
  BY DEF EndIn
<1>6. \A k \in 1 .. Len(ts) : EndIn(ts, k) \in k .. Len(ts)
  BY <1>1, <1>2, <1>5
<1>7. \A k \in i + 1 .. EndIn(ts, i) : EndIn(ts, k) \in k .. EndIn(ts, i)
  BY <1>1, <1>3, <1>6 DEF InsideOf
<1>8. ts[i].type \in {"STRING", "PRIMITIVE"} => EndIn(ts, i) = i
  BY <1>1, <1>2, <1>5
<1> QED
  BY <1>4, <1>6, <1>7, <1>8

-----------------------------------------------------------------------------
(* No token is read outside the call's text.                               *)

\* The tokens from p on, up to last, that are not inside an object from p on:
\* while an array is walked, its elements from the current one on are among them.
Ahead(ts, p, last) ==
    {k \in p .. last : \A o \in p .. k - 1 : ts[o].type = "OBJECT" => EndIn(ts, o) < k}

LEMMA AheadFinite ==
    \A ts : \A p, last \in Int : IsFiniteSet(Ahead(ts, p, last)) /\ Cardinality(Ahead(ts, p, last)) \in Nat
<1> TAKE ts
<1> TAKE p, last \in Int
<1>1. IsFiniteSet(p .. last)
  BY FS_Interval
<1>2. Ahead(ts, p, last) \in SUBSET (p .. last)
  BY DEF Ahead
<1> QED
  BY <1>1, <1>2, FS_Subset, FS_CardinalityType

\* Moving on by some tokens loses at most as many of them; moving on past an
\* object, at most that object.
LEMMA AheadMoves ==
    ASSUME NEW ts, NEW p \in Nat, NEW last \in Nat, NEW m \in Nat
    PROVE  Cardinality(Ahead(ts, p, last)) <= Cardinality(Ahead(ts, p + m, last)) + m
<1> DEFINE A == Ahead(ts, p, last)
           B == Ahead(ts, p + m, last)
           C == p .. p + m - 1
<1>1. A \in SUBSET (B \cup C)
  BY DEF Ahead
<1>2. IsFiniteSet(C) /\ Cardinality(C) = m
  BY FS_Interval
<1>3. IsFiniteSet(B) /\ Cardinality(B) \in Nat /\ Cardinality(A) \in Nat
  BY AheadFinite
<1> HIDE DEF A, B, C
<1>4. IsFiniteSet(B \cup C) /\ Cardinality(B \cup C) = Cardinality(B) + Cardinality(C) - Cardinality(B \cap C)
  BY <1>2, <1>3, FS_Union
<1>5. Cardinality(B \cap C) \in Nat
  BY <1>2, FS_Intersection, FS_CardinalityType
<1>6. Cardinality(A) <= Cardinality(B \cup C)
  BY <1>1, <1>4, FS_Subset
<1> QED
  BY <1>2, <1>3, <1>4, <1>5, <1>6 DEF A, B

LEMMA AheadSkips ==
    ASSUME NEW ts, NEW p \in Nat, NEW last \in Nat, ts[p].type = "OBJECT", EndIn(ts, p) \in Nat,
           NEW q \in Nat, p < q, q <= EndIn(ts, p) + 1
    PROVE  Cardinality(Ahead(ts, p, last)) <= Cardinality(Ahead(ts, q, last)) + 1
<1> DEFINE A == Ahead(ts, p, last)
           B == Ahead(ts, q, last)
<1>1. A \in SUBSET (B \cup {p})
  <2> SUFFICES ASSUME NEW k \in A, k # p PROVE k \in B
    OBVIOUS
  <2>1. k \in p .. last /\ \A o \in p .. k - 1 : ts[o].type = "OBJECT" => EndIn(ts, o) < k
    BY DEF Ahead
  <2>2. p \in p .. k - 1 /\ k \in Nat
    BY <2>1
  <2>3. EndIn(ts, p) < k
    BY <2>1, <2>2
  <2> QED
    BY <2>1, <2>2, <2>3 DEF Ahead
<1>2. IsFiniteSet(B) /\ Cardinality(B) \in Nat /\ Cardinality(A) \in Nat
  <2>1. p \in Int /\ q \in Int /\ last \in Int
    OBVIOUS
  <2> QED
    BY <2>1, AheadFinite, Zenon
<1> HIDE DEF A, B
<1>3. IsFiniteSet(B \cup {p}) /\ Cardinality(B \cup {p}) <= Cardinality(B) + 1
  <2>1. /\ IsFiniteSet(B \cup {p})
        /\ Cardinality(B \cup {p}) = IF p \in B THEN Cardinality(B) ELSE Cardinality(B) + 1
    BY <1>2, FS_AddElement
  <2> QED
    BY <1>2, <2>1
<1>4. Cardinality(A) <= Cardinality(B \cup {p})
  BY <1>1, <1>3, FS_Subset
<1>5. Cardinality(B \cup {p}) \in Nat
  BY <1>3, FS_CardinalityType
<1> QED
  BY <1>2, <1>3, <1>4, <1>5 DEF A, B

\* The elements of an array are among the tokens ahead of its first.
LEMMA AheadStarts ==
    ASSUME NEW ts, TokensOK(ts), NEW a \in 1 .. Len(ts), ts[a].type = "ARRAY",
           NEW last \in Nat, EndIn(ts, a) <= last
    PROVE  ts[a].size <= Cardinality(Ahead(ts, a + 1, last))
<1>1. PartsOf(ts, a) \in SUBSET Ahead(ts, a + 1, last)
  <2> SUFFICES ASSUME NEW k \in PartsOf(ts, a) PROVE k \in Ahead(ts, a + 1, last)
    OBVIOUS
  <2>1. /\ k \in a + 1 .. EndIn(ts, a)
        /\ \A o \in a + 1 .. EndIn(ts, a) : o < k => EndIn(ts, o) < k
    BY DEF PartsOf, InsideOf, End
  <2>2. EndIn(ts, a) \in Nat
    BY TokenFacts
  <2> QED
    BY <2>1, <2>2 DEF Ahead
<1>2. a + 1 \in Int /\ ts[a].size = Cardinality(PartsOf(ts, a))
  BY TokenFacts
<1> QED
  BY <1>1, <1>2, AheadFinite, FS_Subset

\* Where the skipping ends: at the end of what is skipped, or at the last token
\* but one of the text.
LEMMA SkipFacts ==
    ASSUME NEW f, NEW i \in Nat, End(i) \in Nat, i <= End(i), LastTok(f) \in Nat
    PROVE  /\ SkipWithin(f, i) \in i .. End(i)
           /\ SkipWithin(f, i) = End(i) \/ SkipWithin(f, i) >= LastTok(f) - 1
<1> DEFINE last == LastTok(f)
           e == End(i)
           m == IF e < last THEN e ELSE last - 1
           S == {j \in i + 1 .. LastTok(f) - 1 : j <= End(i)}
<1>1. last \in Nat /\ e \in Nat /\ i <= e /\ m \in Int
  OBVIOUS
<1>2. S = i + 1 .. m
  OBVIOUS
<1>3. SkipWithin(f, i) = i + Cardinality(S)
  BY DEF SkipWithin
<1> HIDE DEF S
<1>4. Cardinality(S) = IF i + 1 > m THEN 0 ELSE m - (i + 1) + 1
  <2> HIDE DEF m
  <2>1. i + 1 \in Int
    OBVIOUS
  <2> QED
    BY <1>1, <1>2, <2>1, FS_Interval
<1> QED
  BY <1>1, <1>3, <1>4

Places == {"name", "value", "again", "skip", "ele", "eleskip"}

\* A frame of parse_jobject.
FrameFields == {"st", "text", "prefix", "first", "place", "i", "n", "size", "name"}
IsFrame(f) == DOMAIN f = FrameFields

\* It stands behind the first token of its text; the elements of an array that
\* are left are ahead of it.
FrameOK(ts, f) ==
    /\ IsFrame(f)
    /\ f.first \in 1 .. Len(ts) /\ f.place \in Places
    /\ f.i \in Nat /\ f.n \in Nat /\ f.size \in Nat /\ f.first < f.i
    /\ f.place \in {"value", "again", "skip"} => f.i <= EndIn(ts, f.first)
    /\ f.place \in {"ele", "eleskip"} /\ f.n < f.size =>
            f.size - f.n <= Cardinality(Ahead(ts, f.i + f.n, EndIn(ts, f.first)))
    /\ f.place = "eleskip" =>
            /\ f.n < f.size
            /\ f.i + f.n <= EndIn(ts, f.first)
            /\ ts[f.i + f.n].type = "OBJECT"

\* In parse_jobject, whatever the document.
CallsOK ==
    /\ TokensOK(toks)
    /\ phase = "parse" =>
            IsList(stack) /\ Len(stack) > 0 /\ \A k \in 1 .. Len(stack) : FrameOK(toks, stack[k])

\* An element that is left is a token of the text.
LEMMA ElementAhead ==
    ASSUME NEW ts, TokensOK(ts), NEW f, FrameOK(ts, f), f.place \in {"ele", "eleskip"}, f.n < f.size
    PROVE  f.i + f.n \in f.first + 1 .. EndIn(ts, f.first)
<1> DEFINE p == f.i + f.n
           last == EndIn(ts, f.first)
<1>1. /\ f.first \in 1 .. Len(ts) /\ f.i \in Nat /\ f.n \in Nat /\ f.size \in Nat /\ f.first < f.i
      /\ f.size - f.n <= Cardinality(Ahead(ts, p, last))
  BY DEF FrameOK
<1>2. f.first \in Nat /\ last \in Nat /\ p \in Nat
  BY <1>1, TokenFacts
<1>3. Ahead(ts, p, last) # {}
  <2> DEFINE A == Ahead(ts, p, last)
  <2>1. Cardinality(A) > 0
    <3>1. p \in Int /\ last \in Int
      BY <1>2
    <3>2. Cardinality(A) \in Nat
      BY <3>1, AheadFinite
    <3> QED
      BY <1>1, <3>2
  <2> HIDE DEF A
  <2>2. A # {}
    BY <2>1, FS_EmptySet
  <2> QED
    BY <2>2 DEF A
<1>4. p <= last
  BY <1>2, <1>3 DEF Ahead
<1> QED
  BY <1>1, <1>2, <1>4

LEMMA TokensInRangeHolds == CallsOK => TokensInRange
<1> SUFFICES ASSUME CallsOK, phase = "parse"
             PROVE  /\ Top.place = "value" => Top.i \in Top.first + 1 .. LastTok(Top)
                    /\ Top.place = "ele" /\ Top.n < Top.size =>
                            Top.i + Top.n \in Top.first + 1 .. LastTok(Top)
  BY DEF TokensInRange
<1> DEFINE f == Top
<1>1. FrameOK(toks, f)
  BY ListFacts DEF CallsOK, Top
<1>t. TokensOK(toks) /\ LastTok(f) = EndIn(toks, f.first)
  BY DEF CallsOK, LastTok, End
<1> HIDE DEF f
<1>2. f.place = "value" => f.i \in f.first + 1 .. LastTok(f)
  <2>1. f.first \in 1 .. Len(toks) /\ f.i \in Nat /\ f.first < f.i
    BY <1>1 DEF FrameOK
  <2>2. f.first \in Nat /\ LastTok(f) \in Nat
    BY <1>t, <2>1, TokenFacts
  <2>3. f.place = "value" => f.i <= LastTok(f)
    BY <1>1, <1>t DEF FrameOK
  <2> QED
    BY <2>1, <2>2, <2>3
<1>3. f.place = "ele" /\ f.n < f.size => f.i + f.n \in f.first + 1 .. LastTok(f)
  BY <1>1, <1>t, ElementAhead
<1> QED
  BY <1>2, <1>3 DEF f

\* The frames that calls begin with.
LEMMA FrameStarts ==
    ASSUME NEW ts, NEW first \in 1 .. Len(ts), Len(ts) \in Nat, NEW t, NEW x, NEW prefix
    PROVE  FrameOK(ts, Frame(t, x, prefix, first))
<1> DEFINE g == Frame(t, x, prefix, first)
<1>1. IsFrame(g) /\ g.first = first /\ g.place = "name" /\ g.i = first + 1 /\ g.n = 0 /\ g.size = 0
  BY DEF Frame, IsFrame, FrameFields
<1> HIDE DEF g
<1>2. FrameOK(ts, g)
  BY <1>1 DEF FrameOK, Places
<1> QED
  BY <1>2 DEF g

LEMMA TopFrame ==
    ASSUME CallsOK, phase = "parse"
    PROVE  /\ IsList(stack) /\ Len(stack) \in Nat \ {0} /\ Top = stack[Len(stack)]
           /\ TokensOK(toks) /\ FrameOK(toks, Top) /\ LastTok(Top) = EndIn(toks, Top.first)
<1>1. IsList(stack) /\ Len(stack) > 0 /\ \A k \in 1 .. Len(stack) : FrameOK(toks, stack[k])
  BY DEF CallsOK
<1>2. Len(stack) \in Nat
  BY <1>1, ListFacts
<1> QED
  BY <1>1, <1>2 DEF CallsOK, Top, LastTok, End

LEMMA CallsSet ==
    ASSUME CallsOK, phase = "parse", UNCHANGED toks,
           NEW g, FrameOK(toks, g), stack' = SetTop(g)
    PROVE  CallsOK'
<1>1. /\ IsList(stack) /\ Len(stack) \in Nat \ {0} /\ TokensOK(toks)
      /\ \A k \in 1 .. Len(stack) : FrameOK(toks, stack[k])
  BY TopFrame DEF CallsOK
<1>2. stack' = [stack EXCEPT ![Len(stack)] = g]
  BY DEF SetTop
<1>3. IsSetAt(stack, Len(stack), g, stack')
  <2>1. Len(stack) \in 1 .. Len(stack)
    BY <1>1
  <2> QED
    BY <1>1, <1>2, <2>1, ListSet
<1> QED
  BY <1>1, <1>3 DEF CallsOK, IsSetAt

LEMMA CallsCall ==
    ASSUME CallsOK, phase = "parse", UNCHANGED toks,
           NEW g, FrameOK(toks, g), NEW callee, FrameOK(toks, callee), stack' = Call(g, callee)
    PROVE  CallsOK'
<1> DEFINE s == SetTop(g)
<1>1. /\ IsList(stack) /\ Len(stack) \in Nat \ {0} /\ TokensOK(toks)
      /\ \A k \in 1 .. Len(stack) : FrameOK(toks, stack[k])
  BY TopFrame DEF CallsOK
<1>2. IsSetAt(stack, Len(stack), g, s)
  <2>1. Len(stack) \in 1 .. Len(stack) /\ s = [stack EXCEPT ![Len(stack)] = g]
    BY <1>1 DEF SetTop
  <2> QED
    BY <1>1, <2>1, ListSet
<1>3. stack' = Append(s, callee)
  BY DEF Call
<1> HIDE DEF s
<1>4. IsAppended(s, callee, stack')
  BY <1>2, <1>3, ListAppend DEF IsSetAt
<1>5. \A k \in 1 .. Len(stack) + 1 : FrameOK(toks, stack'[k])
  BY <1>1, <1>2, <1>4 DEF IsSetAt, IsAppended
<1> QED
  BY <1>1, <1>2, <1>4, <1>5 DEF CallsOK, IsSetAt, IsAppended

LEMMA CallsReturn ==
    ASSUME CallsOK, phase = "parse", NEW result, Return(result)
    PROVE  CallsOK'
<1>1. /\ IsList(stack) /\ Len(stack) \in Nat \ {0} /\ TokensOK(toks)
      /\ \A k \in 1 .. Len(stack) : FrameOK(toks, stack[k])
  BY TopFrame DEF CallsOK
<1>2. stack' = Front(stack) /\ toks' = toks /\ (phase' = "parse" => Len(stack) > 1)
  BY DEF Return
<1>3. /\ IsList(stack') /\ Len(stack') = Len(stack) - 1
      /\ \A k \in 1 .. Len(stack) - 1 : stack'[k] = stack[k]
  <2>1. Len(stack) > 0
    BY <1>1
  <2> QED
    BY <1>1, <1>2, <2>1, ListFront, Zenon
<1> QED
  BY <1>1, <1>2, <1>3 DEF CallsOK
\* What each step makes of the frame on top.
LEMMA StepsInText ==
    ASSUME NEW f, TokensOK(toks), FrameOK(toks, f),
           f.place \in {"value", "again", "skip"}
    PROVE  /\ f.i \in 1 .. Len(toks) /\ EndIn(toks, f.i) \in f.i .. LastTok(f)
           /\ LastTok(f) = EndIn(toks, f.first) /\ LastTok(f) \in Nat
<1>1. f.first \in 1 .. Len(toks) /\ f.i \in Nat /\ f.first < f.i /\ f.i <= EndIn(toks, f.first)
  BY DEF FrameOK
<1>2. EndIn(toks, f.first) \in f.first .. Len(toks)
  BY <1>1, TokenFacts
<1>3. \A k \in f.first + 1 .. EndIn(toks, f.first) : EndIn(toks, k) \in k .. EndIn(toks, f.first)
  BY <1>1, TokenFacts
<1>4. f.i \in f.first + 1 .. EndIn(toks, f.first) /\ f.first \in Nat /\ f.i \in 1 .. Len(toks)
  BY <1>1, <1>2, ListFacts DEF TokensOK
<1> QED
  BY <1>2, <1>3, <1>4, ListFacts DEF LastTok, End, TokensOK

LEMMA NameOK ==
    ASSUME CallsOK, Name
    PROVE  CallsOK'
<1> DEFINE f == Top
           g == [f EXCEPT !.name = Path(f.prefix, toks[f.i].text), !.i = @ + 1, !.place = "value"]
<1>1. FrameOK(toks, f) /\ phase = "parse" /\ TokensOK(toks) /\ LastTok(f) = EndIn(toks, f.first)
  BY TopFrame DEF Name, At
<1>2. f.i < LastTok(f) /\ stack' = SetTop(g) /\ toks' = toks
  BY DEF Name
<1> HIDE DEF f
<1>3. /\ IsFrame(g) /\ g.first = f.first /\ g.i = f.i + 1 /\ g.n = f.n /\ g.size = f.size
      /\ g.place = "value"
  BY <1>1 DEF FrameOK, IsFrame, FrameFields
<1> HIDE DEF g
<1>4. f.first \in 1 .. Len(toks) /\ f.i \in Nat /\ f.first < f.i /\ f.n \in Nat /\ f.size \in Nat
  BY <1>1 DEF FrameOK
<1>5. EndIn(toks, f.first) \in Nat
  BY <1>1, <1>4, TokenFacts
<1>6. FrameOK(toks, g)
  BY <1>1, <1>2, <1>3, <1>4, <1>5 DEF FrameOK, Places
<1> QED
  BY <1>1, <1>2, <1>6, CallsSet

LEMMA ScalarValueOK ==
    ASSUME CallsOK, ScalarValue
    PROVE  CallsOK'
<1> DEFINE f == Top
           g == [f EXCEPT !.i = @ + 1, !.place = "name"]
<1>1. FrameOK(toks, f) /\ phase = "parse"
  BY TopFrame DEF ScalarValue, At
<1>2. stack' = SetTop(g) /\ toks' = toks
  BY DEF ScalarValue
<1> HIDE DEF f
<1>3. /\ IsFrame(g) /\ g.first = f.first /\ g.i = f.i + 1 /\ g.n = f.n /\ g.size = f.size
      /\ g.place = "name"
  BY <1>1 DEF FrameOK, IsFrame, FrameFields
<1> HIDE DEF g
<1>4. f.first \in 1 .. Len(toks) /\ f.i \in Nat /\ f.first < f.i /\ f.n \in Nat /\ f.size \in Nat
  BY <1>1 DEF FrameOK
<1>5. FrameOK(toks, g)
  BY <1>3, <1>4 DEF FrameOK, Places
<1> QED
  BY <1>1, <1>2, <1>5, CallsSet

\* The first call for an object, and the second.
LEMMA ObjectCallOK ==
    ASSUME CallsOK, phase = "parse", UNCHANGED toks, Top.place \in {"value", "again"},
           NEW place \in {"again", "skip"}, NEW t, NEW x, NEW prefix,
           stack' = Call([Top EXCEPT !.place = place], Frame(t, x, prefix, Top.i))
    PROVE  CallsOK'
<1> DEFINE f == Top
           g == [f EXCEPT !.place = place]
           callee == Frame(t, x, prefix, f.i)
<1>1. FrameOK(toks, f) /\ TokensOK(toks)
  BY TopFrame
<1>2. stack' = Call(g, callee) /\ f.place \in {"value", "again"}
  OBVIOUS
<1> HIDE DEF f
<1>3. /\ IsFrame(g) /\ g.first = f.first /\ g.i = f.i /\ g.n = f.n /\ g.size = f.size
      /\ g.place = place
  BY <1>1 DEF FrameOK, IsFrame, FrameFields
<1> HIDE DEF g
<1>4. f.i \in 1 .. Len(toks) /\ Len(toks) \in Nat
  BY <1>1, <1>2, StepsInText, ListFacts DEF TokensOK
<1>5. FrameOK(toks, g)
  <2>1. /\ f.first \in 1 .. Len(toks) /\ f.i \in Nat /\ f.first < f.i /\ f.n \in Nat /\ f.size \in Nat
        /\ f.i <= EndIn(toks, f.first)
    BY <1>1, <1>2 DEF FrameOK
  <2> QED
    BY <1>3, <2>1 DEF FrameOK, Places
<1>6. FrameOK(toks, callee)
  BY <1>4, FrameStarts
<1> HIDE DEF callee
<1> QED
  BY <1>2, <1>5, <1>6, CallsCall

LEMMA ObjectValueOK ==
    ASSUME CallsOK, ObjectValue
    PROVE  CallsOK'
<1>1. phase = "parse" /\ UNCHANGED toks /\ Top.place \in {"value", "again"}
  BY DEF ObjectValue, At
<1>2. stack' = Call([Top EXCEPT !.place = "again"], Frame(Top.st, Len(texts) + 1, Top.name, Top.i))
  BY DEF ObjectValue
<1> QED
  BY <1>1, <1>2, ObjectCallOK

LEMMA ObjectAgainOK ==
    ASSUME CallsOK, ObjectAgain
    PROVE  CallsOK'
<1>1. phase = "parse" /\ Top.place \in {"value", "again"} /\ toks' = toks
  BY DEF ObjectAgain, At, Wild
<1>2. CASE Live(Top.st)
  <2>1. stack' = Call([Top EXCEPT !.place = "skip"], Frame(Len(tables) + 1, Len(texts) + 1, "", Top.i))
    BY <1>2 DEF ObjectAgain
  <2> QED
    BY <1>1, <2>1, ObjectCallOK
<1>3. CASE ~Live(Top.st)
  BY <1>1, <1>3 DEF ObjectAgain, Wild, CallsOK
<1> QED
  BY <1>2, <1>3

LEMMA ObjectSkipOK ==
    ASSUME CallsOK, ObjectSkip
    PROVE  CallsOK'
<1> DEFINE f == Top
           next == SkipWithin(f, f.i) + 1
           g == [f EXCEPT !.i = next, !.place = "name"]
<1>1. FrameOK(toks, f) /\ phase = "parse" /\ TokensOK(toks) /\ f.place = "skip"
  BY TopFrame DEF ObjectSkip, At
<1>2. stack' = SetTop(g) /\ toks' = toks
  BY DEF ObjectSkip
<1> HIDE DEF f
<1>4. f.first \in 1 .. Len(toks) /\ f.i \in Nat /\ f.first < f.i /\ f.n \in Nat /\ f.size \in Nat
  BY <1>1 DEF FrameOK
<1>5. next \in Nat /\ f.i < next
  <2>1. End(f.i) \in Nat /\ f.i <= End(f.i) /\ LastTok(f) \in Nat
    BY <1>1, <1>4, StepsInText DEF End
  <2>2. SkipWithin(f, f.i) \in f.i .. End(f.i)
    BY <1>4, <2>1, SkipFacts
  <2> QED
    BY <1>4, <2>1, <2>2
<1> HIDE DEF next
<1>3. /\ IsFrame(g) /\ g.first = f.first /\ g.i = next /\ g.n = f.n /\ g.size = f.size
      /\ g.place = "name"
  BY <1>1 DEF FrameOK, IsFrame, FrameFields
<1> HIDE DEF g
<1>6. FrameOK(toks, g)
  BY <1>3, <1>4, <1>5 DEF FrameOK, Places
<1> QED
  BY <1>1, <1>2, <1>6, CallsSet

LEMMA ArrayValueOK ==
    ASSUME CallsOK, ArrayValue
    PROVE  CallsOK'
<1> DEFINE f == Top
           size == toks[f.i].size
           g == [f EXCEPT !.i = @ + 1, !.n = 0, !.size = size, !.place = "ele"]
<1>1. FrameOK(toks, f) /\ phase = "parse" /\ TokensOK(toks) /\ f.place = "value"
  BY TopFrame DEF ArrayValue, At
<1>2. stack' = SetTop(g) /\ toks' = toks /\ toks[f.i].type = "ARRAY"
  BY DEF ArrayValue
<1> HIDE DEF f
<1>3. /\ f.i \in 1 .. Len(toks) /\ EndIn(toks, f.i) <= EndIn(toks, f.first)
      /\ EndIn(toks, f.first) \in Nat
  BY <1>1, StepsInText
<1>4. f.first \in 1 .. Len(toks) /\ f.i \in Nat /\ f.first < f.i
  BY <1>1 DEF FrameOK
<1>5. size \in Nat /\ size <= Cardinality(Ahead(toks, f.i + 1, EndIn(toks, f.first)))
  BY <1>1, <1>2, <1>3, TokenFacts, AheadStarts
<1> HIDE DEF size
<1>6. /\ IsFrame(g) /\ g.first = f.first /\ g.i = f.i + 1 /\ g.n = 0 /\ g.size = size
      /\ g.place = "ele"
  BY <1>1 DEF FrameOK, IsFrame, FrameFields
<1> HIDE DEF g
<1>7. g.i + g.n = f.i + 1 /\ g.size - g.n = size
  BY <1>4, <1>5, <1>6
<1>8. FrameOK(toks, g)
  BY <1>4, <1>5, <1>6, <1>7 DEF FrameOK, Places
<1> QED
  BY <1>1, <1>2, <1>8, CallsSet

LEMMA ArrayDoneOK ==
    ASSUME CallsOK, ArrayDone
    PROVE  CallsOK'
<1> DEFINE f == Top
           g == [f EXCEPT !.i = @ + f.size, !.place = "name"]
<1>1. FrameOK(toks, f) /\ phase = "parse"
  BY TopFrame DEF ArrayDone, At
<1>2. stack' = SetTop(g) /\ toks' = toks
  BY DEF ArrayDone
<1> HIDE DEF f
<1>3. /\ IsFrame(g) /\ g.first = f.first /\ g.i = f.i + f.size /\ g.n = f.n /\ g.size = f.size
      /\ g.place = "name"
  BY <1>1 DEF FrameOK, IsFrame, FrameFields
<1> HIDE DEF g
<1>4. f.first \in 1 .. Len(toks) /\ f.i \in Nat /\ f.first < f.i /\ f.n \in Nat /\ f.size \in Nat
  BY <1>1 DEF FrameOK
<1>5. FrameOK(toks, g)
  BY <1>3, <1>4 DEF FrameOK, Places
<1> QED
  BY <1>1, <1>2, <1>5, CallsSet

\* The element n is a token of the text; moving on by m elements keeps those
\* that are left ahead.
LEMMA ElementFacts ==
    ASSUME NEW f, TokensOK(toks), FrameOK(toks, f), f.place \in {"ele", "eleskip"}, f.n < f.size
    PROVE  /\ f.first \in 1 .. Len(toks) /\ f.i \in Nat /\ f.first < f.i /\ f.n \in Nat /\ f.size \in Nat
           /\ f.i + f.n \in 1 .. Len(toks)
           /\ EndIn(toks, f.i + f.n) \in f.i + f.n .. EndIn(toks, f.first)
           /\ EndIn(toks, f.first) \in Nat
           /\ f.size - f.n <= Cardinality(Ahead(toks, f.i + f.n, EndIn(toks, f.first)))
<1>1. /\ f.first \in 1 .. Len(toks) /\ f.i \in Nat /\ f.first < f.i /\ f.n \in Nat /\ f.size \in Nat
      /\ f.size - f.n <= Cardinality(Ahead(toks, f.i + f.n, EndIn(toks, f.first)))
  BY DEF FrameOK
<1>2. f.i + f.n \in f.first + 1 .. EndIn(toks, f.first)
  BY ElementAhead
<1>3. EndIn(toks, f.first) \in f.first .. Len(toks)
  BY <1>1, TokenFacts
<1>4. \A k \in f.first + 1 .. EndIn(toks, f.first) : EndIn(toks, k) \in k .. EndIn(toks, f.first)
  BY <1>1, TokenFacts
<1>5. Len(toks) \in Nat
  BY ListFacts DEF TokensOK
<1> QED
  BY <1>1, <1>2, <1>3, <1>4, <1>5

LEMMA MovesOn ==
    ASSUME CallsOK, phase = "parse", UNCHANGED toks, Top.place = "ele", Top.n < Top.size,
           NEW m \in Nat, stack' = SetTop([Top EXCEPT !.n = @ + m])
    PROVE  CallsOK'
<1> DEFINE f == Top
           g == [f EXCEPT !.n = @ + m]
           last == EndIn(toks, f.first)
           p == f.i + f.n
<1>1. FrameOK(toks, f) /\ TokensOK(toks)
  BY TopFrame
<1>2. stack' = SetTop(g) /\ f.place = "ele" /\ f.n < f.size
  OBVIOUS
<1> HIDE DEF f
<1>3. /\ IsFrame(g) /\ g.first = f.first /\ g.i = f.i /\ g.n = f.n + m /\ g.size = f.size
      /\ g.place = "ele"
  BY <1>1, <1>2 DEF FrameOK, IsFrame, FrameFields
<1> HIDE DEF g
<1>4. /\ f.first \in 1 .. Len(toks) /\ f.i \in Nat /\ f.first < f.i /\ f.n \in Nat /\ f.size \in Nat
      /\ last \in Nat /\ f.size - f.n <= Cardinality(Ahead(toks, p, last))
  BY <1>1, <1>2, ElementFacts
<1>5. g.i + g.n = p + m /\ p \in Nat /\ EndIn(toks, g.first) = last
  BY <1>3, <1>4
<1> HIDE DEF p, last
<1>6. Cardinality(Ahead(toks, p, last)) <= Cardinality(Ahead(toks, p + m, last)) + m
  BY <1>4, <1>5, AheadMoves
<1>7. Cardinality(Ahead(toks, p, last)) \in Nat /\ Cardinality(Ahead(toks, p + m, last)) \in Nat
  BY <1>4, <1>5, AheadFinite
<1>8. g.size - g.n <= Cardinality(Ahead(toks, g.i + g.n, EndIn(toks, g.first)))
  BY <1>3, <1>4, <1>5, <1>6, <1>7
<1>9. FrameOK(toks, g)
  BY <1>3, <1>4, <1>8 DEF FrameOK, Places
<1> QED
  BY <1>1, <1>2, <1>9, CallsSet

LEMMA ScalarElementOK ==
    ASSUME CallsOK, ScalarElement
    PROVE  CallsOK'
  BY MovesOn DEF ScalarElement, AtElement, At

LEMMA ArrayElementOK ==
    ASSUME CallsOK, ArrayElement
    PROVE  CallsOK'
<1> DEFINE f == Top
           m == toks[f.i + f.n].size + 1
<1>1. FrameOK(toks, f) /\ phase = "parse" /\ TokensOK(toks) /\ f.place = "ele" /\ f.n < f.size
  BY TopFrame DEF ArrayElement, AtElement, At
<1>2. stack' = SetTop([f EXCEPT !.n = @ + toks[f.i + f.n].size + 1]) /\ toks' = toks
  BY DEF ArrayElement
<1>3. f.n \in Nat /\ f.i + f.n \in 1 .. Len(toks)
  BY <1>1, ElementFacts
<1>4. toks[f.i + f.n].size \in Nat
  BY <1>1, <1>3, TokenFacts
<1>5. f.n + toks[f.i + f.n].size + 1 = f.n + m /\ m \in Nat
  BY <1>3, <1>4
<1>6. stack' = SetTop([f EXCEPT !.n = @ + m])
  BY <1>2, <1>5
<1> QED
  BY <1>1, <1>2, <1>5, <1>6, MovesOn

LEMMA ObjectElementOK ==
    ASSUME CallsOK, ObjectElement
    PROVE  CallsOK'
<1> DEFINE f == Top
           g == [f EXCEPT !.place = "eleskip"]
           callee == Frame(Len(tables) + 1, f.text, "", f.i + f.n)
<1>1. FrameOK(toks, f) /\ phase = "parse" /\ TokensOK(toks) /\ f.place = "ele" /\ f.n < f.size
  BY TopFrame DEF ObjectElement, AtElement, At
<1>2. stack' = Call(g, callee) /\ toks' = toks /\ toks[f.i + f.n].type = "OBJECT"
  BY DEF ObjectElement, AtElement
<1> HIDE DEF f
<1>3. /\ IsFrame(g) /\ g.first = f.first /\ g.i = f.i /\ g.n = f.n /\ g.size = f.size
      /\ g.place = "eleskip"
  BY <1>1 DEF FrameOK, IsFrame, FrameFields
<1> HIDE DEF g
<1>4. /\ f.first \in 1 .. Len(toks) /\ f.i \in Nat /\ f.first < f.i /\ f.n \in Nat /\ f.size \in Nat
      /\ f.i + f.n \in 1 .. Len(toks)
      /\ EndIn(toks, f.i + f.n) \in f.i + f.n .. EndIn(toks, f.first)
      /\ EndIn(toks, f.first) \in Nat
      /\ f.size - f.n <= Cardinality(Ahead(toks, f.i + f.n, EndIn(toks, f.first)))
  BY <1>1, ElementFacts
<1>5. FrameOK(toks, g)
  <2>1. /\ f.i + f.n <= EndIn(toks, f.first)
        /\ g.i + g.n = f.i + f.n /\ g.size - g.n = f.size - f.n
    BY <1>3, <1>4
  <2> DEFINE p == f.i + f.n
  <2>2. /\ g.i + g.n = p /\ toks[p].type = "OBJECT" /\ p <= EndIn(toks, f.first)
        /\ g.size - g.n <= Cardinality(Ahead(toks, p, EndIn(toks, f.first)))
    BY <1>2, <1>4, <2>1
  <2> HIDE DEF p
  <2> QED
    BY <1>1, <1>3, <1>4, <2>2 DEF FrameOK, Places
<1>6. FrameOK(toks, callee)
  <2>1. Len(toks) \in Nat
    BY <1>1, ListFacts DEF TokensOK
  <2> QED
    BY <1>4, <2>1, FrameStarts
<1> HIDE DEF callee
<1> QED
  BY <1>1, <1>2, <1>5, <1>6, CallsCall

LEMMA ElementSkipOK ==
    ASSUME CallsOK, ElementSkip
    PROVE  CallsOK'
<1> DEFINE f == Top
           p == f.i + f.n
           e == SkipWithin(f, p)
           last == EndIn(toks, f.first)
           g == [f EXCEPT !.i = e - f.n, !.n = @ + 1, !.place = "ele"]
<1>1. FrameOK(toks, f) /\ phase = "parse" /\ TokensOK(toks) /\ f.place = "eleskip"
  BY TopFrame DEF ElementSkip, At
<1>2. stack' = SetTop(g) /\ toks' = toks
  BY DEF ElementSkip
<1> HIDE DEF f
<1>3. f.n < f.size /\ toks[p].type = "OBJECT"
  BY <1>1 DEF FrameOK
<1>4. /\ f.first \in 1 .. Len(toks) /\ f.i \in Nat /\ f.first < f.i /\ f.n \in Nat /\ f.size \in Nat
      /\ p \in 1 .. Len(toks) /\ EndIn(toks, p) \in p .. last /\ last \in Nat
      /\ f.size - f.n <= Cardinality(Ahead(toks, p, last))
  BY <1>1, <1>3, ElementFacts
<1>5. p \in Nat /\ p = f.i + f.n
  BY <1>4
<1>6. e \in p .. EndIn(toks, p) /\ EndIn(toks, p) \in Nat
  <2>1. End(p) \in Nat /\ p <= End(p) /\ LastTok(f) \in Nat
    BY <1>4 DEF End, LastTok
  <2> HIDE DEF p
  <2> QED
    BY <1>5, <2>1, SkipFacts DEF End
<1> HIDE DEF e, p
<1>7. /\ IsFrame(g) /\ g.first = f.first /\ g.i = e - f.n /\ g.n = f.n + 1 /\ g.size = f.size
      /\ g.place = "ele"
  BY <1>1 DEF FrameOK, IsFrame, FrameFields
<1> HIDE DEF g
<1>8. g.i \in Nat /\ f.first < g.i /\ g.i + g.n = e + 1
  <2>1. e \in Nat /\ f.i + f.n <= e
    BY <1>5, <1>6
  <2>2. f.first \in Nat /\ f.i \in Nat /\ f.n \in Nat /\ f.first < f.i
    BY <1>4
  <2>3. \A a, b, c, d \in Nat :
            b + c <= d /\ a < b => d - c \in Nat /\ a < d - c /\ (d - c) + (c + 1) = d + 1
    OBVIOUS
  <2>4. e - f.n \in Nat /\ f.first < e - f.n /\ (e - f.n) + (f.n + 1) = e + 1
    BY <2>1, <2>2, <2>3
  <2> QED
    BY <1>7, <2>4, Zenon
<1>9. Cardinality(Ahead(toks, p, last)) <= Cardinality(Ahead(toks, e + 1, last)) + 1
  BY <1>3, <1>4, <1>5, <1>6, AheadSkips
<1>10. Cardinality(Ahead(toks, p, last)) \in Nat /\ Cardinality(Ahead(toks, e + 1, last)) \in Nat
  BY <1>4, <1>5, <1>6, AheadFinite
<1>11. g.size - g.n <= Cardinality(Ahead(toks, g.i + g.n, EndIn(toks, g.first)))
  <2> DEFINE c == Cardinality(Ahead(toks, e + 1, last))
  <2>1. g.size - g.n = f.size - (f.n + 1) /\ Cardinality(Ahead(toks, g.i + g.n, EndIn(toks, g.first))) = c
    BY <1>7, <1>8
  <2>2. c \in Nat /\ f.size - f.n <= c + 1
    BY <1>4, <1>9, <1>10
  <2> HIDE DEF c
  <2>3. f.size - (f.n + 1) <= c
    BY <1>4, <2>2
  <2> QED
    BY <2>1, <2>3
<1>12. FrameOK(toks, g)
  BY <1>4, <1>7, <1>8, <1>11 DEF FrameOK, Places
<1> QED
  BY <1>1, <1>2, <1>12, CallsSet

LEMMA jw_newOK ==
    ASSUME CallsOK, jw_new
    PROVE  CallsOK'
<1>1. toks' = toks /\ TokensOK(toks)
  BY DEF jw_new, CallsOK
<1>2. CASE phase' = "parse"
  <2>1. stack' = << Frame(1, 1, "", 1) >>
    BY <1>2 DEF jw_new
  <2> DEFINE f == Frame(1, 1, "", 1)
  <2>2. FrameOK(toks, f)
    <3>1. 1 \in 1 .. Len(toks) /\ Len(toks) \in Nat
      BY <1>1, ListFacts DEF TokensOK
    <3> QED
      BY <3>1, FrameStarts
  <2>3. stack' = <<f>>
    BY <2>1
  <2> HIDE DEF f
  <2>4. IsList(stack') /\ Len(stack') = 1 /\ stack'[1] = f
    BY <2>3, ListOne
  <2> QED
    BY <1>1, <2>2, <2>4 DEF CallsOK
<1>3. CASE phase' # "parse"
  BY <1>1, <1>3 DEF CallsOK
<1> QED
  BY <1>2, <1>3

LEMMA StepCallsOK == CallsOK /\ [Next]_vars => CallsOK'
<1> SUFFICES ASSUME CallsOK, [Next]_vars PROVE CallsOK'
  OBVIOUS
<1>1. CASE jw_new
  BY <1>1, jw_newOK
<1>2. CASE ObjectDone
  BY <1>2, CallsReturn DEF ObjectDone, At
<1>3. CASE BadName
  BY <1>3, CallsReturn DEF BadName, At
<1>4. CASE Name
  BY <1>4, NameOK
<1>5. CASE ScalarValue
  BY <1>5, ScalarValueOK
<1>6. CASE ObjectValue
  BY <1>6, ObjectValueOK
<1>7. CASE ObjectAgain
  BY <1>7, ObjectAgainOK
<1>8. CASE ObjectSkip
  BY <1>8, ObjectSkipOK
<1>9. CASE ArrayValue
  BY <1>9, ArrayValueOK
<1>10. CASE ScalarElement
  BY <1>10, ScalarElementOK
<1>11. CASE ObjectElement
  BY <1>11, ObjectElementOK
<1>12. CASE ElementSkip
  BY <1>12, ElementSkipOK
<1>13. CASE ArrayElement
  BY <1>13, ArrayElementOK
<1>14. CASE ArrayDone
  BY <1>14, ArrayDoneOK
<1>15. CASE jw_nuke \/ NukeThing \/ NukeTable
  <2>1. toks' = toks /\ phase' # "parse"
    BY <1>15 DEF jw_nuke, NukeThing, NukeTable, Wild
  <2> QED
    BY <2>1 DEF CallsOK
<1>16. CASE UNCHANGED vars
  BY <1>16 DEF CallsOK, vars
<1> QED
  BY <1>1, <1>2, <1>3, <1>4, <1>5, <1>6, <1>7, <1>8, <1>9, <1>10, <1>11, <1>12, <1>13, <1>14,
     <1>15, <1>16 DEF Next, ParseStep

LEMMA InitCallsOK == Init => CallsOK
<1> SUFFICES ASSUME Init PROVE CallsOK
  OBVIOUS
<1>1. PICK d \in Docs : toks = jsmn_parse(d)
  BY DEF Init
<1>2. TokensOK(toks)
  BY <1>1, TokensAssumption DEF TokensAssumption, TokensOK, IsList
<1>3. phase = "new"
  BY DEF Init
<1> QED
  BY <1>2, <1>3 DEF CallsOK

\* parse_jobject reads no token outside the text of the call, however objects
\* and arrays are nested, and skipped, in it: the document's, or a nested
\* object's (jwrapper.c).
THEOREM NoTokenOutside == Spec => []TokensInRange
<1>1. Spec => []CallsOK
  BY InitCallsOK, StepCallsOK, PTL DEF Spec
<1> QED
  BY <1>1, TokensInRangeHolds, PTL

-----------------------------------------------------------------------------
(* Where a call stands among the parts of its object, and of the array it  *)
(* is in.                                                                  *)

\* The parts of the token at o that are in front of p.
Before(ts, o, p) == {j \in PartsOf(ts, o) : j < p}

IsNamePart(ts, o, p) == p \in PartsOf(ts, o) /\ Cardinality(Before(ts, o, p)) % 2 = 0
IsValuePart(ts, o, p) == p \in PartsOf(ts, o) /\ Cardinality(Before(ts, o, p)) % 2 = 1
IsElement(ts, a, p, n) == p \in PartsOf(ts, a) /\ Cardinality(Before(ts, a, p)) = n

LEMMA PartsFinite ==
    ASSUME NEW ts, TokensOK(ts), NEW o \in 1 .. Len(ts)
    PROVE  /\ IsFiniteSet(PartsOf(ts, o)) /\ Cardinality(PartsOf(ts, o)) \in Nat
           /\ \A p : IsFiniteSet(Before(ts, o, p)) /\ Cardinality(Before(ts, o, p)) \in Nat
<1>1. EndIn(ts, o) \in Int /\ o + 1 \in Int
  BY TokenFacts, ListFacts DEF TokensOK
<1>2. IsFiniteSet(o + 1 .. EndIn(ts, o))
  BY <1>1, FS_Interval
<1>3. PartsOf(ts, o) \in SUBSET (o + 1 .. EndIn(ts, o))
  BY DEF PartsOf, InsideOf
<1>4. IsFiniteSet(PartsOf(ts, o))
  BY <1>2, <1>3, FS_Subset
<1>5. \A p : Before(ts, o, p) \in SUBSET PartsOf(ts, o)
  BY DEF Before
<1> QED
  BY <1>4, <1>5, FS_Subset, FS_CardinalityType

LEMMA PartFacts ==
    ASSUME NEW ts, TokensOK(ts), NEW o \in 1 .. Len(ts), NEW p \in PartsOf(ts, o)
    PROVE  /\ p \in 1 .. Len(ts) /\ o < p /\ EndIn(ts, p) \in p .. EndIn(ts, o)
           /\ \A k \in PartsOf(ts, o) : p < k => EndIn(ts, p) < k
           /\ \A j \in o + 1 .. EndIn(ts, o) : j < p => EndIn(ts, j) < p
<1>1. p \in o + 1 .. EndIn(ts, o) /\ \A j \in o + 1 .. EndIn(ts, o) : j < p => EndIn(ts, j) < p
  BY DEF PartsOf, InsideOf
<1>2. EndIn(ts, o) \in o .. Len(ts) /\ Len(ts) \in Nat
  BY TokenFacts, ListFacts DEF TokensOK
<1>3. \A k \in o + 1 .. EndIn(ts, o) : EndIn(ts, k) \in k .. EndIn(ts, o)
  BY TokenFacts
<1>4. \A k \in PartsOf(ts, o) : p < k => EndIn(ts, p) < k
  BY <1>1 DEF PartsOf, InsideOf
<1> QED
  BY <1>1, <1>2, <1>3, <1>4

LEMMA PartFirst ==
    ASSUME NEW ts, TokensOK(ts), NEW o \in 1 .. Len(ts)
    PROVE  /\ o < EndIn(ts, o) => IsElement(ts, o, o + 1, 0) /\ IsNamePart(ts, o, o + 1)
           /\ PartsOf(ts, o) = {} => EndIn(ts, o) = o
<1>1. EndIn(ts, o) \in o .. Len(ts) /\ Len(ts) \in Nat
  BY TokenFacts, ListFacts DEF TokensOK
<1>2. ASSUME o < EndIn(ts, o)
      PROVE  o + 1 \in PartsOf(ts, o) /\ Before(ts, o, o + 1) = {}
  BY <1>1, <1>2 DEF PartsOf, InsideOf, Before
<1>3. ASSUME o < EndIn(ts, o)
      PROVE  Cardinality(Before(ts, o, o + 1)) = 0
  BY <1>2, <1>3, FS_EmptySet
<1> QED
  BY <1>1, <1>2, <1>3 DEF IsElement, IsNamePart

\* Behind a part comes the next one, or the end.
LEMMA PartNext ==
    ASSUME NEW ts, TokensOK(ts), NEW o \in 1 .. Len(ts), NEW p \in PartsOf(ts, o),
           NEW n, n = Cardinality(Before(ts, o, p))
    PROVE  /\ n \in Nat
           /\ EndIn(ts, p) < EndIn(ts, o) => IsElement(ts, o, EndIn(ts, p) + 1, n + 1)
           /\ EndIn(ts, p) < EndIn(ts, o) => n + 1 < Cardinality(PartsOf(ts, o))
           /\ EndIn(ts, p) = EndIn(ts, o) => n + 1 = Cardinality(PartsOf(ts, o))
<1> DEFINE q == EndIn(ts, p) + 1
           P == PartsOf(ts, o)
           B == Before(ts, o, p)
<1>1. /\ p \in Nat /\ o \in Nat /\ o < p /\ EndIn(ts, p) \in p .. EndIn(ts, o) /\ EndIn(ts, o) \in Nat
      /\ \A k \in P : p < k => EndIn(ts, p) < k
      /\ \A j \in o + 1 .. EndIn(ts, o) : j < p => EndIn(ts, j) < p
  BY PartFacts, TokenFacts, ListFacts DEF TokensOK
<1>2. P \in SUBSET (o + 1 .. EndIn(ts, o))
  BY DEF PartsOf, InsideOf
<1>3. B = {j \in P : j < p} /\ IsFiniteSet(B) /\ n \in Nat /\ n = Cardinality(B)
  BY PartsFinite DEF Before
<1>4. p \notin B /\ IsFiniteSet(B \cup {p}) /\ Cardinality(B \cup {p}) = n + 1
  <2>1. p \notin B
    BY <1>1, <1>3
  <2> QED
    BY <1>3, <2>1, FS_AddElement
<1>5. \A j \in P : j < q => j \in B \cup {p}
  <2> SUFFICES ASSUME NEW j \in P, j < q, j # p PROVE j < p
    BY <1>3
  <2>1. j \in Nat /\ EndIn(ts, p) \in Nat
    BY <1>1, <1>2
  <2>2. ~(p < j)
    BY <1>1, <2>1
  <2> QED
    BY <1>1, <2>1, <2>2
<1>6. Before(ts, o, q) = B \cup {p}
  <2>1. \A j \in B \cup {p} : j \in P /\ j < q
    <3>1. \A j \in B : j \in P /\ j < p /\ j \in Nat
      BY <1>1, <1>2, <1>3
    <3>2. p < q /\ q \in Nat
      BY <1>1
    <3> QED
      BY <1>1, <3>1, <3>2
  <2> QED
    BY <1>5, <2>1 DEF Before
<1>7. ASSUME EndIn(ts, p) < EndIn(ts, o)
      PROVE  q \in P
  <2>1. q \in o + 1 .. EndIn(ts, o)
    BY <1>1, <1>7
  <2>2. ASSUME NEW j \in o + 1 .. EndIn(ts, o), j < q
        PROVE  EndIn(ts, j) < q
    <3>1. CASE j < p
      <4>1. EndIn(ts, j) < p /\ EndIn(ts, j) \in Int
        <5>1. \A k \in o + 1 .. EndIn(ts, o) : EndIn(ts, k) \in k .. EndIn(ts, o)
          BY TokenFacts
        <5> QED
          BY <1>1, <2>2, <3>1, <5>1
      <4> QED
        BY <1>1, <4>1
    <3>2. CASE j = p
      BY <1>1, <3>2
    <3>3. CASE p < j
      <4>1. p \in 1 .. Len(ts)
        BY PartFacts
      <4>2. j \in p + 1 .. EndIn(ts, p)
        BY <1>1, <2>2, <3>3
      <4>3. EndIn(ts, j) \in j .. EndIn(ts, p)
        BY <4>1, <4>2, TokenFacts
      <4> QED
        BY <1>1, <4>3
    <3> QED
      BY <1>1, <2>2, <3>1, <3>2, <3>3
  <2> QED
    BY <2>1, <2>2 DEF PartsOf, InsideOf
<1>8. IsFiniteSet(P) /\ Cardinality(P) \in Nat
  BY PartsFinite
<1>9. ASSUME EndIn(ts, p) < EndIn(ts, o)
      PROVE  n + 1 < Cardinality(P)
  <2>1. q \in P /\ q \notin B \cup {p}
    BY <1>1, <1>3, <1>7, <1>9
  <2>2. IsFiniteSet((B \cup {p}) \cup {q}) /\ Cardinality((B \cup {p}) \cup {q}) = n + 1 + 1
    BY <1>4, <2>1, FS_AddElement
  <2>3. ((B \cup {p}) \cup {q}) \in SUBSET P
    BY <1>3, <2>1
  <2>4. n + 1 + 1 <= Cardinality(P)
    BY <1>8, <2>2, <2>3, FS_Subset
  <2> QED
    BY <1>3, <1>8, <2>4
<1>10. ASSUME EndIn(ts, p) = EndIn(ts, o)
       PROVE  P = B \cup {p}
  <2>1. \A j \in P : j < q
    BY <1>1, <1>2, <1>10
  <2> QED
    BY <1>3, <1>5, <2>1
<1> QED
  BY <1>3, <1>4, <1>6, <1>7, <1>9, <1>10 DEF IsElement

\* The call stands at a name, or at its value; in an array, at the element that
\* is next.  Behind the last array, or object, it may be at the last token.
ArrayAt(ts, f, a) ==
    /\ IsValuePart(ts, f.first, a) /\ ts[a].type = "ARRAY"
    /\ f.size = ts[a].size /\ f.n <= f.size
    /\ f.n < f.size => IsElement(ts, a, f.i + f.n, f.n)
    /\ f.n = f.size =>
            \/ f.i + f.n = EndIn(ts, a) + 1
            \/ EndIn(ts, a) = EndIn(ts, f.first) /\ f.i + f.n >= EndIn(ts, f.first)

PositionOK(ts, f) ==
    /\ ts[f.first].type = "OBJECT"
    /\ f.place = "name" => f.i >= EndIn(ts, f.first) \/ IsNamePart(ts, f.first, f.i)
    /\ f.place \in {"value", "again", "skip"} => IsValuePart(ts, f.first, f.i)
    /\ f.place \in {"again", "skip"} => ts[f.i].type = "OBJECT"
    /\ f.place \in {"ele", "eleskip"} => \E a \in PartsOf(ts, f.first) : ArrayAt(ts, f, a)

\* Behind a value comes a name, or the end.
LEMMA AfterValue ==
    ASSUME NEW ts, TokensOK(ts), NEW o \in 1 .. Len(ts), NEW p, IsValuePart(ts, o, p),
           NEW q, q = EndIn(ts, p) + 1 \/ q >= EndIn(ts, o)
    PROVE  q >= EndIn(ts, o) \/ IsNamePart(ts, o, q)
<1> DEFINE n == Cardinality(Before(ts, o, p))
<1>1. p \in PartsOf(ts, o) /\ n % 2 = 1
  BY DEF IsValuePart
<1>2. EndIn(ts, p) \in p .. EndIn(ts, o) /\ p \in 1 .. Len(ts)
  BY <1>1, PartFacts
<1>3. n \in Nat /\ (EndIn(ts, p) < EndIn(ts, o) => IsElement(ts, o, EndIn(ts, p) + 1, n + 1))
  BY <1>1, PartNext
<1> HIDE DEF n
<1>4. (n + 1) % 2 = 0
  BY <1>1, <1>3
<1>5. EndIn(ts, p) \in Int /\ EndIn(ts, o) \in Int
  BY <1>2, TokenFacts, ListFacts DEF TokensOK
<1>6. CASE EndIn(ts, p) < EndIn(ts, o) /\ q = EndIn(ts, p) + 1
  BY <1>3, <1>4, <1>6 DEF IsElement, IsNamePart
<1>7. CASE ~(EndIn(ts, p) < EndIn(ts, o)) /\ q = EndIn(ts, p) + 1
  BY <1>2, <1>5, <1>7
<1> QED
  BY <1>6, <1>7

\* Behind a name that is not the last token comes its value.
LEMMA AfterName ==
    ASSUME NEW ts, TokensOK(ts), NEW o \in 1 .. Len(ts), NEW p, IsNamePart(ts, o, p),
           ts[p].type = "STRING", p < EndIn(ts, o)
    PROVE  IsValuePart(ts, o, p + 1)
<1> DEFINE n == Cardinality(Before(ts, o, p))
<1>1. p \in PartsOf(ts, o) /\ n % 2 = 0
  BY DEF IsNamePart
<1>2. p \in 1 .. Len(ts)
  BY <1>1, PartFacts
<1>3. EndIn(ts, p) = p
  BY <1>2, TokenFacts
<1>4. n \in Nat /\ IsElement(ts, o, p + 1, n + 1)
  BY <1>1, <1>3, PartNext
<1> HIDE DEF n
<1>5. (n + 1) % 2 = 1
  BY <1>1, <1>4
<1> QED
  BY <1>4, <1>5 DEF IsElement, IsValuePart

\* Behind an element comes the next, or the end.  f has moved on to g.
LEMMA AfterElement ==
    ASSUME NEW ts, TokensOK(ts), NEW f, NEW g, NEW a, f.first \in 1 .. Len(ts),
           ArrayAt(ts, f, a), f.n < f.size, f.n \in Nat, f.i \in Nat,
           g.first = f.first, g.size = f.size, g.n = f.n + 1,
           \/ g.i + g.n = EndIn(ts, f.i + f.n) + 1
           \/ /\ EndIn(ts, f.i + f.n) = EndIn(ts, f.first)
              /\ g.i + g.n >= EndIn(ts, f.first)
    PROVE  ArrayAt(ts, g, a)
<1> DEFINE p == f.i + f.n
           q == g.i + g.n
           n == f.n
           size == f.size
<1>1. /\ IsValuePart(ts, f.first, a) /\ ts[a].type = "ARRAY" /\ size = ts[a].size
      /\ p \in PartsOf(ts, a) /\ n = Cardinality(Before(ts, a, p)) /\ n < size
  BY DEF ArrayAt, IsElement
<1>2. a \in PartsOf(ts, f.first)
  BY <1>1 DEF IsValuePart
<1>3. a \in 1 .. Len(ts) /\ EndIn(ts, a) \in a .. EndIn(ts, f.first)
  BY <1>2, PartFacts
<1>4. size = Cardinality(PartsOf(ts, a)) /\ size \in Nat
  BY <1>1, <1>3, TokenFacts, PartsFinite
<1>5. EndIn(ts, p) \in p .. EndIn(ts, a)
  BY <1>1, <1>3, PartFacts
<1>6. /\ n \in Nat
      /\ EndIn(ts, p) < EndIn(ts, a) => IsElement(ts, a, EndIn(ts, p) + 1, n + 1)
      /\ EndIn(ts, p) < EndIn(ts, a) => n + 1 < size
      /\ EndIn(ts, p) = EndIn(ts, a) => n + 1 = size
  BY <1>1, <1>3, <1>4, PartNext
<1>7. EndIn(ts, p) \in Int /\ EndIn(ts, a) \in Int /\ EndIn(ts, f.first) \in Int
  BY <1>3, <1>5, TokenFacts, ListFacts DEF TokensOK
<1>8. \/ q = EndIn(ts, p) + 1
      \/ EndIn(ts, p) = EndIn(ts, f.first) /\ q >= EndIn(ts, f.first)
  OBVIOUS
<1> HIDE DEF p, q, n, size
<1>9. /\ n + 1 <= size
      /\ n + 1 < size => IsElement(ts, a, q, n + 1)
      /\ n + 1 = size =>
            \/ q = EndIn(ts, a) + 1
            \/ EndIn(ts, a) = EndIn(ts, f.first) /\ q >= EndIn(ts, f.first)
  <2>1. CASE EndIn(ts, p) < EndIn(ts, a)
    <3>1. q = EndIn(ts, p) + 1
      BY <1>3, <1>7, <1>8, <2>1
    <3> QED
      BY <1>4, <1>6, <2>1, <3>1
  <2>2. CASE EndIn(ts, p) = EndIn(ts, a)
    BY <1>4, <1>6, <1>8, <2>2
  <2> QED
    BY <1>5, <1>7, <2>1, <2>2
<1>10. g.n = n + 1 /\ g.size = size /\ g.i + g.n = q
  BY DEF n, size, q
<1> QED
  BY <1>1, <1>9, <1>10 DEF ArrayAt

\* The first element of an array, if it has one.
LEMMA FirstElement ==
    ASSUME NEW ts, TokensOK(ts), NEW g, NEW a, g.first \in 1 .. Len(ts),
           IsValuePart(ts, g.first, a), ts[a].type = "ARRAY",
           g.i = a + 1, g.n = 0, g.size = ts[a].size
    PROVE  ArrayAt(ts, g, a)
<1>1. a \in PartsOf(ts, g.first)
  BY DEF IsValuePart
<1>2. a \in 1 .. Len(ts)
  BY <1>1, PartFacts
<1>3. ts[a].size = Cardinality(PartsOf(ts, a)) /\ IsFiniteSet(PartsOf(ts, a)) /\ ts[a].size \in Nat
  BY <1>2, TokenFacts, PartsFinite
<1>4. EndIn(ts, a) \in a .. Len(ts) /\ Len(ts) \in Nat
  BY <1>2, TokenFacts, ListFacts DEF TokensOK
<1>5. g.i + g.n = a + 1
  BY <1>2
<1>6. CASE PartsOf(ts, a) = {}
  <2>1. ts[a].size = 0 /\ EndIn(ts, a) = a
    BY <1>2, <1>3, <1>6, PartFirst, FS_EmptySet
  <2> QED
    BY <1>5, <2>1 DEF ArrayAt
<1>7. CASE PartsOf(ts, a) # {}
  <2>1. ts[a].size > 0
    BY <1>3, <1>7, FS_EmptySet
  <2>2. a < EndIn(ts, a)
    BY <1>2, <1>4, <1>7 DEF PartsOf, InsideOf
  <2>3. IsElement(ts, a, a + 1, 0)
    BY <1>2, <2>2, PartFirst
  <2>4. g.n < g.size /\ g.n <= g.size /\ ~(g.n = g.size)
    BY <1>3, <2>1
  <2>5. IsElement(ts, a, g.i + g.n, g.n)
    BY <1>5, <2>3
  <2> QED
    BY <2>4, <2>5, Zenon DEF ArrayAt
<1> QED
  BY <1>6, <1>7

\* A call has a table, and stands where it should.
Stands(ts, m, f) == f.st \in 1 .. m /\ PositionOK(ts, f)
Walk(ts, m, stk) == \A k \in 1 .. Len(stk) : Stands(ts, m, stk[k])

LEMMA CallStands ==
    ASSUME NEW ts, TokensOK(ts), NEW m, NEW t \in 1 .. m, NEW x, NEW prefix,
           NEW first \in 1 .. Len(ts), ts[first].type = "OBJECT"
    PROVE  Stands(ts, m, Frame(t, x, prefix, first))
<1> DEFINE g == Frame(t, x, prefix, first)
<1>1. g.st = t /\ g.first = first /\ g.place = "name" /\ g.i = first + 1
  BY DEF Frame
<1> HIDE DEF g
<1>2. EndIn(ts, first) \in first .. Len(ts) /\ first \in Nat
  BY TokenFacts
<1>3. first + 1 >= EndIn(ts, first) \/ IsNamePart(ts, first, first + 1)
  BY <1>2, PartFirst
<1>4. PositionOK(ts, g)
  BY <1>1, <1>3 DEF PositionOK
<1> QED
  BY <1>1, <1>4 DEF Stands, g

LEMMA WalkSet ==
    ASSUME CallsOK, phase = "parse", NEW m \in Nat, Walk(toks, m, stack), NEW m2 \in Nat, m <= m2,
           NEW g, Stands(toks, m2, g), stack' = SetTop(g)
    PROVE  Walk(toks, m2, stack')
<1>1. IsList(stack) /\ Len(stack) \in Nat \ {0}
  BY TopFrame
<1>2. IsSetAt(stack, Len(stack), g, stack')
  <2>1. stack' = [stack EXCEPT ![Len(stack)] = g] /\ Len(stack) \in 1 .. Len(stack)
    BY <1>1 DEF SetTop
  <2> QED
    BY <1>1, <2>1, ListSet
<1>3. \A f : Stands(toks, m, f) => Stands(toks, m2, f)
  BY DEF Stands
<1> QED
  BY <1>1, <1>2, <1>3 DEF Walk, IsSetAt

LEMMA WalkCall ==
    ASSUME CallsOK, phase = "parse", NEW m \in Nat, Walk(toks, m, stack), NEW m2 \in Nat, m <= m2,
           NEW g, Stands(toks, m2, g), NEW callee, Stands(toks, m2, callee),
           stack' = Call(g, callee)
    PROVE  Walk(toks, m2, stack')
<1> DEFINE s == SetTop(g)
<1>1. IsList(stack) /\ Len(stack) \in Nat \ {0}
  BY TopFrame
<1>2. IsSetAt(stack, Len(stack), g, s)
  <2>1. s = [stack EXCEPT ![Len(stack)] = g] /\ Len(stack) \in 1 .. Len(stack)
    BY <1>1 DEF SetTop
  <2> QED
    BY <1>1, <2>1, ListSet
<1>3. stack' = Append(s, callee)
  BY DEF Call
<1> HIDE DEF s
<1>4. IsAppended(s, callee, stack')
  BY <1>2, <1>3, ListAppend DEF IsSetAt
<1>5. \A f : Stands(toks, m, f) => Stands(toks, m2, f)
  BY DEF Stands
<1> QED
  BY <1>1, <1>2, <1>4, <1>5 DEF Walk, IsSetAt, IsAppended

LEMMA WalkReturn ==
    ASSUME CallsOK, phase = "parse", NEW m \in Nat, Walk(toks, m, stack), stack' = Front(stack)
    PROVE  Walk(toks, m, stack')
<1>1. IsList(stack) /\ Len(stack) \in Nat \ {0}
  BY TopFrame
<1>2. Len(stack') = Len(stack) - 1 /\ \A k \in 1 .. Len(stack) - 1 : stack'[k] = stack[k]
  BY <1>1, ListFront
<1> QED
  BY <1>1, <1>2 DEF Walk

\* Of the frame on top.
LEMMA TopStands ==
    ASSUME CallsOK, phase = "parse", NEW m, Walk(toks, m, stack)
    PROVE  /\ Top.st \in 1 .. m /\ PositionOK(toks, Top)
           /\ Top.first \in 1 .. Len(toks) /\ EndIn(toks, Top.first) = LastTok(Top)
           /\ LastTok(Top) \in Nat /\ TokensOK(toks) /\ FrameOK(toks, Top)
           /\ Top.i \in Nat /\ Top.n \in Nat /\ Top.size \in Nat /\ IsFrame(Top)
<1>1. Stands(toks, m, Top)
  BY TopFrame DEF Walk
<1>2. FrameOK(toks, Top) /\ TokensOK(toks) /\ LastTok(Top) = EndIn(toks, Top.first)
  BY TopFrame
<1>3. /\ Top.first \in 1 .. Len(toks) /\ Top.i \in Nat /\ Top.n \in Nat /\ Top.size \in Nat
      /\ IsFrame(Top)
  BY <1>2 DEF FrameOK
<1>4. EndIn(toks, Top.first) \in Nat
  BY <1>2, <1>3, TokenFacts
<1> QED
  BY <1>1, <1>2, <1>3, <1>4 DEF Stands

\* A document that can be handled has a string for each name.
LEMMA NamesAreStrings ==
    ASSUME Handled, CallsOK, phase = "parse", NEW m, Walk(toks, m, stack),
           Top.place = "name", Top.i < LastTok(Top)
    PROVE  IsNamePart(toks, Top.first, Top.i) /\ toks[Top.i].type = "STRING"
<1> DEFINE f == Top
<1>1. /\ PositionOK(toks, f) /\ f.first \in 1 .. Len(toks) /\ EndIn(toks, f.first) = LastTok(f)
      /\ LastTok(f) \in Nat /\ TokensOK(toks) /\ f.i \in Nat
  BY TopStands
<1>2. f.place = "name" /\ f.i < LastTok(f)
  OBVIOUS
<1> HIDE DEF f
<1>3. IsNamePart(toks, f.first, f.i) /\ toks[f.first].type = "OBJECT"
  BY <1>1, <1>2 DEF PositionOK
<1>4. f.first \in DOMAIN toks
  BY <1>1, ListFacts DEF TokensOK
<1>5. toks[f.i].type = "STRING"
  BY <1>3, <1>4 DEF Handled, IsNamePart, Before
<1> QED
  BY <1>3, <1>5 DEF f

LEMMA NameStands ==
    ASSUME Handled, CallsOK, NEW m \in Nat, Walk(toks, m, stack), Name
    PROVE  Walk(toks, m, stack')
<1> DEFINE f == Top
           g == [f EXCEPT !.name = Path(f.prefix, toks[f.i].text), !.i = @ + 1, !.place = "value"]
<1>1. phase = "parse" /\ f.place = "name" /\ f.i < LastTok(f) /\ stack' = SetTop(g)
  BY DEF Name, At
<1>2. /\ f.st \in 1 .. m /\ PositionOK(toks, f) /\ f.first \in 1 .. Len(toks)
      /\ EndIn(toks, f.first) = LastTok(f) /\ TokensOK(toks) /\ f.i \in Nat /\ IsFrame(f)
  BY <1>1, TopStands
<1>3. IsNamePart(toks, f.first, f.i) /\ toks[f.i].type = "STRING"
  BY <1>1, NamesAreStrings
<1> HIDE DEF f
<1>4. /\ g.st = f.st /\ g.first = f.first /\ g.i = f.i + 1 /\ g.place = "value"
  BY <1>2 DEF IsFrame, FrameFields
<1> HIDE DEF g
<1>5. IsValuePart(toks, f.first, f.i + 1) /\ toks[f.first].type = "OBJECT"
  BY <1>1, <1>2, <1>3, AfterName DEF PositionOK
<1>6. Stands(toks, m, g)
  BY <1>2, <1>4, <1>5 DEF Stands, PositionOK
<1> QED
  BY <1>1, <1>6, WalkSet

LEMMA ScalarValueStands ==
    ASSUME CallsOK, NEW m \in Nat, Walk(toks, m, stack), ScalarValue
    PROVE  Walk(toks, m, stack')
<1> DEFINE f == Top
           g == [f EXCEPT !.i = @ + 1, !.place = "name"]
<1>1. /\ phase = "parse" /\ f.place = "value" /\ toks[f.i].type \in {"STRING", "PRIMITIVE"}
      /\ stack' = SetTop(g)
  BY DEF ScalarValue, At
<1>2. /\ f.st \in 1 .. m /\ PositionOK(toks, f) /\ f.first \in 1 .. Len(toks)
      /\ TokensOK(toks) /\ FrameOK(toks, f) /\ IsFrame(f)
  BY <1>1, TopStands
<1> HIDE DEF f
<1>3. g.st = f.st /\ g.first = f.first /\ g.i = f.i + 1 /\ g.place = "name"
  BY <1>2 DEF IsFrame, FrameFields
<1> HIDE DEF g
<1>4. IsValuePart(toks, f.first, f.i) /\ toks[f.first].type = "OBJECT"
  BY <1>1, <1>2 DEF PositionOK
<1>5. f.i \in 1 .. Len(toks)
  BY <1>1, <1>2, StepsInText
<1>6. EndIn(toks, f.i) = f.i
  BY <1>1, <1>2, <1>5, TokenFacts
<1>7. g.i >= EndIn(toks, f.first) \/ IsNamePart(toks, f.first, g.i)
  BY <1>2, <1>3, <1>4, <1>6, AfterValue
<1>8. Stands(toks, m, g)
  BY <1>2, <1>3, <1>4, <1>7 DEF Stands, PositionOK
<1> QED
  BY <1>1, <1>8, WalkSet

LEMMA ObjectCallStands ==
    ASSUME CallsOK, phase = "parse", NEW m \in Nat, Walk(toks, m, stack), NEW m2 \in Nat, m <= m2,
           Top.place \in {"value", "again"}, toks[Top.i].type = "OBJECT",
           NEW place \in {"again", "skip"}, NEW t \in 1 .. m2, NEW x, NEW prefix,
           stack' = Call([Top EXCEPT !.place = place], Frame(t, x, prefix, Top.i))
    PROVE  Walk(toks, m2, stack')
<1> DEFINE f == Top
           g == [f EXCEPT !.place = place]
           callee == Frame(t, x, prefix, f.i)
<1>1. f.place \in {"value", "again"} /\ toks[f.i].type = "OBJECT" /\ stack' = Call(g, callee)
  OBVIOUS
<1>2. /\ f.st \in 1 .. m /\ PositionOK(toks, f) /\ TokensOK(toks) /\ FrameOK(toks, f) /\ IsFrame(f)
  BY TopStands
<1> HIDE DEF f
<1>3. g.st = f.st /\ g.first = f.first /\ g.i = f.i /\ g.place = place
  BY <1>2 DEF IsFrame, FrameFields
<1> HIDE DEF g
<1>4. f.i \in 1 .. Len(toks)
  BY <1>1, <1>2, StepsInText
<1>5. Stands(toks, m2, callee)
  BY <1>1, <1>2, <1>4, CallStands
<1> HIDE DEF callee
<1>6. IsValuePart(toks, f.first, f.i) /\ toks[f.first].type = "OBJECT"
  BY <1>1, <1>2 DEF PositionOK
<1>7. Stands(toks, m2, g)
  BY <1>1, <1>2, <1>3, <1>6 DEF Stands, PositionOK
<1> QED
  BY <1>1, <1>5, <1>7, WalkCall

LEMMA ObjectSkipStands ==
    ASSUME CallsOK, NEW m \in Nat, Walk(toks, m, stack), ObjectSkip
    PROVE  Walk(toks, m, stack')
<1> DEFINE f == Top
           e == SkipWithin(f, f.i)
           g == [f EXCEPT !.i = e + 1, !.place = "name"]
<1>1. phase = "parse" /\ f.place = "skip" /\ stack' = SetTop(g)
  BY DEF ObjectSkip, At
<1>2. /\ f.st \in 1 .. m /\ PositionOK(toks, f) /\ f.first \in 1 .. Len(toks)
      /\ EndIn(toks, f.first) = LastTok(f) /\ LastTok(f) \in Nat
      /\ TokensOK(toks) /\ FrameOK(toks, f) /\ IsFrame(f) /\ f.i \in Nat
  BY <1>1, TopStands
<1> HIDE DEF f
<1>3. f.i \in 1 .. Len(toks) /\ EndIn(toks, f.i) \in f.i .. LastTok(f)
  BY <1>1, <1>2, StepsInText
<1>4. e \in f.i .. EndIn(toks, f.i) /\ (e = EndIn(toks, f.i) \/ e >= LastTok(f) - 1)
  BY <1>2, <1>3, SkipFacts DEF End
<1> HIDE DEF e
<1>5. g.st = f.st /\ g.first = f.first /\ g.i = e + 1 /\ g.place = "name"
  BY <1>2 DEF IsFrame, FrameFields
<1> HIDE DEF g
<1>6. IsValuePart(toks, f.first, f.i) /\ toks[f.first].type = "OBJECT"
  BY <1>1, <1>2 DEF PositionOK
<1>7. g.i = EndIn(toks, f.i) + 1 \/ g.i >= EndIn(toks, f.first)
  BY <1>2, <1>3, <1>4, <1>5
<1>8. g.i >= EndIn(toks, f.first) \/ IsNamePart(toks, f.first, g.i)
  BY <1>2, <1>6, <1>7, AfterValue
<1>9. Stands(toks, m, g)
  BY <1>2, <1>5, <1>6, <1>8 DEF Stands, PositionOK
<1> QED
  BY <1>1, <1>9, WalkSet

LEMMA ArrayValueStands ==
    ASSUME CallsOK, NEW m \in Nat, Walk(toks, m, stack), ArrayValue
    PROVE  Walk(toks, m, stack')
<1> DEFINE f == Top
           g == [f EXCEPT !.i = @ + 1, !.n = 0, !.size = toks[f.i].size, !.place = "ele"]
<1>1. phase = "parse" /\ f.place = "value" /\ toks[f.i].type = "ARRAY" /\ stack' = SetTop(g)
  BY DEF ArrayValue, At
<1>2. /\ f.st \in 1 .. m /\ PositionOK(toks, f) /\ f.first \in 1 .. Len(toks)
      /\ TokensOK(toks) /\ IsFrame(f)
  BY <1>1, TopStands
<1> HIDE DEF f
<1>3. /\ g.st = f.st /\ g.first = f.first /\ g.i = f.i + 1 /\ g.place = "ele"
      /\ g.n = 0 /\ g.size = toks[f.i].size
  BY <1>2 DEF IsFrame, FrameFields
<1> HIDE DEF g
<1>4. IsValuePart(toks, f.first, f.i) /\ toks[f.first].type = "OBJECT"
  BY <1>1, <1>2 DEF PositionOK
<1>5. ArrayAt(toks, g, f.i)
  BY <1>1, <1>2, <1>3, <1>4, FirstElement
<1>6. f.i \in PartsOf(toks, f.first)
  BY <1>4 DEF IsValuePart
<1>7. Stands(toks, m, g)
  BY <1>2, <1>3, <1>4, <1>5, <1>6 DEF Stands, PositionOK
<1> QED
  BY <1>1, <1>7, WalkSet

LEMMA ArrayDoneStands ==
    ASSUME CallsOK, NEW m \in Nat, Walk(toks, m, stack), ArrayDone
    PROVE  Walk(toks, m, stack')
<1> DEFINE f == Top
           g == [f EXCEPT !.i = @ + f.size, !.place = "name"]
<1>1. phase = "parse" /\ f.place = "ele" /\ f.n >= f.size /\ stack' = SetTop(g)
  BY DEF ArrayDone, At
<1>2. /\ f.st \in 1 .. m /\ PositionOK(toks, f) /\ f.first \in 1 .. Len(toks)
      /\ TokensOK(toks) /\ IsFrame(f) /\ f.n \in Nat /\ f.size \in Nat
  BY <1>1, TopStands
<1> HIDE DEF f
<1>3. g.st = f.st /\ g.first = f.first /\ g.i = f.i + f.size /\ g.place = "name"
  BY <1>2 DEF IsFrame, FrameFields
<1> HIDE DEF g
<1>4. PICK a \in PartsOf(toks, f.first) : ArrayAt(toks, f, a)
  BY <1>1, <1>2 DEF PositionOK
<1>5. f.n = f.size
  BY <1>1, <1>2, <1>4 DEF ArrayAt
<1>6. /\ IsValuePart(toks, f.first, a)
      /\ g.i = EndIn(toks, a) + 1 \/ g.i >= EndIn(toks, f.first)
  BY <1>3, <1>4, <1>5 DEF ArrayAt
<1>7. g.i >= EndIn(toks, f.first) \/ IsNamePart(toks, f.first, g.i)
  BY <1>2, <1>6, AfterValue
<1>8. Stands(toks, m, g)
  BY <1>2, <1>3, <1>7 DEF Stands, PositionOK
<1> QED
  BY <1>1, <1>8, WalkSet

LEMMA ScalarElementStands ==
    ASSUME CallsOK, NEW m \in Nat, Walk(toks, m, stack), ScalarElement
    PROVE  Walk(toks, m, stack')
<1> DEFINE f == Top
           g == [f EXCEPT !.n = @ + 1]
<1>1. /\ phase = "parse" /\ f.place = "ele" /\ f.n < f.size
      /\ toks[f.i + f.n].type \in {"STRING", "PRIMITIVE"} /\ stack' = SetTop(g)
  BY DEF ScalarElement, AtElement, At
<1>2. /\ f.st \in 1 .. m /\ PositionOK(toks, f) /\ f.first \in 1 .. Len(toks)
      /\ TokensOK(toks) /\ FrameOK(toks, f) /\ IsFrame(f) /\ f.i \in Nat /\ f.n \in Nat
  BY <1>1, TopStands
<1> HIDE DEF f
<1>3. /\ g.st = f.st /\ g.first = f.first /\ g.i = f.i /\ g.n = f.n + 1 /\ g.size = f.size
      /\ g.place = "ele"
  BY <1>1, <1>2 DEF IsFrame, FrameFields
<1> HIDE DEF g
<1>4. PICK a \in PartsOf(toks, f.first) : ArrayAt(toks, f, a)
  BY <1>1, <1>2 DEF PositionOK
<1>5. f.i + f.n \in 1 .. Len(toks)
  BY <1>1, <1>2, ElementFacts
<1>6. EndIn(toks, f.i + f.n) = f.i + f.n
  BY <1>1, <1>2, <1>5, TokenFacts
<1>7. g.i + g.n = EndIn(toks, f.i + f.n) + 1
  BY <1>2, <1>3, <1>6
<1>8. ArrayAt(toks, g, a)
  BY <1>1, <1>2, <1>3, <1>4, <1>7, AfterElement
<1>9. Stands(toks, m, g)
  BY <1>2, <1>3, <1>8 DEF Stands, PositionOK
<1> QED
  BY <1>1, <1>9, WalkSet

LEMMA ObjectElementStands ==
    ASSUME CallsOK, NEW m \in Nat, Walk(toks, m, stack), ObjectElement, m = Len(tables)
    PROVE  Walk(toks, m + 1, stack')
<1> DEFINE f == Top
           g == [f EXCEPT !.place = "eleskip"]
           callee == Frame(m + 1, f.text, "", f.i + f.n)
<1>1. /\ phase = "parse" /\ f.place = "ele" /\ f.n < f.size
      /\ toks[f.i + f.n].type = "OBJECT" /\ stack' = Call(g, callee)
  BY DEF ObjectElement, AtElement, At
<1>2. /\ f.st \in 1 .. m /\ PositionOK(toks, f) /\ f.first \in 1 .. Len(toks)
      /\ TokensOK(toks) /\ FrameOK(toks, f) /\ IsFrame(f)
  BY <1>1, TopStands
<1> HIDE DEF f
<1>3. /\ g.st = f.st /\ g.first = f.first /\ g.i = f.i /\ g.n = f.n /\ g.size = f.size
      /\ g.place = "eleskip"
  BY <1>2 DEF IsFrame, FrameFields
<1> HIDE DEF g
<1>4. PICK a \in PartsOf(toks, f.first) : ArrayAt(toks, f, a)
  BY <1>1, <1>2 DEF PositionOK
<1>5. ArrayAt(toks, g, a)
  BY <1>3, <1>4 DEF ArrayAt
<1>6. Stands(toks, m + 1, g)
  BY <1>2, <1>3, <1>5 DEF Stands, PositionOK
<1>7. f.i + f.n \in 1 .. Len(toks) /\ m + 1 \in 1 .. m + 1
  <2>1. f.i + f.n \in 1 .. Len(toks)
    BY <1>1, <1>2, ElementFacts
  <2>2. m + 1 \in 1 .. m + 1
    OBVIOUS
  <2> QED
    BY <2>1, <2>2
<1>8. Stands(toks, m + 1, callee)
  BY <1>1, <1>2, <1>7, CallStands
<1> HIDE DEF callee
<1> QED
  BY <1>1, <1>6, <1>8, WalkCall

LEMMA ElementSkipStands ==
    ASSUME CallsOK, NEW m \in Nat, Walk(toks, m, stack), ElementSkip
    PROVE  Walk(toks, m, stack')
<1> DEFINE f == Top
           p == f.i + f.n
           e == SkipWithin(f, p)
           last == EndIn(toks, f.first)
           g == [f EXCEPT !.i = e - f.n, !.n = @ + 1, !.place = "ele"]
<1>1. phase = "parse" /\ f.place = "eleskip" /\ stack' = SetTop(g)
  BY DEF ElementSkip, At
<1>2. /\ f.st \in 1 .. m /\ PositionOK(toks, f) /\ f.first \in 1 .. Len(toks)
      /\ last = LastTok(f) /\ last \in Nat
      /\ TokensOK(toks) /\ FrameOK(toks, f) /\ IsFrame(f) /\ f.i \in Nat /\ f.n \in Nat
  BY <1>1, TopStands
<1> HIDE DEF f
<1>3. f.n < f.size
  BY <1>1, <1>2 DEF FrameOK
<1>4. EndIn(toks, p) \in p .. last /\ p \in Nat
  BY <1>1, <1>2, <1>3, ElementFacts
<1>5. e \in p .. EndIn(toks, p) /\ (e = EndIn(toks, p) \/ e >= last - 1)
  <2> HIDE DEF p
  <2>1. End(p) \in Nat /\ p <= End(p) /\ LastTok(f) \in Nat /\ p \in Nat
    BY <1>2, <1>4 DEF End
  <2> QED
    BY <1>2, <2>1, SkipFacts DEF End
<1> HIDE DEF e
<1>6. /\ g.st = f.st /\ g.first = f.first /\ g.i = e - f.n /\ g.n = f.n + 1 /\ g.size = f.size
      /\ g.place = "ele"
  BY <1>2 DEF IsFrame, FrameFields
<1> HIDE DEF g
<1>7. PICK a \in PartsOf(toks, f.first) : ArrayAt(toks, f, a)
  BY <1>1, <1>2 DEF PositionOK
<1>8. g.i + g.n = e + 1
  <2>1. \A b, c \in Int : (b - c) + (c + 1) = b + 1
    OBVIOUS
  <2>2. e \in Int /\ f.n \in Int
    BY <1>2, <1>5
  <2> QED
    BY <1>6, <2>1, <2>2
<1>9. \/ g.i + g.n = EndIn(toks, p) + 1
      \/ EndIn(toks, p) = last /\ g.i + g.n >= last
  <2> HIDE DEF p, last
  <2> QED
    BY <1>2, <1>4, <1>5, <1>8
<1>10. ArrayAt(toks, g, a)
  BY <1>2, <1>3, <1>6, <1>7, <1>9, AfterElement
<1>11. Stands(toks, m, g)
  BY <1>2, <1>6, <1>10 DEF Stands, PositionOK
<1> QED
  BY <1>1, <1>11, WalkSet

\* No array is in an array.
LEMMA NoArrayElement ==
    ASSUME Handled, CallsOK, NEW m, Walk(toks, m, stack)
    PROVE  ~ArrayElement
<1> SUFFICES ASSUME ArrayElement PROVE FALSE
  OBVIOUS
<1> DEFINE f == Top
<1>1. phase = "parse" /\ f.place = "ele" /\ f.n < f.size /\ toks[f.i + f.n].type = "ARRAY"
  BY DEF ArrayElement, AtElement, At
<1>2. PositionOK(toks, f) /\ f.first \in 1 .. Len(toks) /\ TokensOK(toks)
  BY <1>1, TopStands
<1> HIDE DEF f
<1>3. PICK a \in PartsOf(toks, f.first) : ArrayAt(toks, f, a)
  BY <1>1, <1>2 DEF PositionOK
<1>4. a \in 1 .. Len(toks)
  BY <1>2, <1>3, PartFacts
<1>5. toks[a].type = "ARRAY" /\ f.i + f.n \in PartsOf(toks, a)
  BY <1>1, <1>3 DEF ArrayAt, IsElement
<1>6. a \in DOMAIN toks
  BY <1>2, <1>4, ListFacts DEF TokensOK
<1> QED
  BY <1>1, <1>5, <1>6 DEF Handled

-----------------------------------------------------------------------------
(* Tables and what leads to them.                                          *)

ThingFields == {"type", "prim", "ref", "val", "ele"}
ThingOK(thing) == DOMAIN thing = ThingFields /\ 0 \notin DOMAIN thing.ele
TableOK(table) ==
    DOMAIN table = {"map", "freed", "of"} /\ \A n \in DOMAIN table.map : ThingOK(table.map[n])

\* Inner and InnerTable, of a map.
InnerOf(map) ==
    { <<n, 0>> : n \in {m \in DOMAIN map : map[m].type = "OBJECT"} }
        \cup UNION { { <<n, k>> : k \in {j \in DOMAIN map[n].ele : map[n].ele[j].type = "OBJECT"} } :
                     n \in {m \in DOMAIN map : map[m].type = "ARRAY"} }
TableAt(map, place) ==
    IF place[2] = 0 THEN map[place[1]].ref ELSE map[place[1]].ele[place[2]].ref

\* A thing leads to a table, itself (0) or with its element k.
Leads(thing, k) ==
    \/ k = 0 /\ thing.type = "OBJECT"
    \/ thing.type = "ARRAY" /\ k \in DOMAIN thing.ele /\ thing.ele[k].type = "OBJECT"
LeadsTo(thing, k) == IF k = 0 THEN thing.ref ELSE thing.ele[k].ref

LEMMA InnerPlaces ==
    ASSUME NEW map
    PROVE  /\ \A p \in InnerOf(map) : \E n \in DOMAIN map : \E k :
                    p = <<n, k>> /\ Leads(map[n], k) /\ TableAt(map, p) = LeadsTo(map[n], k)
           /\ \A n \in DOMAIN map : \A k : Leads(map[n], k) =>
                    <<n, k>> \in InnerOf(map) /\ TableAt(map, <<n, k>>) = LeadsTo(map[n], k)
<1>1. \A n, k : TableAt(map, <<n, k>>) = LeadsTo(map[n], k)
  BY DEF TableAt, LeadsTo
<1>2. ASSUME NEW p \in InnerOf(map)
      PROVE  \E n \in DOMAIN map : \E k : p = <<n, k>> /\ Leads(map[n], k)
  <2>1. CASE p \in { <<n, 0>> : n \in {m \in DOMAIN map : map[m].type = "OBJECT"} }
    BY <2>1 DEF Leads
  <2>2. CASE p \in UNION { { <<n, k>> : k \in {j \in DOMAIN map[n].ele : map[n].ele[j].type = "OBJECT"} } :
                           n \in {m \in DOMAIN map : map[m].type = "ARRAY"} }
    BY <2>2 DEF Leads
  <2> QED
    BY <2>1, <2>2 DEF InnerOf
<1>3. ASSUME NEW n \in DOMAIN map, NEW k, Leads(map[n], k)
      PROVE  <<n, k>> \in InnerOf(map)
  BY <1>3 DEF Leads, InnerOf
<1> QED
  BY <1>1, <1>2, <1>3

\* What leads to tables in a map that was changed: what did before, and one
\* thing that is new, if there is one.
PlacesCome(map, map2, grows, q, u) ==
    \A p \in InnerOf(map2) :
        \/ p \in InnerOf(map) /\ TableAt(map2, p) = TableAt(map, p)
        \/ grows /\ p = q /\ TableAt(map2, p) = u
ThingsCome(map, map2, grows, name, kk, u) ==
    \A n \in DOMAIN map2 : \A k : Leads(map2[n], k) =>
        \/ n \in DOMAIN map /\ Leads(map[n], k) /\ LeadsTo(map2[n], k) = LeadsTo(map[n], k)
        \/ grows /\ n = name /\ k = kk /\ LeadsTo(map2[n], k) = u

LEMMA MapChanges ==
    ASSUME NEW map, NEW map2, NEW grows, NEW name, NEW kk, NEW u,
           ThingsCome(map, map2, grows, name, kk, u)
    PROVE  PlacesCome(map, map2, grows, <<name, kk>>, u)
<1> USE DEF ThingsCome
<1> SUFFICES ASSUME NEW p \in InnerOf(map2)
             PROVE  \/ p \in InnerOf(map) /\ TableAt(map2, p) = TableAt(map, p)
                    \/ grows /\ p = <<name, kk>> /\ TableAt(map2, p) = u
  BY DEF PlacesCome
<1>1. PICK n, k : n \in DOMAIN map2 /\ p = <<n, k>> /\ Leads(map2[n], k) /\ TableAt(map2, p) = LeadsTo(map2[n], k)
  BY InnerPlaces
<1>2. CASE n \in DOMAIN map /\ Leads(map[n], k) /\ LeadsTo(map2[n], k) = LeadsTo(map[n], k)
  <2>1. <<n, k>> \in InnerOf(map) /\ TableAt(map, <<n, k>>) = LeadsTo(map[n], k)
    BY <1>2, InnerPlaces
  <2> QED
    BY <1>1, <1>2, <2>1
<1>3. CASE grows /\ n = name /\ k = kk /\ LeadsTo(map2[n], k) = u
  BY <1>1, <1>3
<1> QED
  BY <1>1, <1>2, <1>3

\* b are the tables of a, with one place more that leads to a table, u, if one
\* was added.
Changed(a, b, grows, st, q, u) ==
    /\ IsList(b) /\ Len(b) = Len(a)
    /\ \A t \in 1 .. Len(a) :
        /\ TableOK(b[t]) /\ b[t].freed = a[t].freed
        /\ PlacesCome(a[t].map, b[t].map, grows /\ t = st, q, u)

LEMMA TableChanges ==
    ASSUME NEW a, IsList(a), \A t \in 1 .. Len(a) : TableOK(a[t]),
           NEW st \in 1 .. Len(a), NEW grows, NEW q, NEW u,
           NEW table, TableOK(table), table.freed = a[st].freed,
           PlacesCome(a[st].map, table.map, grows, q, u),
           NEW b, b = [a EXCEPT ![st] = table]
    PROVE  Changed(a, b, grows, st, q, u)
<1>1. IsSetAt(a, st, table, b)
  BY ListSet
<1>2. IsList(b) /\ Len(b) = Len(a) /\ b[st] = table /\ \A t \in 1 .. Len(a) : t # st => b[t] = a[t]
  BY <1>1 DEF IsSetAt
<1> SUFFICES ASSUME NEW t \in 1 .. Len(a)
             PROVE  /\ TableOK(b[t]) /\ b[t].freed = a[t].freed
                    /\ PlacesCome(a[t].map, b[t].map, grows /\ t = st, q, u)
  BY <1>2 DEF Changed
<1>3. CASE t = st
  <2>1. PlacesCome(a[st].map, table.map, grows /\ t = st, q, u)
    BY <1>3 DEF PlacesCome
  <2> QED
    BY <1>2, <1>3, <2>1
<1>4. CASE t # st
  <2>1. b[t] = a[t]
    BY <1>2, <1>4
  <2>2. PlacesCome(a[t].map, a[t].map, grows /\ t = st, q, u)
    BY DEF PlacesCome
  <2> QED
    BY <2>1, <2>2
<1> QED
  BY <1>3, <1>4

\* sym_fmap of a thing that leads to no table, or is one itself.
LEMMA MapIn ==
    ASSUME IsList(tables), \A t \in 1 .. Len(tables) : TableOK(tables[t]),
           NEW st \in 1 .. Len(tables), NEW name, NEW thing, ThingOK(thing),
           NEW grows, NEW u,
           \A k : Leads(thing, k) => grows /\ k = 0 /\ LeadsTo(thing, k) = u,
           NEW b, b = [tables EXCEPT ![st] = Mapped(st, name, thing)]
    PROVE  Changed(tables, b, grows, st, <<name, 0>>, u)
<1> DEFINE map == tables[st].map
           map2 == [n \in DOMAIN map \cup {name} |-> IF n = name THEN thing ELSE map[n]]
           table == Mapped(st, name, thing)
<1>1. TableOK(tables[st])
  OBVIOUS
<1>2. DOMAIN table = {"map", "freed", "of"} /\ table.map = map2 /\ table.freed = tables[st].freed
  BY <1>1 DEF Mapped, TableOK
<1>3. \A n \in DOMAIN map2 : (n = name /\ map2[n] = thing) \/ (n \in DOMAIN map /\ map2[n] = map[n])
  OBVIOUS
<1>4. \A n \in DOMAIN map : ThingOK(map[n])
  BY <1>1 DEF TableOK
<1> HIDE DEF map2, table, map
<1>5. TableOK(table)
  BY <1>2, <1>3, <1>4 DEF TableOK
<1>6. ThingsCome(map, map2, grows, name, 0, u)
  BY <1>3 DEF ThingsCome
<1>7. PlacesCome(map, map2, grows, <<name, 0>>, u)
  BY <1>6, MapChanges
<1>8. b = [tables EXCEPT ![st] = table] /\ map = tables[st].map
  BY DEF table, map
<1> QED
  BY <1>2, <1>5, <1>7, <1>8, TableChanges

\* An element that is set in an array.
LEMMA SetIn ==
    ASSUME IsList(tables), \A t \in 1 .. Len(tables) : TableOK(tables[t]),
           Top.st \in 1 .. Len(tables), Top.n \in Nat, NEW thing,
           NEW grows, NEW u, thing.type = "OBJECT" => grows /\ thing.ref = u,
           NEW b, b = SetElement(tables, thing)
    PROVE  Changed(tables, b, grows, Top.st, <<Top.name, Top.n + 1>>, u)
<1> DEFINE st == Top.st
           name == Top.name
           i == Top.n + 1
           map == tables[st].map
           array == map[name]
           ele2 == [array.ele EXCEPT ![i] = thing]
           array2 == [array EXCEPT !.ele = ele2]
           map2 == [map EXCEPT ![name] = array2]
           table == [tables[st] EXCEPT !.map = map2]
<1>1. b = [tables EXCEPT ![st] = table]
  BY DEF SetElement
<1>2. TableOK(tables[st]) /\ i # 0
  OBVIOUS
<1>3. DOMAIN table = {"map", "freed", "of"} /\ table.map = map2 /\ table.freed = tables[st].freed
  BY <1>2 DEF TableOK
<1>4. \A n \in DOMAIN map : ThingOK(map[n])
  BY <1>2 DEF TableOK
<1> HIDE DEF table
<1>5. DOMAIN map2 = DOMAIN map /\ \A n \in DOMAIN map : map2[n] = IF n = name THEN array2 ELSE map[n]
  OBVIOUS
<1>6. ASSUME name \in DOMAIN map
      PROVE  /\ ThingOK(array2)
             /\ \A k : Leads(array2, k) =>
                    \/ Leads(array, k) /\ LeadsTo(array2, k) = LeadsTo(array, k)
                    \/ grows /\ k = i /\ LeadsTo(array2, k) = u
  <2>1. ThingOK(array)
    BY <1>4, <1>6
  <2>2. /\ DOMAIN array2 = DOMAIN array /\ array2.type = array.type /\ array2.ref = array.ref
        /\ array2.ele = ele2
    BY <2>1 DEF ThingOK, ThingFields
  <2>3. DOMAIN ele2 = DOMAIN array.ele /\ \A k \in DOMAIN array.ele : ele2[k] = IF k = i THEN thing ELSE array.ele[k]
    OBVIOUS
  <2> HIDE DEF array2, ele2, array
  <2>4. ThingOK(array2)
    BY <2>1, <2>2, <2>3 DEF ThingOK
  <2>5. ASSUME NEW k, Leads(array2, k)
        PROVE  \/ Leads(array, k) /\ LeadsTo(array2, k) = LeadsTo(array, k)
               \/ grows /\ k = i /\ LeadsTo(array2, k) = u
    <3>1. CASE k = 0 /\ array2.type = "OBJECT"
      BY <2>2, <3>1 DEF Leads, LeadsTo
    <3>2. CASE array2.type = "ARRAY" /\ k \in DOMAIN array2.ele /\ array2.ele[k].type = "OBJECT"
      <4>1. k # 0 /\ k \in DOMAIN array.ele /\ array.type = "ARRAY"
        BY <2>1, <2>2, <2>3, <3>2 DEF ThingOK
      <4>2. CASE k = i
        <5>1. array2.ele[k] = thing
          BY <2>2, <2>3, <4>1, <4>2
        <5> QED
          BY <3>2, <4>1, <4>2, <5>1 DEF LeadsTo
      <4>3. CASE k # i
        <5>1. array2.ele[k] = array.ele[k]
          BY <2>2, <2>3, <4>1, <4>3
        <5> QED
          BY <3>2, <4>1, <5>1 DEF Leads, LeadsTo
      <4> QED
        BY <4>2, <4>3
    <3> QED
      BY <2>5, <3>1, <3>2 DEF Leads
  <2> QED
    BY <2>4, <2>5
<1> HIDE DEF array2, map2
<1>7. TableOK(table)
  BY <1>3, <1>4, <1>5, <1>6 DEF TableOK
<1>8. ThingsCome(map, map2, grows, name, i, u)
  BY <1>5, <1>6 DEF ThingsCome
<1>9. PlacesCome(map, map2, grows, <<name, i>>, u)
  BY <1>8, MapChanges
<1> QED
  BY <1>1, <1>3, <1>7, <1>9, TableChanges

\* Each table but the first is led to from one place, if at all, and from a
\* table made before it.
Forest(tabs) ==
    \A t \in 1 .. Len(tabs) : \A p \in InnerOf(tabs[t].map) :
        /\ TableAt(tabs[t].map, p) \in t + 1 .. Len(tabs)
        /\ \A u \in 1 .. Len(tabs) : \A q \in InnerOf(tabs[u].map) :
                TableAt(tabs[u].map, q) = TableAt(tabs[t].map, p) => u = t /\ q = p

ShapeOK(tabs) == IsList(tabs) /\ (\A t \in 1 .. Len(tabs) : TableOK(tabs[t])) /\ Forest(tabs)
AllLive(tabs) == \A t \in 1 .. Len(tabs) : tabs[t].freed = 0

\* c comes from a, with one place more and the table it leads to.
GrownFrom(a, c, st, q) ==
    \A t \in 1 .. Len(c) : \A p \in InnerOf(c[t].map) :
        \/ /\ t \in 1 .. Len(a) /\ p \in InnerOf(a[t].map)
           /\ TableAt(c[t].map, p) = TableAt(a[t].map, p)
        \/ /\ t = st /\ p = q /\ TableAt(c[t].map, p) = Len(a) + 1
           /\ Len(c) = Len(a) + 1

LEMMA ForestFrom ==
    ASSUME NEW a, Forest(a), NEW c, NEW st, NEW q, Len(a) \in Nat, Len(c) \in Nat, Len(a) <= Len(c),
           st \in 1 .. Len(a), GrownFrom(a, c, st, q)
    PROVE  Forest(c)
<1> DEFINE Old(t, p, x) == t \in 1 .. Len(a) /\ p \in InnerOf(a[t].map) /\ x = TableAt(a[t].map, p)
           New(t, p, x) == t = st /\ p = q /\ x = Len(a) + 1 /\ Len(c) = Len(a) + 1
<1>1. \A t \in 1 .. Len(c) : \A p \in InnerOf(c[t].map) :
            Old(t, p, TableAt(c[t].map, p)) \/ New(t, p, TableAt(c[t].map, p))
  BY DEF GrownFrom
<1>2. \A t, p, x : Old(t, p, x) => x \in t + 1 .. Len(a) /\ t \in Nat
  <2> SUFFICES ASSUME NEW t, NEW p, NEW x, Old(t, p, x) PROVE x \in t + 1 .. Len(a) /\ t \in Nat
    OBVIOUS
  <2>1. t \in 1 .. Len(a) /\ p \in InnerOf(a[t].map) /\ x = TableAt(a[t].map, p)
    OBVIOUS
  <2>2. TableAt(a[t].map, p) \in t + 1 .. Len(a)
    BY <2>1 DEF Forest
  <2> QED
    BY <2>1, <2>2
<1>3. \A t, p, v, r, x : Old(t, p, x) /\ Old(v, r, x) => v = t /\ r = p
  <2> SUFFICES ASSUME NEW t, NEW p, NEW v, NEW r, NEW x, Old(t, p, x), Old(v, r, x)
               PROVE  v = t /\ r = p
    OBVIOUS
  <2>1. /\ t \in 1 .. Len(a) /\ p \in InnerOf(a[t].map)
        /\ v \in 1 .. Len(a) /\ r \in InnerOf(a[v].map)
        /\ TableAt(a[v].map, r) = TableAt(a[t].map, p)
    OBVIOUS
  <2> QED
    BY <2>1, Zenon DEF Forest
<1>4. \A t, p, x : New(t, p, x) => x \in t + 1 .. Len(c)
  OBVIOUS
<1>5. \A t, p, v, r, x : New(t, p, x) /\ New(v, r, x) => v = t /\ r = p
  BY Zenon
<1>6. \A t, p, v, r, x : Old(t, p, x) => ~New(v, r, x)
  <2> SUFFICES ASSUME NEW t, NEW p, NEW v, NEW r, NEW x, Old(t, p, x), New(v, r, x) PROVE FALSE
    OBVIOUS
  <2>1. x \in t + 1 .. Len(a) /\ t \in Nat
    BY <1>2
  <2> QED
    BY <2>1
<1> HIDE DEF Old, New
<1>7. \A t \in 1 .. Len(c) : \A p \in InnerOf(c[t].map) : TableAt(c[t].map, p) \in t + 1 .. Len(c)
  <2> SUFFICES ASSUME NEW t \in 1 .. Len(c), NEW p \in InnerOf(c[t].map)
               PROVE  TableAt(c[t].map, p) \in t + 1 .. Len(c)
    OBVIOUS
  <2> DEFINE x == TableAt(c[t].map, p)
  <2>1. Old(t, p, x) \/ New(t, p, x)
    BY <1>1
  <2> HIDE DEF x
  <2>2. x \in t + 1 .. Len(c)
    BY <1>2, <1>4, <2>1
  <2> QED
    BY <2>2 DEF x
<1>8. \A t \in 1 .. Len(c) : \A p \in InnerOf(c[t].map) :
        \A v \in 1 .. Len(c) : \A r \in InnerOf(c[v].map) :
            TableAt(c[v].map, r) = TableAt(c[t].map, p) => v = t /\ r = p
  <2> SUFFICES ASSUME NEW t \in 1 .. Len(c), NEW p \in InnerOf(c[t].map),
                      NEW v \in 1 .. Len(c), NEW r \in InnerOf(c[v].map),
                      TableAt(c[v].map, r) = TableAt(c[t].map, p)
               PROVE  v = t /\ r = p
    OBVIOUS
  <2> DEFINE x == TableAt(c[t].map, p)
  <2>1. (Old(t, p, x) \/ New(t, p, x)) /\ (Old(v, r, x) \/ New(v, r, x))
    BY <1>1
  <2> HIDE DEF x
  <2> QED
    BY <1>3, <1>5, <1>6, <2>1, Zenon
<1> QED
  BY <1>7, <1>8 DEF Forest

\* Tables that are all there, before and after a thing was mapped, or a thing
\* and its table.
Sound(tabs) == ShapeOK(tabs) /\ AllLive(tabs)
Kept(a, b, st, q) == st \in 1 .. Len(a) /\ Changed(a, b, FALSE, st, q, 0)
Added(a, b, st, q, table) ==
    /\ st \in 1 .. Len(a) /\ Changed(a, b, TRUE, st, q, Len(a) + 1)
    /\ TableOK(table) /\ table.freed = 0 /\ InnerOf(table.map) = {}

LEMMA ShapeKept ==
    ASSUME NEW a, Sound(a), NEW b, NEW st, NEW q, Kept(a, b, st, q)
    PROVE  Sound(b) /\ Len(b) = Len(a)
<1> USE DEF Sound, Kept
<1>1. IsList(b) /\ Len(b) = Len(a) /\ Len(a) \in Nat
  BY ListFacts DEF Changed, ShapeOK
<1>2. \A t \in 1 .. Len(b) : TableOK(b[t]) /\ b[t].freed = 0
  BY <1>1 DEF Changed, AllLive
<1>3. GrownFrom(a, b, st, q)
  BY <1>1 DEF Changed, PlacesCome, GrownFrom
<1>4. Forest(b)
  BY <1>1, <1>3, ForestFrom DEF ShapeOK
<1> QED
  BY <1>1, <1>2, <1>4 DEF ShapeOK, AllLive

LEMMA ShapeGrows ==
    ASSUME NEW a, Sound(a), NEW b, NEW st, NEW q, NEW table, Added(a, b, st, q, table),
           NEW c, c = Append(b, table)
    PROVE  Sound(c) /\ Len(c) = Len(a) + 1
<1> USE DEF Sound, Added
<1>1. IsList(b) /\ Len(b) = Len(a) /\ Len(a) \in Nat
  BY ListFacts DEF Changed, ShapeOK
<1>2. IsAppended(b, table, c)
  BY <1>1, ListAppend
<1>3. /\ IsList(c) /\ Len(c) = Len(a) + 1 /\ c[Len(a) + 1] = table
      /\ \A t \in 1 .. Len(a) : c[t] = b[t]
  BY <1>1, <1>2 DEF IsAppended
<1>4. \A t \in 1 .. Len(c) : t \in 1 .. Len(a) \/ t = Len(a) + 1
  BY <1>1, <1>3
<1>5. \A t \in 1 .. Len(c) : TableOK(c[t]) /\ c[t].freed = 0
  BY <1>3, <1>4 DEF Changed, AllLive
<1>6. GrownFrom(a, c, st, q)
  <2> SUFFICES ASSUME NEW t \in 1 .. Len(c), NEW p \in InnerOf(c[t].map)
               PROVE  \/ /\ t \in 1 .. Len(a) /\ p \in InnerOf(a[t].map)
                         /\ TableAt(c[t].map, p) = TableAt(a[t].map, p)
                      \/ /\ t = st /\ p = q /\ TableAt(c[t].map, p) = Len(a) + 1
                         /\ Len(c) = Len(a) + 1
    BY DEF GrownFrom
  <2>1. t \in 1 .. Len(a) /\ c[t] = b[t]
    BY <1>3, <1>4
  <2> QED
    BY <1>3, <2>1 DEF Changed, PlacesCome
<1>7. Forest(c)
  <2>1. Len(c) \in Nat /\ Len(a) <= Len(c)
    BY <1>1, <1>3
  <2> QED
    BY <1>1, <1>6, <2>1, ForestFrom DEF ShapeOK
<1> QED
  BY <1>3, <1>5, <1>7 DEF ShapeOK, AllLive

-----------------------------------------------------------------------------
(* Tables are used only while they are there.                              *)

\* A table that jw_nuke has not come to.
Unvisited(tabs, stk, t) ==
    t \in 1 .. Len(tabs) /\ tabs[t].freed = 0 /\ \A k \in 1 .. Len(stk) : stk[k].st # t
LeadAway(tabs, stk, map, places) == \A p \in places : Unvisited(tabs, stk, TableAt(map, p))

\* Calls of jw_nuke in progress: for tables that are there, each for another;
\* what is left to do in them, and all that a table leads to that no call has
\* come to, is unvisited.
IsNuke(f) == DOMAIN f = {"st", "left"}
NukeFrameOK(tabs, stk, f) ==
    /\ IsNuke(f) /\ f.st \in 1 .. Len(tabs) /\ tabs[f.st].freed = 0
    /\ f.left \in SUBSET InnerOf(tabs[f.st].map)
    /\ LeadAway(tabs, stk, tabs[f.st].map, f.left)
NukeOK(tabs, stk) ==
    /\ IsList(stk) /\ Len(stk) > 0
    /\ \A k \in 1 .. Len(stk) : NukeFrameOK(tabs, stk, stk[k])
    /\ \A j, k \in 1 .. Len(stk) : j # k => stk[j].st # stk[k].st
    /\ \A t \in 1 .. Len(tabs) :
            Unvisited(tabs, stk, t) => LeadAway(tabs, stk, tabs[t].map, InnerOf(tabs[t].map))

\* While parsing no table is freed.
SafeInv ==
    Handled =>
        /\ phase # "wild"
        /\ phase = "parse" => Walk(toks, Len(tables), stack)
        /\ phase \in {"parse", "ready"} => ShapeOK(tables) /\ AllLive(tables) /\ Len(tables) > 0
        /\ phase \in {"nuke", "gone"} => ShapeOK(tables)
        /\ phase = "nuke" => NukeOK(tables, stack)

\* Tables with the text alone, and empty ones, lead nowhere.
LEMMA NewTables ==
    ASSUME NEW o, NEW x, NEW map \in {NoMap, OwnText(x)}
    PROVE  LET table == NewTable(o, map)
           IN  TableOK(table) /\ table.freed = 0 /\ InnerOf(table.map) = {}
<1> DEFINE table == NewTable(o, map)
<1>1. DOMAIN table = {"map", "freed", "of"} /\ table.map = map /\ table.freed = 0
  BY DEF NewTable
<1>2. \A n \in DOMAIN map : map[n] = TextEntry(x)
  BY DEF NoMap, OwnText
<1>3. ThingOK(TextEntry(x)) /\ \A k : ~Leads(TextEntry(x), k)
  BY DEF ThingOK, ThingFields, TextEntry, Thing, Leads
<1> HIDE DEF table
<1>4. TableOK(table)
  BY <1>1, <1>2, <1>3 DEF TableOK
<1>5. InnerOf(map) = {}
  BY <1>2, <1>3, InnerPlaces
<1>6. TableOK(table) /\ table.freed = 0 /\ InnerOf(table.map) = {}
  BY <1>1, <1>4, <1>5
<1> QED
  BY <1>6 DEF table

\* A parse step that leaves the call in the right place and the tables in shape.
LEMMA ParseSafe ==
    ASSUME UNCHANGED <<toks, phase>>, phase = "parse",
           ShapeOK(tables'), AllLive(tables'), Len(tables') > 0, Walk(toks, Len(tables'), stack')
    PROVE  SafeInv'
  BY DEF SafeInv

LEMMA SafeFacts ==
    ASSUME SafeInv, Handled, phase = "parse"
    PROVE  /\ ShapeOK(tables) /\ AllLive(tables) /\ Len(tables) \in Nat \ {0}
           /\ Walk(toks, Len(tables), stack)
           /\ IsList(tables) /\ \A t \in 1 .. Len(tables) : TableOK(tables[t])
  BY ListFacts DEF SafeInv, ShapeOK

\* A thing mapped that leads to no table.
LEMMA MapSafe ==
    ASSUME SafeInv, Handled, CallsOK, phase = "parse", UNCHANGED <<toks, phase>>,
           Walk(toks, Len(tables), stack'),
           NEW name, NEW thing, ThingOK(thing), \A k : ~Leads(thing, k),
           tables' = [tables EXCEPT ![Top.st] = Mapped(Top.st, name, thing)]
    PROVE  SafeInv'
<1>1. /\ ShapeOK(tables) /\ AllLive(tables) /\ Len(tables) \in Nat \ {0}
      /\ IsList(tables) /\ \A t \in 1 .. Len(tables) : TableOK(tables[t])
  BY SafeFacts
<1>2. Top.st \in 1 .. Len(tables)
  BY SafeFacts, TopStands
<1>3. Changed(tables, tables', FALSE, Top.st, <<name, 0>>, 0)
  BY <1>1, <1>2, MapIn
<1>4. Sound(tables) /\ Kept(tables, tables', Top.st, <<name, 0>>)
  BY <1>1, <1>2, <1>3 DEF Sound, Kept
<1>5. Sound(tables') /\ Len(tables') = Len(tables)
  BY <1>4, ShapeKept
<1> QED
  BY <1>1, <1>5, ParseSafe DEF Sound

LEMMA ScalarsLeadNowhere ==
    ASSUME NEW tok, NEW x
    PROVE  /\ ThingOK(Scalar(tok, x)) /\ \A k : ~Leads(Scalar(tok, x), k)
           /\ Scalar(tok, x).type # "OBJECT"
  BY DEF ThingOK, ThingFields, Scalar, Thing, Leads

LEMMA ScalarValueSafe ==
    ASSUME SafeInv, Handled, CallsOK, ScalarValue
    PROVE  SafeInv'
<1>1. phase = "parse" /\ UNCHANGED <<toks, phase>>
  BY DEF ScalarValue, At
<1>2. Walk(toks, Len(tables), stack')
  BY <1>1, SafeFacts, ScalarValueStands
<1>3. tables' = [tables EXCEPT ![Top.st] = Mapped(Top.st, Top.name, Scalar(toks[Top.i], Top.text))]
  BY DEF ScalarValue
<1> QED
  BY <1>1, <1>2, <1>3, ScalarsLeadNowhere, MapSafe

LEMMA ObjectValueSafe ==
    ASSUME SafeInv, Handled, CallsOK, ObjectValue
    PROVE  SafeInv'
<1> DEFINE m == Len(tables)
           x == Len(texts) + 1
<1>1. /\ phase = "parse" /\ UNCHANGED <<toks, phase>>
      /\ Top.place \in {"value", "again"} /\ toks[Top.i].type = "OBJECT"
  BY DEF ObjectValue, At
<1>2. stack' = Call([Top EXCEPT !.place = "again"], Frame(Top.st, x, Top.name, Top.i))
  BY DEF ObjectValue
<1>3. m \in Nat /\ m <= m /\ Walk(toks, m, stack) /\ Top.st \in 1 .. m
  BY <1>1, SafeFacts, TopStands
<1>4. Walk(toks, m, stack')
  BY <1>1, <1>2, <1>3, ObjectCallStands
<1>5. tables' = [tables EXCEPT ![Top.st] = Mapped(Top.st, Top.name \o "_json", TextEntry(x))]
  BY DEF ObjectValue
<1>6. ThingOK(TextEntry(x)) /\ \A k : ~Leads(TextEntry(x), k)
  BY DEF ThingOK, ThingFields, TextEntry, Thing, Leads
<1> QED
  BY <1>1, <1>4, <1>5, <1>6, MapSafe

LEMMA ArrayValueSafe ==
    ASSUME SafeInv, Handled, CallsOK, ArrayValue
    PROVE  SafeInv'
<1> DEFINE size == toks[Top.i].size
           array == Thing("ARRAY", "UNKNOWN", 0, 0, [k \in 1 .. size |-> Undefined])
<1>1. phase = "parse" /\ UNCHANGED <<toks, phase>>
  BY DEF ArrayValue, At
<1>2. Walk(toks, Len(tables), stack')
  BY <1>1, SafeFacts, ArrayValueStands
<1>3. tables' = [tables EXCEPT ![Top.st] = Mapped(Top.st, Top.name, array)]
  BY DEF ArrayValue
<1>4. ThingOK(array) /\ \A k : ~Leads(array, k)
  <2>1. /\ DOMAIN array = ThingFields /\ array.type = "ARRAY" /\ array.ele = [k \in 1 .. size |-> Undefined]
    BY DEF Thing, ThingFields
  <2>2. Undefined.type = "UNDEFINED" /\ 0 \notin 1 .. size
    BY DEF Undefined, Thing
  <2> HIDE DEF array, size
  <2> QED
    BY <2>1, <2>2 DEF ThingOK, Leads
<1> HIDE DEF array
<1> QED
  BY <1>1, <1>2, <1>3, <1>4, MapSafe

LEMMA ScalarElementSafe ==
    ASSUME SafeInv, Handled, CallsOK, ScalarElement
    PROVE  SafeInv'
<1> DEFINE thing == Scalar(toks[Top.i + Top.n], Top.text)
<1>1. phase = "parse" /\ UNCHANGED <<toks, phase>>
  BY DEF ScalarElement, AtElement, At
<1>2. Walk(toks, Len(tables), stack')
  BY <1>1, SafeFacts, ScalarElementStands
<1>3. tables' = SetElement(tables, thing) /\ thing.type # "OBJECT"
  BY ScalarsLeadNowhere DEF ScalarElement
<1>4. /\ ShapeOK(tables) /\ AllLive(tables) /\ Len(tables) \in Nat \ {0}
      /\ IsList(tables) /\ \A t \in 1 .. Len(tables) : TableOK(tables[t])
  BY <1>1, SafeFacts
<1>5. Top.st \in 1 .. Len(tables) /\ Top.n \in Nat
  BY <1>1, SafeFacts, TopStands
<1> HIDE DEF thing
<1> DEFINE q == <<Top.name, Top.n + 1>>
<1>6. Changed(tables, tables', FALSE, Top.st, q, 0)
  BY <1>3, <1>4, <1>5, SetIn
<1> HIDE DEF q
<1>7. Sound(tables) /\ Kept(tables, tables', Top.st, q)
  BY <1>4, <1>5, <1>6 DEF Sound, Kept
<1>8. Sound(tables') /\ Len(tables') = Len(tables)
  BY <1>7, ShapeKept
<1> QED
  BY <1>1, <1>2, <1>4, <1>8, ParseSafe DEF Sound

LEMMA ObjectElementSafe ==
    ASSUME SafeInv, Handled, CallsOK, ObjectElement
    PROVE  SafeInv'
<1> DEFINE m == Len(tables)
           thing == ObjectThing(m + 1)
           b == SetElement(tables, thing)
           table == NewTable(Top.i + Top.n, NoMap)
<1>1. phase = "parse" /\ UNCHANGED <<toks, phase>> /\ tables' = Append(b, table)
  BY DEF ObjectElement, AtElement, At
<1>2. /\ ShapeOK(tables) /\ AllLive(tables) /\ m \in Nat \ {0}
      /\ IsList(tables) /\ \A t \in 1 .. m : TableOK(tables[t])
  BY <1>1, SafeFacts
<1>3. Walk(toks, m + 1, stack')
  BY <1>1, <1>2, SafeFacts, ObjectElementStands
<1>4. Top.st \in 1 .. m /\ Top.n \in Nat
  BY <1>1, SafeFacts, TopStands
<1>5. thing.type = "OBJECT" => TRUE /\ thing.ref = m + 1
  BY DEF ObjectThing, Thing
<1> HIDE DEF thing
<1> DEFINE q == <<Top.name, Top.n + 1>>
<1>6. Changed(tables, b, TRUE, Top.st, q, m + 1)
  BY <1>2, <1>4, <1>5, SetIn
<1>9. TableOK(table) /\ table.freed = 0 /\ InnerOf(table.map) = {}
  BY NewTables
<1> HIDE DEF b, q, table
<1>7. Sound(tables) /\ Added(tables, b, Top.st, q, table)
  BY <1>2, <1>4, <1>6, <1>9 DEF Sound, Added
<1>8. Sound(tables') /\ Len(tables') = m + 1
  BY <1>1, <1>7, ShapeGrows
<1> QED
  BY <1>1, <1>2, <1>3, <1>8, ParseSafe DEF Sound

LEMMA ObjectAgainSafe ==
    ASSUME SafeInv, Handled, CallsOK, ObjectAgain
    PROVE  SafeInv'
<1> DEFINE m == Len(tables)
           x == Len(texts) + 1
           thing == ObjectThing(m + 1)
           b == [tables EXCEPT ![Top.st] = Mapped(Top.st, Top.name, thing)]
           table == NewTable(Top.i, OwnText(x))
<1>1. phase = "parse" /\ Top.place = "again"
  BY DEF ObjectAgain, At
<1>2. /\ ShapeOK(tables) /\ AllLive(tables) /\ m \in Nat \ {0} /\ Walk(toks, m, stack)
      /\ IsList(tables) /\ \A t \in 1 .. m : TableOK(tables[t])
  BY <1>1, SafeFacts
<1>3. Top.st \in 1 .. m /\ PositionOK(toks, Top)
  BY <1>1, <1>2, TopStands
<1>4. Live(Top.st)
  BY <1>2, <1>3 DEF Live, AllLive
<1>5. /\ tables' = Append(b, table) /\ UNCHANGED <<toks, phase>>
      /\ stack' = Call([Top EXCEPT !.place = "skip"], Frame(m + 1, x, "", Top.i))
  BY <1>4 DEF ObjectAgain
<1>6. toks[Top.i].type = "OBJECT"
  BY <1>1, <1>3 DEF PositionOK
<1>7. Walk(toks, m + 1, stack')
  <2>1. m \in Nat /\ m + 1 \in Nat /\ m <= m + 1 /\ m + 1 \in 1 .. m + 1
    BY <1>2
  <2> HIDE DEF m, x
  <2> QED
    BY <1>1, <1>2, <1>5, <1>6, <2>1, ObjectCallStands
<1>8. ThingOK(thing) /\ \A k : Leads(thing, k) => TRUE /\ k = 0 /\ LeadsTo(thing, k) = m + 1
  BY DEF ThingOK, ThingFields, ObjectThing, Thing, Leads, LeadsTo
<1> HIDE DEF thing
<1> DEFINE q == <<Top.name, 0>>
<1>9. Changed(tables, b, TRUE, Top.st, q, m + 1)
  BY <1>2, <1>3, <1>8, MapIn
<1>10. TableOK(table) /\ table.freed = 0 /\ InnerOf(table.map) = {}
  BY NewTables
<1> HIDE DEF b, table, q
<1>11. Sound(tables) /\ Added(tables, b, Top.st, q, table)
  BY <1>2, <1>3, <1>9, <1>10 DEF Sound, Added
<1>12. Sound(tables') /\ Len(tables') = m + 1
  BY <1>5, <1>11, ShapeGrows
<1>13. Len(tables') > 0 /\ Walk(toks, Len(tables'), stack')
  BY <1>2, <1>7, <1>12
<1> QED
  BY <1>1, <1>5, <1>12, <1>13, ParseSafe DEF Sound

\* The steps that leave the tables alone.
LEMMA StandsSafe ==
    ASSUME SafeInv, Handled, phase = "parse", UNCHANGED <<toks, phase, tables>>,
           Walk(toks, Len(tables), stack')
    PROVE  SafeInv'
<1>1. ShapeOK(tables) /\ AllLive(tables) /\ Len(tables) > 0
  BY SafeFacts
<1> QED
  BY <1>1, ParseSafe

LEMMA ReturnSafe ==
    ASSUME SafeInv, Handled, CallsOK, ObjectDone
    PROVE  SafeInv'
<1>1. /\ phase = "parse" /\ phase' \in {phase, "null", "ready"} /\ stack' = Front(stack)
      /\ UNCHANGED <<toks, tables>>
  BY DEF ObjectDone, Return, At
<1>2. /\ ShapeOK(tables) /\ AllLive(tables) /\ Len(tables) \in Nat \ {0}
      /\ Walk(toks, Len(tables), stack)
  BY <1>1, SafeFacts
<1>3. Walk(toks, Len(tables), stack')
  BY <1>1, <1>2, WalkReturn
<1> QED
  BY <1>1, <1>2, <1>3 DEF SafeInv

LEMMA ParseStepSafe ==
    ASSUME SafeInv, Handled, CallsOK, ParseStep
    PROVE  SafeInv'
<1>1. phase = "parse"
  BY DEF ParseStep, ObjectDone, BadName, Name, ScalarValue, ObjectValue, ObjectAgain, ObjectSkip,
         ArrayValue, ScalarElement, ObjectElement, ElementSkip, ArrayElement, ArrayDone, AtElement, At
<1>2. Len(tables) \in Nat /\ Walk(toks, Len(tables), stack)
  BY <1>1, SafeFacts
<1>3. CASE ObjectDone
  BY <1>3, ReturnSafe
<1>4. CASE BadName
  <2>1. Top.place = "name" /\ Top.i < LastTok(Top) /\ toks[Top.i].type # "STRING"
    BY <1>4 DEF BadName, At
  <2> QED
    BY <1>1, <1>2, <2>1, NamesAreStrings
<1>5. CASE Name
  <2>1. UNCHANGED <<toks, phase, tables>>
    BY <1>5 DEF Name
  <2>2. Walk(toks, Len(tables), stack')
    BY <1>2, <1>5, NameStands
  <2> QED
    BY <1>1, <2>1, <2>2, StandsSafe
<1>6. CASE ScalarValue
  BY <1>6, ScalarValueSafe
<1>7. CASE ObjectValue
  BY <1>7, ObjectValueSafe
<1>8. CASE ObjectAgain
  BY <1>8, ObjectAgainSafe
<1>9. CASE ObjectSkip
  <2>1. UNCHANGED <<toks, phase, tables>>
    BY <1>9 DEF ObjectSkip
  <2>2. Walk(toks, Len(tables), stack')
    BY <1>2, <1>9, ObjectSkipStands
  <2> QED
    BY <1>1, <2>1, <2>2, StandsSafe
<1>10. CASE ArrayValue
  BY <1>10, ArrayValueSafe
<1>11. CASE ScalarElement
  BY <1>11, ScalarElementSafe
<1>12. CASE ObjectElement
  BY <1>12, ObjectElementSafe
<1>13. CASE ElementSkip
  <2>1. UNCHANGED <<toks, phase, tables>>
    BY <1>13 DEF ElementSkip
  <2>2. Walk(toks, Len(tables), stack')
    BY <1>2, <1>13, ElementSkipStands
  <2> QED
    BY <1>1, <2>1, <2>2, StandsSafe
<1>14. CASE ArrayElement
  BY <1>2, <1>14, NoArrayElement
<1>15. CASE ArrayDone
  <2>1. UNCHANGED <<toks, phase, tables>>
    BY <1>15 DEF ArrayDone
  <2>2. Walk(toks, Len(tables), stack')
    BY <1>2, <1>15, ArrayDoneStands
  <2> QED
    BY <1>1, <2>1, <2>2, StandsSafe
<1> QED
  BY <1>3, <1>4, <1>5, <1>6, <1>7, <1>8, <1>9, <1>10, <1>11, <1>12, <1>13, <1>14, <1>15 DEF ParseStep

LEMMA jw_newSafe ==
    ASSUME CallsOK, jw_new
    PROVE  SafeInv'
<1> DEFINE table == NewTable(1, OwnText(1))
<1>1. tables' = <<table>> /\ toks' = toks /\ phase' \in {"parse", "ready", "null"}
  BY DEF jw_new
<1>2. TableOK(table) /\ table.freed = 0 /\ InnerOf(table.map) = {}
  BY NewTables
<1> HIDE DEF table
<1>3. IsList(tables') /\ Len(tables') = 1 /\ tables'[1] = table
  BY <1>1, ListOne
<1>4. \A t \in 1 .. Len(tables') : tables'[t] = table
  BY <1>3
<1>5. ShapeOK(tables') /\ AllLive(tables') /\ Len(tables') > 0
  BY <1>2, <1>3, <1>4 DEF ShapeOK, AllLive, Forest
<1>6. ASSUME phase' = "parse"
      PROVE  Walk(toks, Len(tables'), stack')
  <2> DEFINE f == Frame(1, 1, "", 1)
  <2>1. toks[1].type = "OBJECT" /\ stack' = <<f>>
    BY <1>6 DEF jw_new
  <2>2. Stands(toks, 1, f)
    <3>1. TokensOK(toks) /\ 1 \in 1 .. Len(toks) /\ 1 \in 1 .. 1
      BY ListFacts DEF CallsOK, TokensOK
    <3> QED
      BY <2>1, <3>1, CallStands
  <2> HIDE DEF f
  <2>3. Len(stack') = 1 /\ stack'[1] = f
    BY <2>1, ListOne
  <2> QED
    BY <1>3, <2>2, <2>3 DEF Walk
<1> QED
  BY <1>1, <1>5, <1>6 DEF SafeInv

\* The first call of jw_nuke.
LEMMA jw_nukeSafe ==
    ASSUME SafeInv, Handled, jw_nuke
    PROVE  SafeInv'
<1> DEFINE f == NukeFrame(1)
           n == Len(tables)
<1>1. ShapeOK(tables) /\ AllLive(tables) /\ n > 0
  BY DEF SafeInv, jw_nuke
<1>2. stack' = <<f>> /\ tables' = tables /\ phase' = "nuke"
  BY DEF jw_nuke
<1>3. n \in Nat /\ 1 \in 1 .. n
  BY <1>1, ListFacts DEF ShapeOK
<1>4. IsNuke(f) /\ f.st = 1 /\ f.left = InnerOf(tables[1].map)
  BY DEF IsNuke, NukeFrame, Inner, InnerOf
<1> HIDE DEF f
<1>5. IsList(stack') /\ Len(stack') = 1 /\ stack'[1] = f
  BY <1>2, ListOne
<1>6. \A t \in 1 .. n : t # 1 => Unvisited(tables, stack', t)
  BY <1>1, <1>4, <1>5 DEF Unvisited, AllLive
<1>7. \A t \in 1 .. n : LeadAway(tables, stack', tables[t].map, InnerOf(tables[t].map))
  <2> SUFFICES ASSUME NEW t \in 1 .. n, NEW p \in InnerOf(tables[t].map)
               PROVE  Unvisited(tables, stack', TableAt(tables[t].map, p))
    BY DEF LeadAway
  <2> DEFINE u == TableAt(tables[t].map, p)
  <2>1. u \in t + 1 .. n
    BY <1>1 DEF ShapeOK, Forest
  <2> HIDE DEF u
  <2>2. u \in 1 .. n /\ u # 1
    BY <1>3, <2>1
  <2>3. Unvisited(tables, stack', u)
    BY <1>6, <2>2
  <2> QED
    BY <2>3 DEF u
<1>8. NukeFrameOK(tables, stack', f)
  BY <1>1, <1>3, <1>4, <1>7 DEF NukeFrameOK, AllLive
<1>9. NukeOK(tables, stack')
  BY <1>5, <1>7, <1>8 DEF NukeOK
<1> QED
  BY <1>1, <1>2, <1>9 DEF SafeInv

\* What is known of the frame on top.
LEMMA NukeFacts ==
    ASSUME SafeInv, Handled, phase = "nuke"
    PROVE  /\ ShapeOK(tables) /\ NukeOK(tables, stack)
           /\ IsList(stack) /\ Len(stack) \in Nat \ {0} /\ Len(tables) \in Nat
           /\ Top = stack[Len(stack)] /\ NukeFrameOK(tables, stack, Top)
<1>1. ShapeOK(tables) /\ NukeOK(tables, stack) /\ IsList(stack) /\ Len(stack) > 0 /\ IsList(tables)
  BY DEF SafeInv, NukeOK, ShapeOK
<1>2. Len(stack) \in Nat \ {0} /\ Len(tables) \in Nat
  BY <1>1, ListFacts
<1> QED
  BY <1>1, <1>2 DEF NukeOK, Top

\* A call for an inner table: it was there, and nothing else leads to it.
LEMMA NukeThingSafe ==
    ASSUME SafeInv, Handled, NukeThing
    PROVE  SafeInv'
<1> DEFINE f == Top
           n == Len(tables)
           m == Len(stack)
           p == CHOOSE place \in f.left : TRUE
           map(t) == tables[t].map
           inner == TableAt(map(f.st), p)
           g == [f EXCEPT !.left = @ \ {p}]
           h == NukeFrame(inner)
<1>1. phase = "nuke" /\ f.left # {}
  BY DEF NukeThing
<1>2. /\ ShapeOK(tables) /\ NukeOK(tables, stack)
      /\ IsList(stack) /\ m \in Nat \ {0} /\ n \in Nat /\ f = stack[m] /\ NukeFrameOK(tables, stack, f)
  BY <1>1, NukeFacts
<1>3. p \in f.left
  BY <1>1
<1>4. f.st \in 1 .. n /\ p \in InnerOf(map(f.st)) /\ Unvisited(tables, stack, inner)
  BY <1>2, <1>3 DEF NukeFrameOK, LeadAway
<1>5. Live(InnerTable(f.st, p)) /\ InnerTable(f.st, p) = inner
  <2>1. InnerTable(f.st, p) = inner
    BY DEF InnerTable, TableAt
  <2> QED
    BY <1>4, <2>1 DEF Live, Unvisited
<1>6. stack' = Call(g, h) /\ tables' = tables /\ toks' = toks /\ phase' = phase
  BY <1>5 DEF NukeThing
<1>7. IsNuke(h) /\ h.st = inner /\ h.left = InnerOf(map(inner))
  BY DEF IsNuke, NukeFrame, Inner, InnerOf
<1>8. IsNuke(f)
  BY <1>2 DEF NukeFrameOK
<1>9. IsNuke(g) /\ g.st = f.st /\ g.left = f.left \ {p}
  <2> HIDE DEF f, p
  <2> QED
    BY <1>8 DEF IsNuke
<1> DEFINE s == SetTop(g)
<1>10. IsSetAt(stack, m, g, s)
  <2>1. s = [stack EXCEPT ![m] = g] /\ m \in 1 .. m
    BY <1>2 DEF SetTop
  <2> QED
    BY <1>2, <2>1, ListSet
<1>11. stack' = Append(s, h)
  BY <1>6 DEF Call
<1> HIDE DEF s, g, h
<1>12. IsAppended(s, h, stack')
  BY <1>10, <1>11, ListAppend DEF IsSetAt
<1>13. /\ IsList(stack') /\ Len(stack') = m + 1 /\ stack'[m + 1] = h /\ stack'[m] = g
       /\ \A k \in 1 .. m : k # m => stack'[k] = stack[k]
  BY <1>2, <1>10, <1>12 DEF IsSetAt, IsAppended
<1>14. \A k \in 1 .. m + 1 : k = m + 1 \/ (k \in 1 .. m /\ stack'[k].st = stack[k].st)
  BY <1>2, <1>9, <1>13
<1> HIDE DEF f, p, inner
\* Only inner is visited that was not.
<1>15. \A t : Unvisited(tables, stack', t) <=> Unvisited(tables, stack, t) /\ t # inner
  <2>1. \A t : (\A k \in 1 .. m + 1 : stack'[k].st # t) <=> (\A k \in 1 .. m : stack[k].st # t) /\ inner # t
    <3> TAKE t
    <3>1. ASSUME \A k \in 1 .. m + 1 : stack'[k].st # t
          PROVE  (\A k \in 1 .. m : stack[k].st # t) /\ inner # t
      <4>1. \A k \in 1 .. m : k \in 1 .. m + 1 /\ k # m + 1
        BY <1>2
      <4>2. m + 1 \in 1 .. m + 1
        BY <1>2
      <4> QED
        BY <1>7, <1>13, <1>14, <3>1, <4>1, <4>2
    <3>2. ASSUME \A k \in 1 .. m : stack[k].st # t, inner # t
          PROVE  \A k \in 1 .. m + 1 : stack'[k].st # t
      BY <1>7, <1>13, <1>14, <3>2
    <3> QED
      BY <3>1, <3>2
  <2> QED
    BY <1>13, <2>1 DEF Unvisited
\* It was led to from p alone.
<1>16. ASSUME NEW t \in 1 .. n, NEW places, places \in SUBSET InnerOf(map(t)),
              LeadAway(tables, stack, map(t), places), t = f.st => p \notin places
       PROVE  LeadAway(tables, stack', map(t), places)
  <2> SUFFICES ASSUME NEW r \in places PROVE Unvisited(tables, stack', TableAt(map(t), r))
    BY DEF LeadAway
  <2>1. r \in InnerOf(map(t)) /\ Unvisited(tables, stack, TableAt(map(t), r))
    BY <1>16 DEF LeadAway
  <2>2. TableAt(map(t), r) # inner
    <3>1. TableAt(map(t), r) = TableAt(map(f.st), p) => t = f.st /\ r = p
      BY <1>2, <1>4, <2>1 DEF ShapeOK, Forest
    <3> QED
      BY <1>16, <3>1 DEF inner
  <2> QED
    BY <1>15, <2>1, <2>2
<1>17. \A k \in 1 .. m : NukeFrameOK(tables, stack, stack[k])
  BY <1>2 DEF NukeOK
<1>18. \A j, k \in 1 .. m : j # k => stack[j].st # stack[k].st
  BY <1>2 DEF NukeOK
<1>19. ASSUME NEW k \in 1 .. m, k # m
       PROVE  NukeFrameOK(tables, stack', stack'[k])
  <2> DEFINE e == stack[k]
  <2>1. stack'[k] = e /\ e.st # f.st /\ NukeFrameOK(tables, stack, e)
    BY <1>2, <1>13, <1>17, <1>18, <1>19
  <2> HIDE DEF e
  <2>2. LeadAway(tables, stack', map(e.st), e.left)
    BY <1>16, <2>1 DEF NukeFrameOK
  <2> QED
    BY <2>1, <2>2 DEF NukeFrameOK
<1>20. NukeFrameOK(tables, stack', g)
  <2>1. /\ f.left \in SUBSET InnerOf(map(f.st)) /\ LeadAway(tables, stack, map(f.st), f.left)
        /\ tables[f.st].freed = 0
    BY <1>2 DEF NukeFrameOK
  <2>2. /\ g.left \in SUBSET InnerOf(map(f.st)) /\ LeadAway(tables, stack, map(f.st), g.left)
        /\ p \notin g.left
    BY <1>9, <2>1 DEF LeadAway
  <2>3. LeadAway(tables, stack', map(f.st), g.left)
    BY <1>4, <1>16, <2>2
  <2> QED
    BY <1>4, <1>9, <2>1, <2>2, <2>3 DEF NukeFrameOK
<1>21. inner \in 1 .. n /\ tables[inner].freed = 0 /\ \A k \in 1 .. m : stack[k].st # inner
  BY <1>4 DEF Unvisited
<1>22. inner # f.st
  BY <1>2, <1>21
<1>23. ASSUME NEW t \in 1 .. n, Unvisited(tables, stack, t)
       PROVE  LeadAway(tables, stack', map(t), InnerOf(map(t)))
  <2>1. LeadAway(tables, stack, map(t), InnerOf(map(t)))
    BY <1>2, <1>23 DEF NukeOK
  <2>2. t # f.st
    BY <1>2, <1>23 DEF Unvisited
  <2> QED
    BY <1>16, <2>1, <2>2
<1>24. NukeFrameOK(tables, stack', h)
  BY <1>4, <1>7, <1>21, <1>23 DEF NukeFrameOK
<1>25. \A k \in 1 .. Len(stack') : NukeFrameOK(tables, stack', stack'[k])
  BY <1>13, <1>14, <1>19, <1>20, <1>24
<1>26. \A j, k \in 1 .. Len(stack') : j # k => stack'[j].st # stack'[k].st
  <2>1. \A k \in 1 .. m : stack'[k].st = stack[k].st
    BY <1>2, <1>9, <1>13
  <2> QED
    BY <1>7, <1>13, <1>14, <1>18, <1>21, <2>1
<1>27. \A t \in 1 .. n : Unvisited(tables, stack', t) => LeadAway(tables, stack', map(t), InnerOf(map(t)))
  BY <1>15, <1>23
<1>28. Len(stack') > 0
  BY <1>2, <1>13
<1>29. NukeOK(tables, stack')
  BY <1>13, <1>25, <1>26, <1>27, <1>28 DEF NukeOK
<1> QED
  BY <1>1, <1>2, <1>6, <1>29 DEF SafeInv

\* A table that is freed, when all it leads to was.
LEMMA NukeTableSafe ==
    ASSUME SafeInv, Handled, NukeTable
    PROVE  SafeInv'
<1> DEFINE f == Top
           n == Len(tables)
           m == Len(stack)
           tabs == tables'
           stk == stack'
<1>1. phase = "nuke" /\ toks' = toks /\ phase' \in {"nuke", "gone"} /\ (phase' = "nuke" => m # 1)
  BY DEF NukeTable
<1>2. /\ ShapeOK(tables) /\ NukeOK(tables, stack)
      /\ IsList(stack) /\ m \in Nat \ {0} /\ n \in Nat /\ f = stack[m] /\ NukeFrameOK(tables, stack, f)
  BY <1>1, NukeFacts
<1>3. f.st \in 1 .. n /\ tables[f.st].freed = 0
  BY <1>2 DEF NukeFrameOK
<1>4. stk = Front(stack) /\ tabs = [tables EXCEPT ![f.st].freed = @ + 1]
  BY DEF NukeTable, FreeTable
<1>5. IsList(stk) /\ Len(stk) = m - 1 /\ \A k \in 1 .. m - 1 : stk[k] = stack[k]
  BY <1>2, <1>4, ListFront
<1> HIDE DEF f
<1> DEFINE table == [tables[f.st] EXCEPT !.freed = @ + 1]
<1>6. TableOK(tables[f.st]) /\ IsList(tables) /\ \A t \in 1 .. n : TableOK(tables[t])
  BY <1>2, <1>3 DEF ShapeOK
<1>7. TableOK(table) /\ table.map = tables[f.st].map /\ table.freed = 1
  BY <1>3, <1>6 DEF TableOK
<1>8. IsSetAt(tables, f.st, table, tabs)
  <2>1. tabs = [tables EXCEPT ![f.st] = table]
    BY <1>4
  <2> QED
    BY <1>3, <1>6, <2>1, ListSet
<1> HIDE DEF table
<1>9. /\ IsList(tabs) /\ Len(tabs) = n /\ tabs[f.st].freed = 1
      /\ \A t \in 1 .. n : TableOK(tabs[t]) /\ tabs[t].map = tables[t].map
      /\ \A t \in 1 .. n : t # f.st => tabs[t].freed = tables[t].freed
  BY <1>3, <1>6, <1>7, <1>8 DEF IsSetAt
<1> HIDE DEF tabs, stk
<1>10. ShapeOK(tabs)
  <2>1. Forest(tables)
    BY <1>2 DEF ShapeOK
  <2>2. \A t \in 1 .. n : \A p \in InnerOf(tables[t].map) :
            /\ TableAt(tables[t].map, p) \in t + 1 .. n
            /\ \A u \in 1 .. n : \A q \in InnerOf(tables[u].map) :
                    TableAt(tables[u].map, q) = TableAt(tables[t].map, p) => u = t /\ q = p
    BY <2>1 DEF Forest
  <2>3. \A t \in 1 .. n : tabs[t].map = tables[t].map
    BY <1>9
  <2>4. \A t \in 1 .. n : \A p \in InnerOf(tabs[t].map) :
            /\ TableAt(tabs[t].map, p) \in t + 1 .. n
            /\ \A u \in 1 .. n : \A q \in InnerOf(tabs[u].map) :
                    TableAt(tabs[u].map, q) = TableAt(tabs[t].map, p) => u = t /\ q = p
    <3> SUFFICES ASSUME NEW t \in 1 .. n, NEW p \in InnerOf(tabs[t].map)
                 PROVE  /\ TableAt(tabs[t].map, p) \in t + 1 .. n
                        /\ \A u \in 1 .. n : \A q \in InnerOf(tabs[u].map) :
                                TableAt(tabs[u].map, q) = TableAt(tabs[t].map, p) => u = t /\ q = p
      OBVIOUS
    <3>1. tabs[t].map = tables[t].map
      BY <2>3
    <3>2. p \in InnerOf(tables[t].map)
      BY <3>1
    <3>3. TableAt(tabs[t].map, p) \in t + 1 .. n
      BY <2>2, <3>1, <3>2
    <3>4. ASSUME NEW u \in 1 .. n, NEW q \in InnerOf(tabs[u].map), TableAt(tabs[u].map, q) = TableAt(tabs[t].map, p)
          PROVE  u = t /\ q = p
      <4>1. tabs[u].map = tables[u].map
        BY <2>3
      <4> QED
        BY <2>2, <3>1, <3>2, <3>4, <4>1
    <3> QED
      BY <3>3, <3>4
  <2>5. Forest(tabs)
    BY <1>9, <2>4 DEF Forest
  <2> QED
    BY <1>9, <2>5 DEF ShapeOK
<1>11. \A k \in 1 .. m : k = m \/ k \in 1 .. m - 1
  BY <1>2
<1>12. \A t : Unvisited(tabs, stk, t) <=> Unvisited(tables, stack, t)
  <2> SUFFICES ASSUME NEW t PROVE Unvisited(tabs, stk, t) <=> Unvisited(tables, stack, t)
    OBVIOUS
  <2>1. ASSUME Unvisited(tables, stack, t)
        PROVE  Unvisited(tabs, stk, t)
    <3>1. t \in 1 .. n /\ tables[t].freed = 0 /\ \A k \in 1 .. m : stack[k].st # t
      BY <2>1 DEF Unvisited
    <3>2. t # f.st
      BY <1>2, <3>1
    <3>3. \A k \in 1 .. Len(stk) : k \in 1 .. m /\ stk[k] = stack[k]
      BY <1>2, <1>5
    <3> QED
      BY <1>9, <3>1, <3>2, <3>3 DEF Unvisited
  <2>2. ASSUME Unvisited(tabs, stk, t)
        PROVE  Unvisited(tables, stack, t)
    <3>1. t \in 1 .. n /\ tabs[t].freed = 0 /\ \A k \in 1 .. m - 1 : stk[k].st # t
      BY <1>5, <1>9, <2>2 DEF Unvisited
    <3>2. t # f.st
      BY <1>9, <3>1
    <3>3. \A k \in 1 .. m : stack[k].st # t
      BY <1>2, <1>5, <1>11, <3>1, <3>2
    <3> QED
      BY <1>9, <3>1, <3>2, <3>3 DEF Unvisited
  <2> QED
    BY <2>1, <2>2
<1>13. ASSUME NEW t \in 1 .. n, NEW places, LeadAway(tables, stack, tables[t].map, places)
       PROVE  LeadAway(tabs, stk, tabs[t].map, places)
  BY <1>9, <1>12, <1>13 DEF LeadAway
<1>14. \A j, k \in 1 .. m : j # k => stack[j].st # stack[k].st
  BY <1>2 DEF NukeOK
<1>15. ASSUME NEW k \in 1 .. m - 1
       PROVE  NukeFrameOK(tabs, stk, stk[k])
  <2> DEFINE e == stack[k]
  <2>1. k \in 1 .. m /\ k # m /\ m \in 1 .. m
    BY <1>2
  <2>2. stk[k] = e /\ e.st # f.st /\ NukeFrameOK(tables, stack, e)
    BY <1>2, <1>5, <1>14, <2>1 DEF NukeOK
  <2> HIDE DEF e
  <2>3. /\ IsNuke(e) /\ e.st \in 1 .. n /\ tables[e.st].freed = 0
        /\ e.left \in SUBSET InnerOf(tables[e.st].map)
        /\ LeadAway(tables, stack, tables[e.st].map, e.left)
    BY <2>2 DEF NukeFrameOK
  <2>4. LeadAway(tabs, stk, tabs[e.st].map, e.left)
    BY <1>13, <2>3
  <2> QED
    BY <1>9, <2>2, <2>3, <2>4 DEF NukeFrameOK
<1>16. \A j, k \in 1 .. Len(stk) : j # k => stk[j].st # stk[k].st
  <2>1. \A k \in 1 .. Len(stk) : k \in 1 .. m /\ stk[k] = stack[k]
    BY <1>2, <1>5
  <2> QED
    BY <1>14, <2>1
<1>17. ASSUME NEW t \in 1 .. n, Unvisited(tabs, stk, t)
       PROVE  LeadAway(tabs, stk, tabs[t].map, InnerOf(tabs[t].map))
  <2>1. LeadAway(tables, stack, tables[t].map, InnerOf(tables[t].map))
    BY <1>2, <1>12, <1>17 DEF NukeOK
  <2>2. tabs[t].map = tables[t].map
    BY <1>9
  <2>3. LeadAway(tabs, stk, tabs[t].map, InnerOf(tables[t].map))
    BY <1>13, <2>1
  <2> QED
    BY <2>2, <2>3
<1>18. ASSUME m # 1
       PROVE  NukeOK(tabs, stk)
  <2>1. Len(stk) > 0
    BY <1>2, <1>5, <1>18
  <2> QED
    BY <1>5, <1>9, <1>15, <1>16, <1>17, <2>1 DEF NukeOK
<1> QED
  BY <1>1, <1>10, <1>18 DEF SafeInv, tabs, stk

LEMMA StepSafe == CallsOK /\ SafeInv /\ [Next]_vars => SafeInv'
<1> SUFFICES ASSUME CallsOK, SafeInv, [Next]_vars, Handled' PROVE SafeInv'
  BY DEF SafeInv
<1>1. toks' = toks
  BY DEF Next, vars, jw_new, ParseStep, jw_nuke, NukeThing, NukeTable, ObjectDone, BadName, Name,
         ScalarValue, ObjectValue, ObjectAgain, ObjectSkip, ArrayValue, ScalarElement,
         ObjectElement, ElementSkip, ArrayElement, ArrayDone, Return, Wild
<1>2. Handled
  BY <1>1 DEF Handled
<1>3. CASE jw_new
  BY <1>3, jw_newSafe
<1>4. CASE ParseStep
  BY <1>2, <1>4, ParseStepSafe
<1>5. CASE jw_nuke
  BY <1>2, <1>5, jw_nukeSafe
<1>6. CASE NukeThing
  BY <1>2, <1>6, NukeThingSafe
<1>7. CASE NukeTable
  BY <1>2, <1>7, NukeTableSafe
<1>8. CASE UNCHANGED vars
  BY <1>2, <1>8 DEF SafeInv, vars
<1> QED
  BY <1>3, <1>4, <1>5, <1>6, <1>7, <1>8 DEF Next

\* jw_new and jw_nuke never use a table they have freed, for any document whose
\* names are strings and that has no array in an array (jwrapper.c): no parse
\* of it fails halfway, and each table is led to from one place only.
THEOREM NothingFreedIsUsed == Spec => []NothingUsedAfterFree
<1>1. Init => SafeInv
  BY DEF Init, SafeInv
<1>2. SafeInv => NothingUsedAfterFree
  BY DEF SafeInv, NothingUsedAfterFree
<1>3. Spec => []CallsOK
  BY InitCallsOK, StepCallsOK, PTL DEF Spec
<1> QED
  BY <1>1, <1>2, <1>3, StepSafe, PTL DEF Spec

-----------------------------------------------------------------------------
(* How far a table is filled.                                              *)

\* How far a call is: it has come to the fields before this token.
Cur(ts, f) ==
    CASE f.place = "name" -> IF f.i >= EndIn(ts, f.first) THEN EndIn(ts, f.first) + 1 ELSE f.i
      [] f.place \in {"value", "ele", "eleskip"} -> f.i
      [] OTHER -> EndIn(ts, f.i) + 1

\* A call is past a field when it has mapped it; an object is begun before that,
\* with its text.
Began(ts, f, v) == v < Cur(ts, f)
Past(ts, f, v) == Began(ts, f, v) /\ (f.place = "again" => v # f.i)

\* All calls for a table are past it.
AllBegan(ts, stk, t, v) == \A k \in 1 .. Len(stk) : stk[k].st = t => Began(ts, stk[k], v)
AllPast(ts, stk, t, v) == \A k \in 1 .. Len(stk) : stk[k].st = t => Past(ts, stk[k], v)

\* The fields that are mapped in a table for r, and those begun.
Done(ts, stk, t, r) == {v \in Fields(ts, r) : AllPast(ts, stk, t, v)}
Begun(ts, stk, t, r) == {v \in Fields(ts, r) : AllBegan(ts, stk, t, v)}

\* A call is for an object of its table, and has the names that its fields are
\* found under.
FieldOrSelf(ts, r, v) == v = r \/ v \in Fields(ts, r)
InArray(ts, r, f, a) ==
    /\ a \in Fields(ts, r) /\ f.name = PathOf(ts, r, a) /\ ArrayAt(ts, f, a)
    /\ f.i \in a + 1 .. EndIn(ts, a) + 1
Named(ts, r, nx, f) ==
    /\ r \in 1 .. Len(ts) /\ f.text \in 1 .. nx
    /\ FieldOrSelf(ts, r, f.first) /\ f.prefix = PathOf(ts, r, f.first)
    /\ f.place \in {"value", "again", "skip"} => f.name = PathOf(ts, r, f.i)
    /\ f.place \in {"ele", "eleskip"} => \E a \in Fields(ts, r) : InArray(ts, r, f, a)

\* A call made by another is for the same table, and an object in it, or for a
\* table of its own.
OwnTable == {"skip", "eleskip"}
LinkAt(tabs, stk, k) ==
    /\ k = 1 \/ stk[k - 1].place \in OwnTable => stk[k].first = tabs[stk[k].st].of
    /\ k < Len(stk) => stk[k].place \in OwnTable \cup {"again"}
    /\ k < Len(stk) /\ stk[k].place = "again" =>
            stk[k + 1].st = stk[k].st /\ stk[k + 1].first = stk[k].i
NestAt(ts, f, g) ==
    /\ f.st <= g.st
    /\ f.place \in OwnTable => f.st < g.st
    /\ f.st = g.st => g.first \in f.i .. EndIn(ts, f.i)
Linked(ts, tabs, stk) ==
    /\ \A k \in 1 .. Len(stk) : LinkAt(tabs, stk, k)
    /\ \A j, k \in 1 .. Len(stk) : j < k => NestAt(ts, stk[j], stk[k])

\* The fields that a call is within are not mapped yet.
Pending(ts, tabs, stk) ==
    \A k \in 1 .. Len(stk) : \A v \in Fields(ts, tabs[stk[k].st].of) :
        stk[k].first \in v .. EndIn(ts, v) =>
            \E j \in 1 .. k - 1 : stk[j].st = stk[k].st /\ stk[j].place = "again" /\ stk[j].i = v

CallsNamed(ts, tabs, nx, stk) ==
    /\ \A k \in 1 .. Len(stk) : Named(ts, tabs[stk[k].st].of, nx, stk[k])
    /\ Linked(ts, tabs, stk)
    /\ Pending(ts, tabs, stk)

-----------------------------------------------------------------------------
(* Tables say what their objects do.                                       *)

\* The elements of an array that are in it.
ElementSet(stk, t, name, c) ==
    \A k \in 1 .. Len(stk) : stk[k].st = t /\ stk[k].name = name =>
        /\ stk[k].place = "ele" => c < stk[k].n
        /\ stk[k].place = "eleskip" => c <= stk[k].n

\* A thing is the value at v, but for elements.
ThingFor(ts, tabs, nx, thing, v) ==
    /\ DOMAIN thing = ThingFields /\ thing.type = ts[v].type
    /\ CASE ts[v].type = "STRING" ->
                thing.prim = "UNKNOWN" /\ thing.val = ts[v].text /\ thing.ref \in 1 .. nx
         [] ts[v].type = "PRIMITIVE" ->
                thing.prim = PrimType(ts[v].text) /\ thing.val = ts[v].num
         [] ts[v].type = "OBJECT" ->
                thing.prim = "UNKNOWN" /\ thing.ref \in 1 .. Len(tabs) /\ tabs[thing.ref].of = v
         [] ts[v].type = "ARRAY" ->
                thing.prim = "UNKNOWN" /\ IsList(thing.ele) /\ Len(thing.ele) = ts[v].size
         [] OTHER -> FALSE

LastOf(ts, r, D, v) ==
    \A w \in D \ {v} : PathOf(ts, r, w) = PathOf(ts, r, v) => w <= EndIn(ts, v) /\ v \notin InsideOf(ts, w)

ElementsOK(ts, tabs, nx, stk, t, name, ele, a) ==
    \A e \in PartsOf(ts, a) :
        LET c == Cardinality(Before(ts, a, e))
        IN  IF ElementSet(stk, t, name, c) THEN ThingFor(ts, tabs, nx, ele[c + 1], e)
            ELSE ele[c + 1] = Undefined

FieldIn(ts, tabs, nx, stk, t, r, v) ==
    LET name == PathOf(ts, r, v)
        map == tabs[t].map
    IN  /\ name \in DOMAIN map
        /\ ThingFor(ts, tabs, nx, map[name], v)
        /\ ts[v].type = "ARRAY" => ElementsOK(ts, tabs, nx, stk, t, name, map[name].ele, v)

NamesFrom(ts, r, D, B) ==
    {JSON_SYM_NAME} \cup {PathOf(ts, r, v) : v \in D}
        \cup {TextName(ts, r, v) : v \in {w \in B : ts[w].type = "OBJECT"}}

TableSays(ts, tabs, nx, stk, t) ==
    LET r == tabs[t].of
        map == tabs[t].map
        D == Done(ts, stk, t, r)
        B == Begun(ts, stk, t, r)
    IN  /\ r \in 1 .. Len(ts)
        /\ \A name \in DOMAIN map :
                name \in NamesFrom(ts, r, D, B) /\ (name \notin Paths(ts, r) => map[name].type = "TEXT")
        /\ NoClash(ts, r) => \A v \in D : LastOf(ts, r, D, v) => FieldIn(ts, tabs, nx, stk, t, r, v)

-----------------------------------------------------------------------------
(* What is in the tables.                                                  *)

\* Each text is in one table.
HeldIn(map) == {map[n].ref : n \in {m \in DOMAIN map : map[m].type = "TEXT"}}
HeldOnce(tabs, nx) ==
    \A t \in 1 .. Len(tabs) : \A x \in HeldIn(tabs[t].map) :
        x \in 1 .. nx /\ \A u \in 1 .. Len(tabs) : x \in HeldIn(tabs[u].map) => u = t

\* Where no name is given twice, all tables and texts are found.
AllDiffer(ts, tabs) == \A t \in 1 .. Len(tabs) : NamesDiffer(ts, tabs[t].of)
AllFound(tabs, nx) ==
    /\ \A t \in 2 .. Len(tabs) :
            \E u \in 1 .. Len(tabs) : \E p \in InnerOf(tabs[u].map) : TableAt(tabs[u].map, p) = t
    /\ \A x \in 1 .. nx : \E u \in 1 .. Len(tabs) : x \in HeldIn(tabs[u].map)

\* What jw_nuke has freed: with a table, those it leads to, and its texts.
FreedOnce(tabs, txs) ==
    /\ \A t \in 1 .. Len(tabs) : tabs[t].freed \in {0, 1}
    /\ \A x \in 1 .. Len(txs) :
        txs[x] = IF \E t \in 1 .. Len(tabs) : tabs[t].freed = 1 /\ x \in HeldIn(tabs[t].map) THEN 1 ELSE 0
FreedWith(tabs, stk) ==
    /\ \A t \in 1 .. Len(tabs) : tabs[t].freed = 1 =>
            \A p \in InnerOf(tabs[t].map) : tabs[TableAt(tabs[t].map, p)].freed = 1
    /\ \A k \in 1 .. Len(stk) :
        LET map == tabs[stk[k].st].map
        IN  \A p \in InnerOf(map) \ stk[k].left :
                \/ tabs[TableAt(map, p)].freed = 1
                \/ k < Len(stk) /\ stk[k + 1].st = TableAt(map, p)
    /\ tabs[1].freed = 1 \/ (Len(stk) > 0 /\ stk[1].st = 1)

-----------------------------------------------------------------------------
(* Fields and their paths.                                                 *)

\* A token is a part of one other at most.
LEMMA OwnerUnique ==
    ASSUME NEW ts, TokensOK(ts), NEW o \in 1 .. Len(ts), NEW o2 \in 1 .. Len(ts), NEW v,
           v \in PartsOf(ts, o), v \in PartsOf(ts, o2)
    PROVE  o = o2
<1>1. v \in 1 .. Len(ts) /\ o < v /\ v <= EndIn(ts, o) /\ o2 < v /\ v <= EndIn(ts, o2)
  BY PartFacts, TokenFacts
<1>2. EndIn(ts, o) \in Int /\ EndIn(ts, o2) \in Int /\ Len(ts) \in Nat
  BY TokenFacts, ListFacts DEF TokensOK
<1>3. ~(o < o2)
  <2>1. SUFFICES ASSUME o < o2 PROVE FALSE
    OBVIOUS
  <2>2. o2 \in InsideOf(ts, o)
    BY <1>1, <1>2, <2>1 DEF InsideOf
  <2>3. EndIn(ts, o2) < v
    BY <1>1, <2>2 DEF PartsOf
  <2> QED
    BY <1>1, <1>2, <2>3
<1>4. ~(o2 < o)
  <2>1. SUFFICES ASSUME o2 < o PROVE FALSE
    OBVIOUS
  <2>2. o \in InsideOf(ts, o2)
    BY <1>1, <1>2, <2>1 DEF InsideOf
  <2>3. EndIn(ts, o) < v
    BY <1>1, <2>2 DEF PartsOf
  <2> QED
    BY <1>1, <1>2, <2>3
<1> QED
  BY <1>3, <1>4

LEMMA FieldFacts ==
    ASSUME NEW ts, TokensOK(ts), NEW r \in 1 .. Len(ts), NEW v \in Fields(ts, r)
    PROVE  /\ v \in 1 .. Len(ts) /\ r < v /\ EndIn(ts, v) \in v .. EndIn(ts, r)
           /\ \E o \in 1 .. Len(ts) : IsValuePart(ts, o, v)
           /\ \A o \in 1 .. Len(ts) : r < o /\ v \in InsideOf(ts, o) => ts[o].type = "OBJECT"
<1>1. v \in InsideOf(ts, r) /\ \A o \in InsideOf(ts, r) : v \in InsideOf(ts, o) => ts[o].type = "OBJECT"
  BY DEF Fields
<1>2. PICK o \in {r} \cup InsideOf(ts, r) : ts[o].type = "OBJECT" /\ v \in ValuesOf(ts, o)
  BY DEF Fields
<1>3. EndIn(ts, r) \in r .. Len(ts) /\ Len(ts) \in Nat
  BY TokenFacts, ListFacts DEF TokensOK
<1>4. v \in r + 1 .. EndIn(ts, r) /\ v \in 1 .. Len(ts) /\ r < v
  BY <1>1, <1>3 DEF InsideOf
<1>5. EndIn(ts, v) \in v .. EndIn(ts, r)
  BY <1>4, TokenFacts
<1>6. o \in 1 .. Len(ts)
  BY <1>2, <1>3 DEF InsideOf
<1>7. IsValuePart(ts, o, v)
  BY <1>2 DEF ValuesOf, IsValuePart, Before
<1>8. ASSUME NEW a \in 1 .. Len(ts), r < a, v \in InsideOf(ts, a) PROVE ts[a].type = "OBJECT"
  <2>1. a < v
    BY <1>8 DEF InsideOf
  <2>2. a \in InsideOf(ts, r)
    BY <1>3, <1>4, <1>8, <2>1 DEF InsideOf
  <2> QED
    BY <1>1, <1>8, <2>2
<1> QED
  BY <1>4, <1>5, <1>6, <1>7, <1>8

\* A name is no field, and a value is one if its object is, or is the table's.
LEMMA NameIsNoField ==
    ASSUME NEW ts, TokensOK(ts), NEW r \in 1 .. Len(ts), NEW o \in 1 .. Len(ts), NEW p, IsNamePart(ts, o, p)
    PROVE  p \notin Fields(ts, r)
<1>1. SUFFICES ASSUME p \in Fields(ts, r) PROVE FALSE
  OBVIOUS
<1>2. PICK o2 \in 1 .. Len(ts) : IsValuePart(ts, o2, p)
  BY <1>1, FieldFacts
<1>3. o2 = o
  BY <1>2, OwnerUnique DEF IsNamePart, IsValuePart
<1> QED
  BY <1>2, <1>3 DEF IsNamePart, IsValuePart

LEMMA ValueIsField ==
    ASSUME NEW ts, TokensOK(ts), NEW r \in 1 .. Len(ts), NEW o, FieldOrSelf(ts, r, o), ts[o].type = "OBJECT",
           NEW v, IsValuePart(ts, o, v)
    PROVE  v \in Fields(ts, r) /\ o \in r .. EndIn(ts, r) /\ o \in 1 .. Len(ts)
<1>1. EndIn(ts, r) \in r .. Len(ts) /\ Len(ts) \in Nat
  BY TokenFacts, ListFacts DEF TokensOK
<1>2. o = r \/ (o \in Fields(ts, r) /\ r < o)
  BY FieldFacts DEF FieldOrSelf
<1>3. o \in 1 .. Len(ts) /\ r <= o /\ EndIn(ts, o) \in o .. EndIn(ts, r)
  BY <1>1, <1>2, FieldFacts
<1>4. v \in PartsOf(ts, o)
  BY DEF IsValuePart
<1>5. v \in 1 .. Len(ts) /\ o < v /\ EndIn(ts, v) \in v .. EndIn(ts, o)
  BY <1>3, <1>4, PartFacts
<1>6. v \in InsideOf(ts, r)
  BY <1>1, <1>3, <1>5 DEF InsideOf
<1>7. o \in {r} \cup InsideOf(ts, r)
  BY <1>1, <1>2, <1>3, <1>5 DEF InsideOf
<1>8. v \in ValuesOf(ts, o)
  BY DEF IsValuePart, ValuesOf, Before
<1>9. ASSUME NEW c \in InsideOf(ts, r), v \in InsideOf(ts, c) PROVE ts[c].type = "OBJECT"
  <2>1. r < c /\ c \in 1 .. Len(ts) /\ c < v /\ v <= EndIn(ts, c)
    BY <1>1, <1>9 DEF InsideOf
  <2>2. EndIn(ts, c) \in Int
    BY <2>1, TokenFacts
  <2>3. CASE c = o
    BY <2>3
  <2>4. CASE c < o
    <3>1. o \in InsideOf(ts, c)
      BY <1>3, <1>5, <2>1, <2>2, <2>4 DEF InsideOf
    <3>2. o \in Fields(ts, r)
      BY <1>2, <1>3, <2>1, <2>4
    <3> QED
      BY <2>1, <3>1, <3>2, FieldFacts
  <2>5. CASE o < c
    <3>1. c \in InsideOf(ts, o)
      BY <1>1, <1>3, <1>5, <2>1, <2>5 DEF InsideOf
    <3>2. EndIn(ts, c) < v
      BY <1>4, <2>1, <3>1 DEF PartsOf
    <3> QED
      BY <1>5, <2>1, <2>2, <3>2
  <2> QED
    BY <1>3, <2>1, <2>3, <2>4, <2>5
<1> QED
  BY <1>1, <1>3, <1>5, <1>6, <1>7, <1>8, <1>9 DEF Fields

\* The paths of the object's tokens are what their definition says: there is
\* such a function, for a path is made of one in front of it.
AroundOf(ts, r, v) == {o \in r .. v - 1 : v \in PartsOf(ts, o)}
PathFrom(ts, r, f, v) ==
    IF AroundOf(ts, r, v) = {} THEN ""
    ELSE Path(f[CHOOSE o \in AroundOf(ts, r, v) : TRUE], ts[v - 1].text)

LEMMA PathsByParts ==
    ASSUME NEW ts, TokensOK(ts), NEW r \in 1 .. Len(ts), NEW v \in r .. EndIn(ts, r)
    PROVE  PathOf(ts, r, v) = PathFrom(ts, r, PathsIn(ts, r), v)
<1> DEFINE last == EndIn(ts, r)
           Upto(n) == r .. (IF r + n <= last THEN r + n ELSE last)
           IsPart(n, f) == f = [w \in Upto(n) |-> PathFrom(ts, r, f, w)]
           P == {n \in Nat : \E f : IsPart(n, f)}
<1>1. last \in r .. Len(ts) /\ Len(ts) \in Nat /\ r \in Nat
  BY TokenFacts, ListFacts DEF TokensOK
<1> HIDE DEF last
<1>2. ASSUME NEW f, NEW g, NEW w \in Int, \A o \in r .. w - 1 : f[o] = g[o]
      PROVE  PathFrom(ts, r, f, w) = PathFrom(ts, r, g, w)
  <2>1. CASE AroundOf(ts, r, w) = {}
    BY <2>1 DEF PathFrom
  <2>2. CASE AroundOf(ts, r, w) # {}
    <3> DEFINE o == CHOOSE o \in AroundOf(ts, r, w) : TRUE
    <3>1. o \in AroundOf(ts, r, w)
      BY <2>2
    <3>2. f[o] = g[o]
      BY <1>2, <3>1 DEF AroundOf
    <3> QED
      BY <2>2, <3>2 DEF PathFrom
  <2> QED
    BY <2>1, <2>2
<1>3. 0 \in P
  <2> DEFINE f == [w \in r .. r |-> PathFrom(ts, r, [x \in {} |-> 0], w)]
  <2>1. Upto(0) = r .. r
    BY <1>1
  <2>2. \A w \in r .. r : PathFrom(ts, r, f, w) = PathFrom(ts, r, [x \in {} |-> 0], w)
    <3>1. \A w \in r .. r : AroundOf(ts, r, w) = {}
      BY <1>1 DEF AroundOf
    <3> QED
      BY <3>1 DEF PathFrom
  <2>3. f = [w \in Upto(0) |-> PathFrom(ts, r, f, w)]
    <3> HIDE DEF Upto
    <3> QED
      BY <2>1, <2>2
  <2> QED
    BY <2>3
<1>4. ASSUME NEW n \in Nat, n \in P PROVE n + 1 \in P
  <2>1. PICK f : IsPart(n, f)
    BY <1>4
  <2> DEFINE g == [w \in Upto(n + 1) |-> PathFrom(ts, r, f, w)]
  <2>2. \A w \in Upto(n + 1) : \A o \in r .. w - 1 : o \in Upto(n) /\ o \in Upto(n + 1)
    BY <1>1
  <2>3. \A o : o \in Upto(n) /\ o \in Upto(n + 1) => g[o] = f[o]
    <3> HIDE DEF Upto
    <3> QED
      BY <2>1
  <2>4. \A w \in Upto(n + 1) : w \in Int
    BY <1>1
  <2> HIDE DEF Upto
  <2>5. \A w \in Upto(n + 1) : \A o \in r .. w - 1 : g[o] = f[o]
    BY <2>2, <2>3
  <2> DEFINE h == g
  <2> HIDE DEF g
  <2>6. \A w \in Upto(n + 1) : PathFrom(ts, r, g, w) = PathFrom(ts, r, f, w)
    BY <1>2, <2>4, <2>5
  <2>7. g = [w \in Upto(n + 1) |-> PathFrom(ts, r, g, w)]
    BY <2>6 DEF g
  <2> QED
    BY <2>7
<1>5. \A n \in Nat : n \in P
  <2> HIDE DEF P
  <2> QED
    BY <1>3, <1>4, AllNaturals
<1>6. \E f : f = [w \in r .. last |-> PathFrom(ts, r, f, w)]
  <2>1. last - r \in Nat /\ Upto(last - r) = r .. last
    BY <1>1
  <2>2. PICK f : IsPart(last - r, f)
    BY <1>5, <2>1
  <2> HIDE DEF Upto
  <2> QED
    BY <2>1, <2>2
<1>7. PathsIn(ts, r) = CHOOSE f : f = [w \in r .. last |-> PathFrom(ts, r, f, w)]
  BY Zenon DEF PathsIn, PathFrom, AroundOf, last
<1>8. PathsIn(ts, r) = [w \in r .. last |-> PathFrom(ts, r, PathsIn(ts, r), w)]
  BY <1>6, <1>7
<1>9. v \in r .. last
  BY DEF last
<1> QED
  BY <1>8, <1>9 DEF PathOf

\* A field's path is its name behind that of the object it is in.
LEMMA PathsJoin ==
    ASSUME NEW ts, TokensOK(ts), NEW r \in 1 .. Len(ts)
    PROVE  /\ PathOf(ts, r, r) = ""
           /\ \A o, v : FieldOrSelf(ts, r, o) /\ ts[o].type = "OBJECT" /\ IsValuePart(ts, o, v) =>
                    PathOf(ts, r, v) = Path(PathOf(ts, r, o), ts[v - 1].text)
<1>1. EndIn(ts, r) \in r .. Len(ts) /\ Len(ts) \in Nat /\ r \in Nat
  BY TokenFacts, ListFacts DEF TokensOK
<1>2. PathOf(ts, r, r) = ""
  <2>1. AroundOf(ts, r, r) = {}
    BY <1>1 DEF AroundOf
  <2>2. r \in r .. EndIn(ts, r)
    BY <1>1
  <2> QED
    BY <2>1, <2>2, PathsByParts DEF PathFrom
<1>3. ASSUME NEW o, NEW v, FieldOrSelf(ts, r, o), ts[o].type = "OBJECT", IsValuePart(ts, o, v)
      PROVE  PathOf(ts, r, v) = Path(PathOf(ts, r, o), ts[v - 1].text)
  <2>1. v \in Fields(ts, r) /\ o \in r .. EndIn(ts, r) /\ o \in 1 .. Len(ts)
    BY <1>3, ValueIsField
  <2>2. v \in PartsOf(ts, o)
    BY <1>3 DEF IsValuePart
  <2>3. v \in 1 .. Len(ts) /\ o < v /\ r < v /\ EndIn(ts, v) \in v .. EndIn(ts, r)
    BY <2>1, <2>2, PartFacts, FieldFacts
  <2>4. o \in AroundOf(ts, r, v)
    BY <1>1, <2>1, <2>2, <2>3 DEF AroundOf
  <2>5. \A c \in AroundOf(ts, r, v) : c = o
    <3>1. SUFFICES ASSUME NEW c \in AroundOf(ts, r, v) PROVE c = o
      OBVIOUS
    <3>2. c \in 1 .. Len(ts) /\ v \in PartsOf(ts, c)
      BY <1>1, <2>3, <3>1 DEF AroundOf
    <3> QED
      BY <2>1, <2>2, <3>2, OwnerUnique
  <2>6. (CHOOSE c \in AroundOf(ts, r, v) : TRUE) = o
    BY <2>4, <2>5
  <2>7. v \in r .. EndIn(ts, r)
    BY <1>1, <2>3
  <2>8. PathOf(ts, r, v) = Path(PathsIn(ts, r)[o], ts[v - 1].text)
    BY <2>4, <2>6, <2>7, PathsByParts DEF PathFrom
  <2> QED
    BY <2>8 DEF PathOf
<1> QED
  BY <1>2, <1>3

-----------------------------------------------------------------------------
(* Calls have the names of their fields.                                   *)

\* Tables are made, and more texts, but none is for another object.
Grown(tabs, nx, tabs2, nx2) ==
    /\ Len(tabs) \in Nat /\ Len(tabs2) \in Nat /\ nx \in Nat /\ nx2 \in Nat
    /\ Len(tabs) <= Len(tabs2) /\ nx <= nx2
    /\ \A t \in 1 .. Len(tabs) : tabs2[t].of = tabs[t].of

\* Calls have tables.
HaveTables(tabs, stk) ==
    IsList(stk) /\ Len(stk) > 0 /\ \A k \in 1 .. Len(stk) : stk[k].st \in 1 .. Len(tabs)

LEMMA NamedGrows ==
    ASSUME NEW ts, NEW r, NEW nx \in Nat, NEW nx2 \in Nat, nx <= nx2, NEW f, Named(ts, r, nx, f)
    PROVE  Named(ts, r, nx2, f)
BY DEF Named

\* The call on top has moved on.
LEMMA NamedSet ==
    ASSUME NEW ts, NEW tabs, NEW nx, NEW stk, HaveTables(tabs, stk), CallsNamed(ts, tabs, nx, stk),
           NEW f, f = stk[Len(stk)], NEW g, g.st = f.st, g.first = f.first,
           NEW tabs2, NEW nx2, Grown(tabs, nx, tabs2, nx2),
           Named(ts, tabs[f.st].of, nx2, g), NEW stk2, IsSetAt(stk, Len(stk), g, stk2)
    PROVE  CallsNamed(ts, tabs2, nx2, stk2)
<1>1. Len(stk) \in Nat /\ Len(stk) > 0 /\ IsList(stk2) /\ Len(stk2) = Len(stk)
  BY ListFacts DEF HaveTables, IsSetAt
<1>2. /\ \A k \in 1 .. Len(stk) : stk2[k].st = stk[k].st /\ stk2[k].first = stk[k].first
      /\ \A k \in 1 .. Len(stk) : k < Len(stk) => stk2[k] = stk[k]
      /\ stk2[Len(stk)] = g
  BY <1>1 DEF IsSetAt
<1>3. \A k \in 1 .. Len(stk) : tabs2[stk2[k].st].of = tabs[stk[k].st].of
  BY <1>1, <1>2 DEF HaveTables, Grown
<1>4. \A k \in 1 .. Len(stk2) : Named(ts, tabs2[stk2[k].st].of, nx2, stk2[k])
  <2>1. SUFFICES ASSUME NEW k \in 1 .. Len(stk) PROVE Named(ts, tabs[stk[k].st].of, nx2, stk2[k])
    BY <1>1, <1>3
  <2>2. CASE k = Len(stk)
    BY <1>2, <2>2
  <2>3. CASE k < Len(stk)
    <3>1. Named(ts, tabs[stk[k].st].of, nx, stk2[k])
      BY <1>2, <2>3 DEF CallsNamed
    <3> QED
      BY <3>1, NamedGrows DEF Grown
  <2> QED
    BY <1>1, <2>2, <2>3
<1>5. Linked(ts, tabs2, stk2)
  <2>1. ASSUME NEW k \in 1 .. Len(stk) PROVE LinkAt(tabs2, stk2, k)
    <3>1. LinkAt(tabs, stk, k)
      BY DEF CallsNamed, Linked
    <3>2. k > 1 => stk2[k - 1] = stk[k - 1]
      <4>1. k > 1 => k - 1 \in 1 .. Len(stk) /\ k - 1 < Len(stk)
        BY <1>1
      <4> QED
        BY <1>2, <4>1
    <3>3. k < Len(stk) => stk2[k + 1].st = stk[k + 1].st /\ stk2[k + 1].first = stk[k + 1].first /\ stk2[k] = stk[k]
      <4>1. k < Len(stk) => k + 1 \in 1 .. Len(stk)
        BY <1>1
      <4> QED
        BY <1>2, <4>1
    <3>4. k > 1 \/ k = 1
      BY <1>1
    <3>5. k = 1 \/ stk2[k - 1].place \in OwnTable => stk2[k].first = tabs2[stk2[k].st].of
      BY <1>2, <1>3, <3>1, <3>2, <3>4 DEF LinkAt
    <3>6. /\ k < Len(stk) => stk2[k].place \in OwnTable \cup {"again"}
          /\ k < Len(stk) /\ stk2[k].place = "again" =>
                stk2[k + 1].st = stk2[k].st /\ stk2[k + 1].first = stk2[k].i
      BY <3>1, <3>3 DEF LinkAt
    <3> QED
      BY <1>1, <3>5, <3>6 DEF LinkAt
  <2>2. ASSUME NEW j \in 1 .. Len(stk), NEW k \in 1 .. Len(stk), j < k PROVE NestAt(ts, stk2[j], stk2[k])
    <3>1. stk2[j] = stk[j]
      BY <1>1, <1>2, <2>2
    <3>2. NestAt(ts, stk[j], stk[k])
      BY <2>2 DEF CallsNamed, Linked
    <3> QED
      BY <1>2, <3>1, <3>2 DEF NestAt
  <2> QED
    BY <1>1, <2>1, <2>2 DEF Linked
<1>6. Pending(ts, tabs2, stk2)
  <2>1. SUFFICES ASSUME NEW k \in 1 .. Len(stk), NEW v \in Fields(ts, tabs[stk[k].st].of),
                        stk[k].first \in v .. EndIn(ts, v)
                 PROVE  \E j \in 1 .. k - 1 : stk2[j].st = stk[k].st /\ stk2[j].place = "again" /\ stk2[j].i = v
    BY <1>1, <1>2, <1>3 DEF Pending
  <2>2. PICK j \in 1 .. k - 1 : stk[j].st = stk[k].st /\ stk[j].place = "again" /\ stk[j].i = v
    BY <2>1 DEF CallsNamed, Pending
  <2>3. stk2[j] = stk[j]
    BY <1>1, <1>2, <2>2
  <2> QED
    BY <2>2, <2>3
<1> QED
  BY <1>4, <1>5, <1>6 DEF CallsNamed

\* A call has returned.
LEMMA NamedReturn ==
    ASSUME NEW ts, NEW tabs, NEW nx, NEW stk, IsList(stk), Len(stk) > 0, CallsNamed(ts, tabs, nx, stk),
           NEW stk2, IsList(stk2), Len(stk2) = Len(stk) - 1, \A k \in 1 .. Len(stk) - 1 : stk2[k] = stk[k]
    PROVE  CallsNamed(ts, tabs, nx, stk2)
<1>1. Len(stk) \in Nat /\ \A k \in 1 .. Len(stk2) : k \in 1 .. Len(stk) /\ k < Len(stk) /\ stk2[k] = stk[k]
  BY ListFacts
<1>2. \A k \in 1 .. Len(stk2) : Named(ts, tabs[stk2[k].st].of, nx, stk2[k])
  BY <1>1 DEF CallsNamed
<1>3. Linked(ts, tabs, stk2)
  <2>1. ASSUME NEW k \in 1 .. Len(stk2) PROVE LinkAt(tabs, stk2, k)
    <3>1. LinkAt(tabs, stk, k)
      BY <1>1 DEF CallsNamed, Linked
    <3>2. k > 1 => stk2[k - 1] = stk[k - 1]
      BY <1>1
    <3>3. k < Len(stk2) => stk2[k + 1] = stk[k + 1]
      BY <1>1
    <3>4. k > 1 \/ k = 1
      BY <1>1
    <3>5. k = 1 \/ stk2[k - 1].place \in OwnTable => stk2[k].first = tabs[stk2[k].st].of
      BY <1>1, <3>1, <3>2, <3>4 DEF LinkAt
    <3>6. /\ k < Len(stk2) => stk2[k].place \in OwnTable \cup {"again"}
          /\ k < Len(stk2) /\ stk2[k].place = "again" =>
                stk2[k + 1].st = stk2[k].st /\ stk2[k + 1].first = stk2[k].i
      BY <1>1, <3>1, <3>3 DEF LinkAt
    <3> QED
      BY <3>5, <3>6 DEF LinkAt
  <2>2. \A j, k \in 1 .. Len(stk2) : j < k => NestAt(ts, stk2[j], stk2[k])
    BY <1>1 DEF CallsNamed, Linked
  <2> QED
    BY <2>1, <2>2 DEF Linked
<1>4. Pending(ts, tabs, stk2)
  <2>1. SUFFICES ASSUME NEW k \in 1 .. Len(stk2), NEW v \in Fields(ts, tabs[stk[k].st].of),
                        stk[k].first \in v .. EndIn(ts, v)
                 PROVE  \E j \in 1 .. k - 1 : stk2[j].st = stk[k].st /\ stk2[j].place = "again" /\ stk2[j].i = v
    <3>1. \A k \in 1 .. Len(stk2) : stk2[k] = stk[k]
      BY <1>1
    <3> QED
      BY <3>1 DEF Pending
  <2>2. PICK j \in 1 .. k - 1 : stk[j].st = stk[k].st /\ stk[j].place = "again" /\ stk[j].i = v
    BY <1>1, <2>1 DEF CallsNamed, Pending
  <2>3. stk2[j] = stk[j]
    BY <1>1, <2>2
  <2> QED
    BY <2>2, <2>3
<1> QED
  BY <1>2, <1>3, <1>4 DEF CallsNamed

\* Lower calls for the table of the one on top wait at the object it is in.
LEMMA LowerCall ==
    ASSUME NEW ts, TokensOK(ts), NEW tabs, NEW nx, NEW stk, HaveTables(tabs, stk), Len(tabs) \in Nat,
           CallsNamed(ts, tabs, nx, stk), NEW f, f = stk[Len(stk)], f.first \in 1 .. Len(ts),
           NEW j \in 1 .. Len(stk) - 1, stk[j].st = f.st
    PROVE  /\ stk[j].place = "again" /\ stk[j].i \in 1 .. Len(ts) /\ stk[j].i <= f.first
           /\ EndIn(ts, f.first) \in Nat /\ EndIn(ts, stk[j].i) \in Nat
           /\ EndIn(ts, f.first) <= EndIn(ts, stk[j].i)
<1> DEFINE L == Len(stk)
<1>1. L \in Nat /\ L > 0 /\ f = stk[L] /\ L \in 1 .. L /\ j \in 1 .. L /\ j + 1 \in 1 .. L /\ j < L
  BY ListFacts DEF HaveTables
<1>2. NestAt(ts, stk[j], f) /\ LinkAt(tabs, stk, j)
  BY <1>1 DEF CallsNamed, Linked
<1>3. stk[j].st \in Int
  BY <1>1 DEF HaveTables
<1>4. stk[j].place = "again" /\ stk[j + 1].first = stk[j].i /\ f.first \in stk[j].i .. EndIn(ts, stk[j].i)
  BY <1>1, <1>2, <1>3 DEF LinkAt, NestAt
<1>5. tabs[stk[j + 1].st].of \in 1 .. Len(ts) /\ FieldOrSelf(ts, tabs[stk[j + 1].st].of, stk[j + 1].first)
  BY <1>1 DEF CallsNamed, Named
<1>6. stk[j].i \in 1 .. Len(ts)
  BY <1>4, <1>5, FieldFacts DEF FieldOrSelf
<1>7. /\ EndIn(ts, stk[j].i) \in stk[j].i .. Len(ts) /\ EndIn(ts, f.first) \in f.first .. Len(ts)
      /\ Len(ts) \in Nat
  BY <1>6, TokenFacts, ListFacts DEF TokensOK
<1>8. f.first = stk[j].i \/ f.first \in stk[j].i + 1 .. EndIn(ts, stk[j].i)
  BY <1>4, <1>6, <1>7
<1>9. EndIn(ts, f.first) <= EndIn(ts, stk[j].i)
  <2>1. CASE f.first = stk[j].i
    BY <1>7, <2>1
  <2>2. CASE f.first \in stk[j].i + 1 .. EndIn(ts, stk[j].i)
    BY <1>6, <2>2, TokenFacts
  <2> QED
    BY <1>8, <2>1, <2>2
<1> QED
  BY <1>4, <1>6, <1>7, <1>9

\* A call is made: for the same table, or for one that was made last.
CalledFor(ts, tabs, stk, f, callee) ==
    \/ /\ f.place = "again" /\ callee.st = f.st /\ callee.first = f.i
       /\ IsValuePart(ts, f.first, f.i)
    \/ /\ f.place \in OwnTable /\ callee.st = Len(tabs) /\ callee.first = tabs[callee.st].of
       /\ \A k \in 1 .. Len(stk) : stk[k].st < Len(tabs)

LEMMA PositionNat == \A n : \A x \in 1 .. n : x \in Nat
OBVIOUS

LEMMA BetweenAll ==
    \A a, b, c, d, e \in Nat : a <= b /\ b < c /\ c <= d /\ d <= e => c \in a .. e
OBVIOUS

LEMMA NamedCall ==
    ASSUME NEW ts, TokensOK(ts), NEW tabs, Len(tabs) \in Nat, NEW nx, NEW stk, HaveTables(tabs, stk),
           CallsNamed(ts, tabs, nx, stk), NEW f, f = stk[Len(stk)], f.first \in 1 .. Len(ts),
           NEW callee, CalledFor(ts, tabs, stk, f, callee), callee.first \in 1 .. Len(ts),
           Named(ts, tabs[callee.st].of, nx, callee),
           NEW stk2, IsAppended(stk, callee, stk2)
    PROVE  CallsNamed(ts, tabs, nx, stk2)
<1> DEFINE L == Len(stk)
<1>1. /\ L \in Nat /\ L > 0 /\ IsList(stk2) /\ Len(stk2) = L + 1 /\ stk2[L + 1] = callee
      /\ \A k \in 1 .. L : stk2[k] = stk[k]
      /\ stk[L] = f /\ L \in 1 .. L
  BY ListFacts DEF HaveTables, IsAppended
<1> HIDE DEF L
<1>2. \A k \in 1 .. L : stk[k].st \in 1 .. Len(tabs) /\ stk[k].st \in Int
  BY DEF HaveTables, L
<1>3. /\ \A k \in 1 .. L : Named(ts, tabs[stk[k].st].of, nx, stk[k])
      /\ Linked(ts, tabs, stk) /\ Pending(ts, tabs, stk)
  BY DEF CallsNamed, L
<1>4. \A k \in 1 .. L + 1 : k \in 1 .. L \/ k = L + 1
  BY <1>1
<1>5. \A k \in 1 .. Len(stk2) : Named(ts, tabs[stk2[k].st].of, nx, stk2[k])
  BY <1>1, <1>3, <1>4
<1>6. /\ f.place \in OwnTable \cup {"again"} /\ f.st <= callee.st
      /\ f.place \in OwnTable => f.st < callee.st /\ callee.first = tabs[callee.st].of
      /\ f.place = "again" => callee.st = f.st /\ callee.first = f.i
  BY <1>1, <1>2 DEF CalledFor, OwnTable, L
<1>7. Linked(ts, tabs, stk2)
  <2>1. ASSUME NEW k \in 1 .. L + 1 PROVE LinkAt(tabs, stk2, k)
    <3>1. CASE k = L + 1
      <4>1. k # 1 /\ k - 1 = L /\ stk2[k - 1] = f /\ stk2[k] = callee /\ ~(k < Len(stk2))
        BY <1>1, <3>1
      <4> QED
        BY <1>6, <4>1 DEF LinkAt
    <3>2. CASE k # L + 1
      <4>1. k \in 1 .. L /\ stk2[k] = stk[k] /\ (k = L \/ k < L)
        BY <1>1, <1>4, <3>2
      <4>2. LinkAt(tabs, stk, k)
        BY <1>3, <4>1 DEF Linked, L
      <4>3. ASSUME k > 1 PROVE stk2[k - 1] = stk[k - 1]
        <5>1. k - 1 \in 1 .. L
          BY <1>1, <4>1, <4>3
        <5> QED
          BY <1>1, <5>1
      <4>4. k < L => stk2[k + 1] = stk[k + 1]
        BY <1>1, <4>1
      <4>5. k = L => stk2[k] = f /\ stk2[k + 1] = callee
        BY <1>1
      <4>6. k = 1 \/ stk2[k - 1].place \in OwnTable => stk2[k].first = tabs[stk2[k].st].of
        <5>1. k > 1 \/ k = 1
          BY <4>1
        <5> QED
          BY <4>1, <4>2, <4>3, <5>1 DEF LinkAt
      <4>7. /\ stk2[k].place \in OwnTable \cup {"again"}
            /\ stk2[k].place = "again" => stk2[k + 1].st = stk2[k].st /\ stk2[k + 1].first = stk2[k].i
        <5>1. CASE k = L
          BY <1>6, <4>5, <5>1 DEF OwnTable
        <5>2. CASE k < L
          BY <4>1, <4>2, <4>4, <5>2 DEF LinkAt, L
        <5> QED
          BY <4>1, <5>1, <5>2
      <4> QED
        BY <4>6, <4>7 DEF LinkAt
    <3> QED
      BY <3>1, <3>2
  <2>2. ASSUME NEW j \in 1 .. L + 1, NEW k \in 1 .. L + 1, j < k PROVE NestAt(ts, stk2[j], stk2[k])
    <3>1. j \in 1 .. L /\ stk2[j] = stk[j]
      BY <1>1, <2>2
    <3>2. CASE k \in 1 .. L
      BY <1>1, <1>3, <2>2, <3>1, <3>2 DEF Linked, L
    <3>3. CASE k = L + 1
      <4>1. stk2[k] = callee
        BY <1>1, <3>3
      <4>2. j = L \/ NestAt(ts, stk[j], f)
        BY <1>1, <1>3, <3>1 DEF Linked, L
      <4>3. CASE j = L
        <5>1. stk2[j] = f
          BY <1>1, <4>3
        <5>2. f.st = callee.st => callee.first \in f.i .. EndIn(ts, f.i)
          <6>1. SUFFICES ASSUME f.st = callee.st PROVE callee.first \in f.i .. EndIn(ts, f.i)
            OBVIOUS
          <6>2. callee.first = f.i /\ IsValuePart(ts, f.first, f.i)
            BY <1>1, <1>2, <6>1 DEF CalledFor, L
          <6>3. EndIn(ts, f.i) \in f.i .. EndIn(ts, f.first) /\ f.i \in 1 .. Len(ts)
            BY <6>2, PartFacts DEF IsValuePart
          <6> QED
            BY <6>2, <6>3
        <5> QED
          BY <1>6, <4>1, <5>1, <5>2 DEF NestAt
      <4>4. CASE j # L
        <5>1. NestAt(ts, stk[j], f)
          BY <4>2, <4>4
        <5>2. stk[j].st \in Int /\ f.st \in Int /\ callee.st \in Int
          BY <1>1, <1>2, <3>1 DEF CalledFor
        <5>3. stk[j].st <= f.st /\ f.st <= callee.st /\ (stk[j].place \in OwnTable => stk[j].st < f.st)
          BY <1>6, <5>1 DEF NestAt
        <5>4. ASSUME stk[j].st = callee.st PROVE callee.first \in stk[j].i .. EndIn(ts, stk[j].i)
          <6>1. stk[j].st = f.st /\ f.st = callee.st
            BY <5>2, <5>3, <5>4
          <6>2. callee.first = f.i /\ IsValuePart(ts, f.first, f.i)
            BY <1>1, <1>2, <6>1 DEF CalledFor, L
          <6>3. f.i \in 1 .. Len(ts) /\ f.first < f.i /\ EndIn(ts, f.i) \in f.i .. EndIn(ts, f.first)
            BY <6>2, PartFacts DEF IsValuePart
          <6>4. /\ stk[j].i \in 1 .. Len(ts) /\ stk[j].i <= f.first
                /\ EndIn(ts, f.first) \in Nat /\ EndIn(ts, stk[j].i) \in Nat
                /\ EndIn(ts, f.first) <= EndIn(ts, stk[j].i)
            <7>1. j \in 1 .. Len(stk) - 1
              BY <1>1, <3>1, <4>4 DEF L
            <7> QED
              BY <6>1, <7>1, LowerCall
          <6>5. f.i <= EndIn(ts, f.first)
            BY <6>3, <6>4
          <6>6. stk[j].i \in Nat /\ f.first \in Nat /\ f.i \in Nat
            BY <6>3, <6>4, PositionNat, Zenon
          <6>7. f.i \in stk[j].i .. EndIn(ts, stk[j].i)
            BY <6>3, <6>4, <6>5, <6>6, BetweenAll, Zenon
          <6> QED
            BY <6>2, <6>7
        <5>5. stk[j].st <= callee.st /\ (stk[j].place \in OwnTable => stk[j].st < callee.st)
          BY <5>2, <5>3
        <5> QED
          BY <3>1, <4>1, <5>4, <5>5 DEF NestAt
      <4> QED
        BY <4>3, <4>4
    <3> QED
      BY <1>4, <3>2, <3>3
  <2> QED
    BY <1>1, <2>1, <2>2 DEF Linked
<1>8. Pending(ts, tabs, stk2)
  <2>1. SUFFICES ASSUME NEW k \in 1 .. L + 1, NEW v \in Fields(ts, tabs[stk2[k].st].of),
                        stk2[k].first \in v .. EndIn(ts, v)
                 PROVE  \E j \in 1 .. k - 1 : stk2[j].st = stk2[k].st /\ stk2[j].place = "again" /\ stk2[j].i = v
    BY <1>1 DEF Pending
  <2>2. CASE k \in 1 .. L
    <3>1. PICK j \in 1 .. k - 1 : stk[j].st = stk[k].st /\ stk[j].place = "again" /\ stk[j].i = v
      BY <1>1, <1>3, <2>1, <2>2 DEF Pending, L
    <3>2. stk2[j] = stk[j] /\ stk2[k] = stk[k]
      BY <1>1, <2>2, <3>1
    <3> QED
      BY <3>1, <3>2
  <2>3. CASE k = L + 1
    <3>1. stk2[k] = callee /\ k - 1 = L
      BY <1>1, <2>3
    <3>2. tabs[callee.st].of \in 1 .. Len(ts)
      BY DEF Named
    <3>3. v \in 1 .. Len(ts) /\ tabs[callee.st].of < v /\ EndIn(ts, v) \in Int
      BY <2>1, <3>1, <3>2, FieldFacts
    <3>4. CASE f.place \in OwnTable
      BY <1>6, <2>1, <3>1, <3>2, <3>3, <3>4
    <3>5. CASE f.place = "again"
      <4>1. callee.st = f.st /\ callee.first = f.i /\ IsValuePart(ts, f.first, f.i)
        BY <3>5 DEF CalledFor, OwnTable
      <4>2. CASE v = f.i
        BY <1>1, <3>1, <3>5, <4>1, <4>2
      <4>3. CASE v # f.i
        <5>1. f.i \in PartsOf(ts, f.first)
          BY <4>1 DEF IsValuePart
        <5>2. f.i \in 1 .. Len(ts) /\ f.first < f.i /\ EndIn(ts, f.i) \in f.i .. EndIn(ts, f.first)
          BY <5>1, PartFacts
        <5>3. v < f.i /\ f.i <= EndIn(ts, v)
          BY <2>1, <3>1, <3>3, <4>1, <4>3, <5>2
        <5>4. ~(f.first < v)
          <6>1. SUFFICES ASSUME f.first < v PROVE FALSE
            OBVIOUS
          <6>2. EndIn(ts, f.first) \in Int
            BY TokenFacts
          <6>3. v \in InsideOf(ts, f.first)
            <7>1. v <= EndIn(ts, f.first)
              BY <3>3, <5>2, <5>3, <6>2
            <7> QED
              BY <3>3, <5>2, <6>1, <6>2, <7>1 DEF InsideOf
          <6>4. EndIn(ts, v) < f.i
            BY <5>1, <5>3, <6>3 DEF PartsOf
          <6> QED
            BY <3>3, <5>2, <5>3, <6>4
        <5>5. f.first \in v .. EndIn(ts, v)
          BY <3>3, <5>2, <5>3, <5>4
        <5>6. PICK j \in 1 .. L - 1 : stk[j].st = f.st /\ stk[j].place = "again" /\ stk[j].i = v
          BY <1>1, <1>3, <2>1, <3>1, <4>1, <5>5 DEF Pending, L
        <5>7. j \in 1 .. k - 1 /\ stk2[j] = stk[j]
          BY <1>1, <3>1, <5>6
        <5> QED
          BY <3>1, <4>1, <5>6, <5>7
      <4> QED
        BY <4>2, <4>3
    <3> QED
      BY <1>6, <3>4, <3>5
  <2> QED
    BY <1>4, <2>2, <2>3
<1> QED
  BY <1>5, <1>7, <1>8 DEF CallsNamed

\* What a call is past that lower calls for its table are within.
LEMMA LowerPast ==
    ASSUME NEW ts, TokensOK(ts), NEW tabs, NEW nx, NEW stk, HaveTables(tabs, stk), Len(tabs) \in Nat,
           CallsNamed(ts, tabs, nx, stk), NEW f, f = stk[Len(stk)], f.first \in 1 .. Len(ts),
           NEW v \in f.first + 1 .. EndIn(ts, f.first),
           NEW j \in 1 .. Len(stk) - 1, stk[j].st = f.st
    PROVE  Past(ts, stk[j], v) /\ Began(ts, stk[j], v)
<1>1. /\ stk[j].place = "again" /\ stk[j].i \in 1 .. Len(ts) /\ stk[j].i <= f.first
      /\ EndIn(ts, f.first) \in Nat /\ EndIn(ts, stk[j].i) \in Nat
      /\ EndIn(ts, f.first) <= EndIn(ts, stk[j].i)
  BY LowerCall
<1>2. Cur(ts, stk[j]) = EndIn(ts, stk[j].i) + 1
  BY <1>1 DEF Cur
<1> QED
  BY <1>1, <1>2 DEF Past, Began

\* A field that is mapped is wholly in front of the part that the call on top is
\* at, if it begins there.
LEMMA PastWholly ==
    ASSUME NEW ts, TokensOK(ts), NEW tabs, NEW nx, NEW stk, HaveTables(tabs, stk), Len(tabs) \in Nat,
           CallsNamed(ts, tabs, nx, stk), NEW f, f = stk[Len(stk)], f.first \in 1 .. Len(ts),
           NEW v \in Fields(ts, tabs[f.st].of), AllPast(ts, stk, f.st, v),
           NEW p \in PartsOf(ts, f.first), v < p
    PROVE  EndIn(ts, v) < p
<1>1. Len(stk) \in Nat /\ Len(stk) > 0 /\ Len(stk) \in 1 .. Len(stk) /\ f.st \in 1 .. Len(tabs)
  BY ListFacts DEF HaveTables
<1>2. tabs[f.st].of \in 1 .. Len(ts)
  BY <1>1 DEF CallsNamed, Named
<1>3. v \in 1 .. Len(ts) /\ EndIn(ts, v) \in Int /\ EndIn(ts, f.first) \in Int
  <2>1. v \in 1 .. Len(ts) /\ EndIn(ts, v) \in v .. EndIn(ts, tabs[f.st].of)
    BY <1>2, FieldFacts
  <2>2. EndIn(ts, f.first) \in f.first .. Len(ts)
    BY TokenFacts
  <2> QED
    BY <2>1, <2>2
<1>4. p \in 1 .. Len(ts) /\ f.first < p /\ EndIn(ts, p) \in p .. EndIn(ts, f.first)
  BY PartFacts
<1>5. SUFFICES ASSUME p <= EndIn(ts, v) PROVE FALSE
  BY <1>3, <1>4
<1>6. ~(f.first < v)
  <2>1. SUFFICES ASSUME f.first < v PROVE FALSE
    OBVIOUS
  <2>2. v \in InsideOf(ts, f.first)
    BY <1>3, <1>4, <2>1 DEF InsideOf
  <2>3. EndIn(ts, v) < p
    BY <2>2 DEF PartsOf
  <2> QED
    BY <1>3, <1>4, <1>5, <2>3
<1>7. f.first \in v .. EndIn(ts, v)
  BY <1>3, <1>4, <1>5, <1>6
<1>8. PICK j \in 1 .. Len(stk) - 1 : stk[j].st = f.st /\ stk[j].place = "again" /\ stk[j].i = v
  BY <1>1, <1>7 DEF CallsNamed, Pending
<1>9. Past(ts, stk[j], v)
  BY <1>1, <1>8 DEF AllPast
<1> QED
  BY <1>8, <1>9 DEF Past

\* Between the calls of stk and those of stk2, the fields U of the table st are
\* mapped, and W begun.
Advances(ts, tabs, stk, stk2, st, U, W) ==
    \A t \in 1 .. Len(tabs) : \A v \in Fields(ts, tabs[t].of) :
        /\ AllPast(ts, stk2, t, v) <=> AllPast(ts, stk, t, v) \/ (t = st /\ v \in U)
        /\ AllBegan(ts, stk2, t, v) <=> AllBegan(ts, stk, t, v) \/ (t = st /\ v \in W)

\* The call on top moved on, from f, and maybe made another.
TopPast(ts, stk2, l, v, st) == \A k \in l .. Len(stk2) : stk2[k].st = st => Past(ts, stk2[k], v)
TopBegan(ts, stk2, l, v, st) == \A k \in l .. Len(stk2) : stk2[k].st = st => Began(ts, stk2[k], v)

LEMMA AdvanceTop ==
    ASSUME NEW ts, TokensOK(ts), NEW tabs, NEW nx, NEW stk, HaveTables(tabs, stk), Len(tabs) \in Nat,
           CallsNamed(ts, tabs, nx, stk), NEW f, f = stk[Len(stk)], f.first \in 1 .. Len(ts),
           NEW U \in SUBSET (f.first + 1 .. EndIn(ts, f.first)), NEW W \in SUBSET (f.first + 1 .. EndIn(ts, f.first)),
           NEW stk2, Len(stk2) \in Nat, Len(stk) <= Len(stk2),
           \A k \in 1 .. Len(stk) - 1 : stk2[k] = stk[k],
           \A k \in Len(stk) .. Len(stk2) : stk2[k].st = f.st \/ stk2[k].st = Len(tabs) + 1,
           \A v \in Fields(ts, tabs[f.st].of) :
                /\ TopPast(ts, stk2, Len(stk), v, f.st) <=> Past(ts, f, v) \/ v \in U
                /\ TopBegan(ts, stk2, Len(stk), v, f.st) <=> Began(ts, f, v) \/ v \in W
    PROVE  Advances(ts, tabs, stk, stk2, f.st, U, W)
<1> DEFINE L == Len(stk)
<1>1. L \in Nat /\ L > 0 /\ f = stk[L] /\ f.st \in 1 .. Len(tabs)
  BY ListFacts DEF HaveTables
<1>2. /\ \A k : k \in 1 .. Len(stk2) <=> k \in 1 .. L - 1 \/ k \in L .. Len(stk2)
      /\ \A k : k \in 1 .. L <=> k \in 1 .. L - 1 \/ k = L
  BY <1>1
<1>3. SUFFICES ASSUME NEW t \in 1 .. Len(tabs), NEW v \in Fields(ts, tabs[t].of)
               PROVE  /\ AllPast(ts, stk2, t, v) <=> AllPast(ts, stk, t, v) \/ (t = f.st /\ v \in U)
                      /\ AllBegan(ts, stk2, t, v) <=> AllBegan(ts, stk, t, v) \/ (t = f.st /\ v \in W)
  BY DEF Advances
<1>4. CASE t # f.st
  <2>1. ASSUME NEW k \in L .. Len(stk2) PROVE stk2[k].st # t
    <3>1. stk2[k].st = f.st \/ stk2[k].st = Len(tabs) + 1
      OBVIOUS
    <3>2. t # Len(tabs) + 1
      BY <1>3
    <3> QED
      BY <1>4, <3>1, <3>2
  <2> QED
    BY <1>1, <1>2, <1>4, <2>1 DEF AllPast, AllBegan
<1>5. CASE t = f.st
  <2> DEFINE LowPast == \A k \in 1 .. L - 1 : stk[k].st = t => Past(ts, stk[k], v)
             LowBegan == \A k \in 1 .. L - 1 : stk[k].st = t => Began(ts, stk[k], v)
  <2>1. /\ AllPast(ts, stk, t, v) <=> LowPast /\ Past(ts, f, v)
        /\ AllBegan(ts, stk, t, v) <=> LowBegan /\ Began(ts, f, v)
    BY <1>1, <1>2, <1>5 DEF AllPast, AllBegan
  <2>2. /\ AllPast(ts, stk2, t, v) <=> LowPast /\ TopPast(ts, stk2, L, v, t)
        /\ AllBegan(ts, stk2, t, v) <=> LowBegan /\ TopBegan(ts, stk2, L, v, t)
    BY <1>1, <1>2 DEF AllPast, AllBegan, TopPast, TopBegan
  <2>3. v \in U \/ v \in W => LowPast /\ LowBegan
    BY <1>5, LowerPast
  <2>4. /\ TopPast(ts, stk2, L, v, t) <=> Past(ts, f, v) \/ v \in U
        /\ TopBegan(ts, stk2, L, v, t) <=> Began(ts, f, v) \/ v \in W
    BY <1>5
  <2> QED
    BY <1>5, <2>1, <2>2, <2>3, <2>4
<1> QED
  BY <1>4, <1>5

\* A call that returns has come past all the one that made it waits for.
LEMMA AdvanceReturn ==
    ASSUME NEW ts, TokensOK(ts), NEW tabs, NEW nx, NEW stk, HaveTables(tabs, stk), Len(tabs) \in Nat,
           CallsNamed(ts, tabs, nx, stk), NEW f, f = stk[Len(stk)], f.first \in 1 .. Len(ts),
           f.place = "name", f.i >= EndIn(ts, f.first),
           NEW stk2, Len(stk2) = Len(stk) - 1, \A k \in 1 .. Len(stk) - 1 : stk2[k] = stk[k]
    PROVE  Advances(ts, tabs, stk, stk2, f.st, {}, {})
<1> DEFINE L == Len(stk)
<1>1. L \in Nat /\ L > 0 /\ f = stk[L] /\ L \in 1 .. L /\ f.st \in 1 .. Len(tabs)
  BY ListFacts DEF HaveTables
<1>2. \A k : k \in 1 .. L <=> k \in 1 .. L - 1 \/ k = L
  BY <1>1
<1>3. tabs[f.st].of \in 1 .. Len(ts)
  BY <1>1 DEF CallsNamed, Named
<1>4. SUFFICES ASSUME NEW t \in 1 .. Len(tabs), NEW v \in Fields(ts, tabs[t].of)
               PROVE  /\ AllPast(ts, stk2, t, v) <=> AllPast(ts, stk, t, v)
                      /\ AllBegan(ts, stk2, t, v) <=> AllBegan(ts, stk, t, v)
  BY DEF Advances
<1>5. CASE t # f.st
  BY <1>1, <1>2, <1>5 DEF AllPast, AllBegan
<1>6. CASE t = f.st
  <2>1. /\ v \in 1 .. Len(ts) /\ v <= EndIn(ts, tabs[f.st].of)
        /\ EndIn(ts, f.first) \in Nat /\ EndIn(ts, tabs[f.st].of) \in Nat
    <3>1. v \in 1 .. Len(ts) /\ EndIn(ts, v) \in v .. EndIn(ts, tabs[f.st].of)
      BY <1>3, <1>6, FieldFacts
    <3>2. EndIn(ts, f.first) \in f.first .. Len(ts) /\ EndIn(ts, tabs[f.st].of) \in tabs[f.st].of .. Len(ts)
      BY <1>3, TokenFacts
    <3> QED
      BY <1>3, <3>1, <3>2
  <2>2. Past(ts, f, v) /\ Began(ts, f, v) <=> v <= EndIn(ts, f.first)
    BY <2>1 DEF Past, Began, Cur
  <2>3. Past(ts, f, v) <=> Began(ts, f, v)
    BY DEF Past
  <2>4. CASE \E j \in 1 .. L - 1 : stk[j].st = t
    <3>1. PICK j \in 1 .. L - 1 : stk[j].st = t
      BY <2>4
    <3>2. j + 1 \in 1 .. L
      BY <1>1, <3>1
    <3>3. \A k \in 1 .. L - 1 : stk[k].st = t =>
                /\ stk[k].place = "again" /\ stk[k].i <= f.first
                /\ EndIn(ts, f.first) <= EndIn(ts, stk[k].i)
      BY <1>6, LowerCall
    <3>4. L - 1 \in 1 .. L - 1 /\ stk[L - 1].st = t
      <4>1. L - 1 \in 1 .. L - 1 /\ L - 1 \in 1 .. L /\ j \in 1 .. L /\ (j = L - 1 \/ j < L - 1) /\ L - 1 < L
        BY <1>1, <3>1
      <4>2. NestAt(ts, stk[L - 1], f)
        BY <1>1, <4>1 DEF CallsNamed, Linked
      <4>3. j = L - 1 \/ NestAt(ts, stk[j], stk[L - 1])
        BY <1>1, <4>1 DEF CallsNamed, Linked
      <4>4. stk[L - 1].st \in Int /\ f.st \in Int
        BY <1>1, <4>1 DEF HaveTables
      <4>5. stk[L - 1].st <= f.st /\ f.st <= stk[L - 1].st
        BY <1>6, <3>1, <4>2, <4>3, <4>4 DEF NestAt
      <4> QED
        BY <1>6, <4>1, <4>4, <4>5
    <3>5. f.first = stk[L - 1].i
      <4>1. L - 1 \in 1 .. L /\ L - 1 < L /\ (L - 1) + 1 = L
        BY <1>1, <3>4
      <4>2. LinkAt(tabs, stk, L - 1)
        BY <4>1 DEF CallsNamed, Linked
      <4> QED
        BY <1>1, <3>3, <3>4, <4>1, <4>2 DEF LinkAt
    <3>6. Cur(ts, stk[L - 1]) = EndIn(ts, f.first) + 1
      BY <3>3, <3>4, <3>5 DEF Cur
    <3>7. /\ Past(ts, stk[L - 1], v) => v <= EndIn(ts, f.first)
          /\ Began(ts, stk[L - 1], v) => v <= EndIn(ts, f.first)
      BY <2>1, <3>6 DEF Past, Began
    <3> QED
      BY <1>1, <1>2, <1>6, <2>2, <2>3, <3>4, <3>7 DEF AllPast, AllBegan
  <2>5. CASE \A j \in 1 .. L - 1 : stk[j].st # t
    <3>1. L = 1 \/ stk[L - 1].place \in OwnTable
      <4>1. SUFFICES ASSUME L # 1 PROVE stk[L - 1].place \in OwnTable
        OBVIOUS
      <4>2. L - 1 \in 1 .. L /\ L - 1 < L /\ (L - 1) + 1 = L /\ L - 1 \in 1 .. L - 1
        BY <1>1, <4>1
      <4>3. LinkAt(tabs, stk, L - 1)
        BY <4>2 DEF CallsNamed, Linked
      <4> QED
        BY <1>1, <1>6, <2>5, <4>2, <4>3 DEF LinkAt
    <3>2. f.first = tabs[f.st].of
      <4>1. LinkAt(tabs, stk, L)
        BY <1>1 DEF CallsNamed, Linked
      <4> QED
        BY <1>1, <3>1, <4>1 DEF LinkAt
    <3> QED
      BY <1>1, <1>2, <1>6, <2>1, <2>2, <2>3, <2>5, <3>2 DEF AllPast, AllBegan
  <2> QED
    BY <2>4, <2>5
<1> QED
  BY <1>5, <1>6

\* What the fields are that a call has come to: behind a value, and at the start
\* of an object.
LEMMA FieldsBehind ==
    ASSUME NEW ts, TokensOK(ts), NEW r \in 1 .. Len(ts), NEW o \in 1 .. Len(ts), NEW p, IsValuePart(ts, o, p),
           NEW q \in Int, q = EndIn(ts, p) + 1 \/ (EndIn(ts, p) = EndIn(ts, o) /\ q >= EndIn(ts, o)),
           NEW v \in Fields(ts, r)
    PROVE  v < (IF q >= EndIn(ts, o) THEN EndIn(ts, o) + 1 ELSE q) <=> v <= EndIn(ts, p)
<1>1. p \in 1 .. Len(ts) /\ EndIn(ts, p) \in p .. EndIn(ts, o) /\ EndIn(ts, p) \in Nat /\ EndIn(ts, o) \in Nat
  <2>1. p \in PartsOf(ts, o)
    BY DEF IsValuePart
  <2>2. p \in 1 .. Len(ts) /\ EndIn(ts, p) \in p .. EndIn(ts, o)
    BY <2>1, PartFacts
  <2>3. EndIn(ts, o) \in o .. Len(ts)
    BY TokenFacts
  <2> QED
    BY <2>2, <2>3
<1>2. v \in 1 .. Len(ts)
  BY FieldFacts
<1>3. CASE EndIn(ts, p) = EndIn(ts, o)
  BY <1>1, <1>2, <1>3
<1>4. CASE q = EndIn(ts, p) + 1 /\ EndIn(ts, p) < EndIn(ts, o)
  <2>1. q >= EndIn(ts, o) => q = EndIn(ts, o) /\ v # q
    <3>1. SUFFICES ASSUME q >= EndIn(ts, o) PROVE q = EndIn(ts, o) /\ v # q
      OBVIOUS
    <3>2. q = EndIn(ts, o)
      BY <1>1, <1>4, <3>1
    <3>3. IsNamePart(ts, o, q)
      <4> DEFINE n == Cardinality(Before(ts, o, p))
      <4>1. n \in Nat /\ n % 2 = 1 /\ IsElement(ts, o, q, n + 1)
        BY <1>1, <1>4, PartNext DEF IsValuePart
      <4> HIDE DEF n
      <4>2. (n + 1) % 2 = 0
        BY <4>1
      <4> QED
        BY <4>1, <4>2 DEF IsElement, IsNamePart
    <3> QED
      BY <3>2, <3>3, NameIsNoField
  <2> QED
    BY <1>1, <1>2, <1>4, <2>1
<1> QED
  BY <1>1, <1>3, <1>4

LEMMA FieldsAtStart ==
    ASSUME NEW ts, TokensOK(ts), NEW r \in 1 .. Len(ts), NEW o \in 1 .. Len(ts), NEW t, NEW x, NEW prefix,
           NEW v \in Fields(ts, r)
    PROVE  /\ Past(ts, Frame(t, x, prefix, o), v) <=> v <= o
           /\ Began(ts, Frame(t, x, prefix, o), v) <=> v <= o
<1>1. v \in 1 .. Len(ts) /\ EndIn(ts, o) \in o .. Len(ts) /\ Len(ts) \in Nat
  BY FieldFacts, TokenFacts, ListFacts DEF TokensOK
<1>2. Cur(ts, Frame(t, x, prefix, o)) = IF o + 1 >= EndIn(ts, o) THEN EndIn(ts, o) + 1 ELSE o + 1
  BY DEF Frame, Cur
<1>3. EndIn(ts, o) = o + 1 => v # o + 1
  BY <1>1, PartFirst, NameIsNoField
<1>4. Frame(t, x, prefix, o).place = "name"
  BY DEF Frame
<1> QED
  BY <1>1, <1>2, <1>3, <1>4 DEF Past, Began

-----------------------------------------------------------------------------
(* What the steps do to calls.                                             *)

Parsing ==
    /\ Handled /\ phase = "parse" /\ CallsOK /\ SafeInv
    /\ IsList(texts) /\ CallsNamed(toks, tables, Len(texts), stack)

LEMMA ParsingFacts ==
    ASSUME Parsing
    PROVE  /\ HaveTables(tables, stack) /\ IsList(stack) /\ Len(stack) \in Nat \ {0} /\ Top = stack[Len(stack)]
           /\ IsList(tables) /\ Len(tables) \in Nat /\ Len(texts) \in Nat /\ TokensOK(toks)
           /\ CallsNamed(toks, tables, Len(texts), stack)
           /\ Top.st \in 1 .. Len(tables) /\ tables[Top.st].of \in 1 .. Len(toks)
           /\ Top.first \in 1 .. Len(toks) /\ toks[Top.first].type = "OBJECT"
           /\ FrameOK(toks, Top) /\ IsFrame(Top) /\ PositionOK(toks, Top)
           /\ Named(toks, tables[Top.st].of, Len(texts), Top)
           /\ LastTok(Top) = EndIn(toks, Top.first)
           /\ \A t \in 1 .. Len(tables) : TableOK(tables[t])
<1>1. /\ Handled /\ phase = "parse" /\ CallsOK /\ SafeInv
      /\ IsList(texts) /\ CallsNamed(toks, tables, Len(texts), stack)
  BY DEF Parsing
<1>2. /\ IsList(tables) /\ Len(tables) \in Nat /\ Walk(toks, Len(tables), stack)
      /\ \A t \in 1 .. Len(tables) : TableOK(tables[t])
  BY <1>1, SafeFacts
<1>3. /\ Top.st \in 1 .. Len(tables) /\ PositionOK(toks, Top) /\ Top.first \in 1 .. Len(toks)
      /\ EndIn(toks, Top.first) = LastTok(Top) /\ FrameOK(toks, Top) /\ IsFrame(Top)
  BY <1>1, <1>2, TopStands
<1>4. /\ IsList(stack) /\ Len(stack) \in Nat \ {0} /\ Top = stack[Len(stack)] /\ TokensOK(toks)
  BY <1>1, TopFrame
<1>5. HaveTables(tables, stack)
  BY <1>2, <1>4 DEF HaveTables, Walk, Stands
<1>6. Named(toks, tables[Top.st].of, Len(texts), Top)
  <2>1. Len(stack) \in 1 .. Len(stack)
    BY <1>4
  <2> QED
    BY <1>1, <1>4, <2>1 DEF CallsNamed
<1>7. tables[Top.st].of \in 1 .. Len(toks) /\ toks[Top.first].type = "OBJECT"
  BY <1>3, <1>6 DEF Named, PositionOK
<1> QED
  BY <1>1, <1>2, <1>3, <1>4, <1>5, <1>6, <1>7, ListFacts

\* A step after which the calls have their names still, and the fields U of the
\* table in use were mapped, and W begun.
StepCalls(U, W) ==
    /\ CallsNamed(toks, tables', Len(texts'), stack')
    /\ Advances(toks, tables, stack, stack', Top.st, U, W)
Grows == Grown(tables, Len(texts), tables', Len(texts'))
FieldsOfTop == Fields(toks, tables[Top.st].of)
PartsAhead == Top.first + 1 .. EndIn(toks, Top.first)

LEMMA SetStep ==
    ASSUME Parsing, Grows, NEW g, g.st = Top.st, g.first = Top.first, stack' = SetTop(g),
           Named(toks, tables[Top.st].of, Len(texts'), g),
           NEW U \in SUBSET PartsAhead, NEW W \in SUBSET PartsAhead,
           \A v \in FieldsOfTop :
                /\ Past(toks, g, v) <=> Past(toks, Top, v) \/ v \in U
                /\ Began(toks, g, v) <=> Began(toks, Top, v) \/ v \in W
    PROVE  StepCalls(U, W)
<1> DEFINE f == Top
           L == Len(stack)
<1>1. /\ HaveTables(tables, stack) /\ IsList(stack) /\ L \in Nat \ {0} /\ f = stack[L]
      /\ Len(tables) \in Nat /\ TokensOK(toks) /\ CallsNamed(toks, tables, Len(texts), stack)
      /\ f.first \in 1 .. Len(toks)
  BY ParsingFacts
<1>2. L \in 1 .. L
  BY <1>1
<1>3. IsSetAt(stack, L, g, stack')
  BY <1>1, <1>2, ListSet DEF SetTop
<1>4. CallsNamed(toks, tables', Len(texts'), stack')
  BY <1>1, <1>3, NamedSet DEF Grows
<1>5. /\ Len(stack') = L /\ stack'[L] = g /\ \A k \in 1 .. L - 1 : stack'[k] = stack[k]
      /\ \A k : k \in L .. Len(stack') <=> k = L
  BY <1>1, <1>3 DEF IsSetAt
<1>6. \A v \in Fields(toks, tables[f.st].of) :
        /\ TopPast(toks, stack', L, v, f.st) <=> Past(toks, f, v) \/ v \in U
        /\ TopBegan(toks, stack', L, v, f.st) <=> Began(toks, f, v) \/ v \in W
  BY <1>5 DEF TopPast, TopBegan, FieldsOfTop
<1>7. Len(stack') \in Nat /\ Len(stack) <= Len(stack')
  BY <1>1, <1>5
<1>8. \A k \in Len(stack) .. Len(stack') : stack'[k].st = f.st \/ stack'[k].st = Len(tables) + 1
  BY <1>5
<1> HIDE DEF f, L
<1>9. Advances(toks, tables, stack, stack', f.st, U, W)
  BY <1>1, <1>5, <1>6, <1>7, <1>8, AdvanceTop DEF PartsAhead, f, L
<1> QED
  BY <1>4, <1>9 DEF StepCalls, f

LEMMA CallStep ==
    ASSUME Parsing, Grows, NEW g, g.st = Top.st, g.first = Top.first, NEW callee, stack' = Call(g, callee),
           Named(toks, tables[Top.st].of, Len(texts'), g),
           callee.first \in 1 .. Len(toks), Named(toks, tables'[callee.st].of, Len(texts'), callee),
           \/ /\ g.place = "again" /\ callee.st = Top.st /\ callee.first = g.i
              /\ IsValuePart(toks, Top.first, g.i)
           \/ /\ g.place \in OwnTable /\ Len(tables') = Len(tables) + 1 /\ callee.st = Len(tables')
              /\ callee.first = tables'[callee.st].of,
           NEW U \in SUBSET PartsAhead, NEW W \in SUBSET PartsAhead,
           \A v \in FieldsOfTop :
                /\ Past(toks, g, v) /\ (callee.st = Top.st => Past(toks, callee, v))
                        <=> Past(toks, Top, v) \/ v \in U
                /\ Began(toks, g, v) /\ (callee.st = Top.st => Began(toks, callee, v))
                        <=> Began(toks, Top, v) \/ v \in W
    PROVE  StepCalls(U, W)
<1> DEFINE f == Top
           L == Len(stack)
           stk == SetTop(g)
<1>1. /\ HaveTables(tables, stack) /\ IsList(stack) /\ L \in Nat \ {0} /\ f = stack[L]
      /\ Len(tables) \in Nat /\ TokensOK(toks) /\ CallsNamed(toks, tables, Len(texts), stack)
      /\ f.first \in 1 .. Len(toks) /\ f.st \in 1 .. Len(tables)
  BY ParsingFacts
<1>2. L \in 1 .. L
  BY <1>1
<1>3. IsSetAt(stack, L, g, stk)
  BY <1>1, <1>2, ListSet DEF SetTop
<1>4. CallsNamed(toks, tables', Len(texts'), stk)
  BY <1>1, <1>3, NamedSet DEF Grows
<1>5. IsAppended(stk, callee, stack')
  BY <1>3, ListAppend DEF Call, IsSetAt
<1>6. /\ IsList(stk) /\ Len(stk) = L /\ stk[L] = g /\ \A k \in 1 .. L : stk[k].st = stack[k].st
      /\ \A k \in 1 .. L - 1 : stk[k] = stack[k]
  <2>1. /\ IsList(stk) /\ Len(stk) = L /\ stk[L] = g /\ \A k \in 1 .. L : k # L => stk[k] = stack[k]
    BY <1>3 DEF IsSetAt
  <2>2. g.st = stack[L].st
    BY <1>1
  <2> HIDE DEF stk
  <2>3. \A k \in 1 .. L - 1 : k \in 1 .. L /\ k # L
    BY <1>1
  <2> QED
    BY <2>1, <2>2, <2>3
<1> HIDE DEF stk
<1>7. Len(tables') \in Nat /\ Len(tables) <= Len(tables')
  BY DEF Grows, Grown
<1>8. HaveTables(tables', stk)
  <2>1. \A k \in 1 .. L : stk[k].st \in 1 .. Len(tables)
    BY <1>1, <1>6 DEF HaveTables
  <2> HIDE DEF L
  <2> QED
    BY <1>1, <1>6, <1>7, <2>1 DEF HaveTables
<1>9. CalledFor(toks, tables', stk, g, callee)
  <2>1. Len(tables') = Len(tables) + 1 => \A k \in 1 .. L : stk[k].st < Len(tables')
    BY <1>1, <1>6 DEF HaveTables
  <2> QED
    BY <1>6, <2>1 DEF CalledFor
<1>10. CallsNamed(toks, tables', Len(texts'), stack')
  BY <1>1, <1>4, <1>5, <1>6, <1>7, <1>8, <1>9, NamedCall
<1>11. /\ Len(stack') = L + 1 /\ stack'[L] = g /\ stack'[L + 1] = callee
       /\ \A k \in 1 .. L - 1 : stack'[k] = stack[k]
       /\ \A k : k \in L .. Len(stack') <=> k \in {L, L + 1}
  BY <1>1, <1>2, <1>5, <1>6 DEF IsAppended
<1>12. \A v \in Fields(toks, tables[f.st].of) :
        /\ TopPast(toks, stack', L, v, f.st) <=> Past(toks, f, v) \/ v \in U
        /\ TopBegan(toks, stack', L, v, f.st) <=> Began(toks, f, v) \/ v \in W
  <2>1. \A v : /\ TopPast(toks, stack', L, v, f.st) <=>
                    Past(toks, g, v) /\ (callee.st = f.st => Past(toks, callee, v))
               /\ TopBegan(toks, stack', L, v, f.st) <=>
                    Began(toks, g, v) /\ (callee.st = f.st => Began(toks, callee, v))
    BY <1>11 DEF TopPast, TopBegan
  <2> QED
    BY <2>1 DEF FieldsOfTop
<1>13. Len(stack') \in Nat /\ Len(stack) <= Len(stack')
  BY <1>1, <1>11
<1>14. \A k \in Len(stack) .. Len(stack') : stack'[k].st = f.st \/ stack'[k].st = Len(tables) + 1
  BY <1>11
<1> HIDE DEF f, L
<1>15. Advances(toks, tables, stack, stack', f.st, U, W)
  BY <1>1, <1>11, <1>12, <1>13, <1>14, AdvanceTop DEF PartsAhead, f, L
<1> QED
  BY <1>10, <1>15 DEF StepCalls, f

\* What is behind where a call stands.
LEMMA InArrayFields ==
    ASSUME NEW ts, TokensOK(ts), NEW r \in 1 .. Len(ts), NEW f, NEW a, InArray(ts, r, f, a), NEW v \in Fields(ts, r)
    PROVE  /\ v < f.i <=> v <= a
           /\ v <= a <=> v <= EndIn(ts, a)
           /\ a \in 1 .. Len(ts) /\ EndIn(ts, a) \in a .. EndIn(ts, r) /\ EndIn(ts, a) \in Nat
<1>1. a \in Fields(ts, r) /\ f.i \in a + 1 .. EndIn(ts, a) + 1 /\ ts[a].type = "ARRAY"
  BY DEF InArray, ArrayAt
<1>2. a \in 1 .. Len(ts) /\ r < a /\ EndIn(ts, a) \in a .. EndIn(ts, r)
  BY <1>1, FieldFacts
<1>3. v \in 1 .. Len(ts)
  BY FieldFacts
<1>4. v \notin InsideOf(ts, a)
  BY <1>1, <1>2, FieldFacts
<1>5. ~(a + 1 <= v /\ v <= EndIn(ts, a))
  BY <1>2, <1>3, <1>4 DEF InsideOf
<1> QED
  BY <1>1, <1>2, <1>3, <1>5

LEMMA NameCalls ==
    ASSUME Parsing, Grows, Name
    PROVE  StepCalls({}, {})
<1> DEFINE f == Top
           g == [f EXCEPT !.name = Path(f.prefix, toks[f.i].text), !.i = @ + 1, !.place = "value"]
           r == tables[f.st].of
<1>1. /\ f.place = "name" /\ f.i < LastTok(f) /\ toks[f.i].type = "STRING" /\ stack' = SetTop(g)
  BY DEF Name, At
<1>2. /\ TokensOK(toks) /\ r \in 1 .. Len(toks) /\ f.first \in 1 .. Len(toks) /\ IsFrame(f) /\ f.i \in Nat
      /\ LastTok(f) = EndIn(toks, f.first) /\ toks[f.first].type = "OBJECT"
      /\ PositionOK(toks, f) /\ Named(toks, r, Len(texts), f)
  BY ParsingFacts DEF FrameOK
<1>3. Len(texts) \in Nat /\ Len(texts') \in Nat /\ Len(texts) <= Len(texts')
  BY DEF Grows, Grown
<1> HIDE DEF f
<1>4. /\ g.st = f.st /\ g.first = f.first /\ g.i = f.i + 1 /\ g.place = "value" /\ g.text = f.text
      /\ g.prefix = f.prefix /\ g.name = Path(f.prefix, toks[f.i].text)
  BY <1>2 DEF IsFrame, FrameFields
<1> HIDE DEF g, r
<1>5. EndIn(toks, f.first) \in Nat
  BY <1>2, TokenFacts
<1>6. IsNamePart(toks, f.first, f.i)
  BY <1>1, <1>2, <1>5 DEF PositionOK
<1>7. IsValuePart(toks, f.first, g.i)
  BY <1>1, <1>2, <1>4, <1>6, AfterName
<1>8. FieldOrSelf(toks, r, f.first) /\ f.prefix = PathOf(toks, r, f.first) /\ f.text \in 1 .. Len(texts)
  BY <1>2 DEF Named
<1>9. g.name = PathOf(toks, r, g.i)
  <2>1. PathOf(toks, r, g.i) = Path(PathOf(toks, r, f.first), toks[g.i - 1].text)
    <3>1. \A o, v : FieldOrSelf(toks, r, o) /\ toks[o].type = "OBJECT" /\ IsValuePart(toks, o, v) =>
                        PathOf(toks, r, v) = Path(PathOf(toks, r, o), toks[v - 1].text)
      BY <1>2, PathsJoin
    <3> QED
      BY <1>2, <1>7, <1>8, <3>1, Zenon
  <2>2. g.i - 1 = f.i
    BY <1>2, <1>4
  <2> QED
    BY <1>4, <1>8, <2>1, <2>2
<1>10. Named(toks, r, Len(texts'), g)
  BY <1>2, <1>3, <1>4, <1>8, <1>9 DEF Named
<1>11. ASSUME NEW v \in Fields(toks, r)
       PROVE  /\ Past(toks, g, v) <=> Past(toks, f, v)
              /\ Began(toks, g, v) <=> Began(toks, f, v)
  <2>1. v \in 1 .. Len(toks) /\ v # f.i
    <3>1. v \in 1 .. Len(toks)
      BY <1>2, <1>11, FieldFacts
    <3>2. v # f.i
      BY <1>2, <1>6, <1>11, NameIsNoField
    <3> QED
      BY <3>1, <3>2
  <2>2. Cur(toks, f) = f.i /\ Cur(toks, g) = f.i + 1
    BY <1>1, <1>2, <1>4, <1>5 DEF Cur
  <2> QED
    BY <1>1, <1>2, <1>4, <2>1, <2>2 DEF Past, Began
<1> QED
  BY <1>1, <1>4, <1>10, <1>11, SetStep DEF f, r, FieldsOfTop

\* What is known at a value.
LEMMA AtValue ==
    ASSUME Parsing, NEW f, f = Top, f.place \in {"value", "again", "skip"}, NEW r, r = tables[f.st].of
    PROVE  /\ f.i \in 1 .. Len(toks) /\ f.i \in PartsAhead /\ IsValuePart(toks, f.first, f.i)
           /\ f.i \in Fields(toks, r) /\ f.name = PathOf(toks, r, f.i)
           /\ EndIn(toks, f.i) \in f.i .. EndIn(toks, f.first)
           /\ EndIn(toks, f.i) \in Nat /\ EndIn(toks, f.first) \in Nat
<1>1. /\ TokensOK(toks) /\ r \in 1 .. Len(toks) /\ f.first \in 1 .. Len(toks)
      /\ toks[f.first].type = "OBJECT" /\ PositionOK(toks, f) /\ Named(toks, r, Len(texts), f)
  BY ParsingFacts
<1>2. IsValuePart(toks, f.first, f.i)
  BY <1>1 DEF PositionOK
<1>3. f.i \in 1 .. Len(toks) /\ f.first < f.i /\ EndIn(toks, f.i) \in f.i .. EndIn(toks, f.first)
  BY <1>1, <1>2, PartFacts DEF IsValuePart
<1>4. EndIn(toks, f.first) \in f.first .. Len(toks)
  BY <1>1, TokenFacts
<1>5. f.i \in PartsAhead
  BY <1>1, <1>3, <1>4 DEF PartsAhead
<1>6. f.i \in Fields(toks, r) /\ f.name = PathOf(toks, r, f.i)
  BY <1>1, <1>2, ValueIsField DEF Named
<1> QED
  BY <1>1, <1>2, <1>3, <1>4, <1>5, <1>6

LEMMA ScalarValueCalls ==
    ASSUME Parsing, Grows, ScalarValue
    PROVE  StepCalls({Top.i}, {Top.i})
<1> DEFINE f == Top
           g == [f EXCEPT !.i = @ + 1, !.place = "name"]
           r == tables[f.st].of
<1>1. f.place = "value" /\ toks[f.i].type \in {"STRING", "PRIMITIVE"} /\ stack' = SetTop(g)
  BY DEF ScalarValue, At
<1>2. /\ TokensOK(toks) /\ r \in 1 .. Len(toks) /\ f.first \in 1 .. Len(toks) /\ IsFrame(f)
      /\ Named(toks, r, Len(texts), f)
  BY ParsingFacts
<1>3. /\ f.i \in 1 .. Len(toks) /\ f.i \in PartsAhead /\ IsValuePart(toks, f.first, f.i)
      /\ EndIn(toks, f.first) \in Nat
  BY <1>1, AtValue
<1>4. Len(texts) \in Nat /\ Len(texts') \in Nat /\ Len(texts) <= Len(texts')
  BY DEF Grows, Grown
<1> HIDE DEF f
<1>5. /\ g.st = f.st /\ g.first = f.first /\ g.i = f.i + 1 /\ g.place = "name" /\ g.text = f.text
      /\ g.prefix = f.prefix
  BY <1>2 DEF IsFrame, FrameFields
<1> HIDE DEF g, r
<1>6. Named(toks, r, Len(texts'), g)
  BY <1>2, <1>4, <1>5 DEF Named
<1>7. ASSUME NEW v \in Fields(toks, r)
      PROVE  /\ Past(toks, g, v) <=> Past(toks, f, v) \/ v \in {f.i}
             /\ Began(toks, g, v) <=> Began(toks, f, v) \/ v \in {f.i}
  <2>1. v \in 1 .. Len(toks)
    BY <1>2, <1>7, FieldFacts
  <2>2. EndIn(toks, f.i) = f.i
    BY <1>1, <1>2, <1>3, TokenFacts
  <2>3. v < (IF g.i >= EndIn(toks, f.first) THEN EndIn(toks, f.first) + 1 ELSE g.i) <=> v <= f.i
    BY <1>2, <1>3, <1>5, <1>7, <2>2, FieldsBehind
  <2>4. /\ Cur(toks, g) = IF g.i >= EndIn(toks, f.first) THEN EndIn(toks, f.first) + 1 ELSE g.i
        /\ Cur(toks, f) = f.i
    BY <1>1, <1>5 DEF Cur
  <2>5. f.place # "again" /\ g.place # "again"
    BY <1>1, <1>5
  <2> QED
    BY <1>3, <2>1, <2>3, <2>4, <2>5 DEF Past, Began
<1>8. {f.i} \in SUBSET PartsAhead
  BY <1>3
<1> QED
  BY <1>1, <1>5, <1>6, <1>7, <1>8, SetStep DEF f, r, FieldsOfTop

LEMMA ObjectSkipCalls ==
    ASSUME Parsing, Grows, ObjectSkip
    PROVE  StepCalls({}, {})
<1> DEFINE f == Top
           e == SkipWithin(f, f.i)
           g == [f EXCEPT !.i = e + 1, !.place = "name"]
           r == tables[f.st].of
<1>1. f.place = "skip" /\ stack' = SetTop(g)
  BY DEF ObjectSkip, At
<1>2. /\ TokensOK(toks) /\ r \in 1 .. Len(toks) /\ f.first \in 1 .. Len(toks) /\ IsFrame(f)
      /\ Named(toks, r, Len(texts), f) /\ LastTok(f) = EndIn(toks, f.first)
  BY ParsingFacts
<1>3. /\ f.i \in 1 .. Len(toks) /\ IsValuePart(toks, f.first, f.i)
      /\ EndIn(toks, f.i) \in f.i .. EndIn(toks, f.first) /\ EndIn(toks, f.i) \in Nat
      /\ EndIn(toks, f.first) \in Nat
  BY <1>1, AtValue
<1>4. Len(texts) \in Nat /\ Len(texts') \in Nat /\ Len(texts) <= Len(texts')
  BY DEF Grows, Grown
<1> HIDE DEF f
<1>5. e \in f.i .. EndIn(toks, f.i) /\ (e = EndIn(toks, f.i) \/ e >= LastTok(f) - 1)
  BY <1>2, <1>3, SkipFacts DEF End
<1> HIDE DEF e
<1>6. /\ g.st = f.st /\ g.first = f.first /\ g.i = e + 1 /\ g.place = "name" /\ g.text = f.text
      /\ g.prefix = f.prefix
  BY <1>2 DEF IsFrame, FrameFields
<1> HIDE DEF g, r
<1>7. Named(toks, r, Len(texts'), g)
  BY <1>2, <1>4, <1>6 DEF Named
<1>8. ASSUME NEW v \in Fields(toks, r)
      PROVE  /\ Past(toks, g, v) <=> Past(toks, f, v)
             /\ Began(toks, g, v) <=> Began(toks, f, v)
  <2>1. v \in 1 .. Len(toks)
    BY <1>2, <1>8, FieldFacts
  <2>2. /\ g.i \in Int
        /\ g.i = EndIn(toks, f.i) + 1 \/ (EndIn(toks, f.i) = EndIn(toks, f.first) /\ g.i >= EndIn(toks, f.first))
    BY <1>2, <1>3, <1>5, <1>6
  <2>3. v < (IF g.i >= EndIn(toks, f.first) THEN EndIn(toks, f.first) + 1 ELSE g.i) <=> v <= EndIn(toks, f.i)
    BY <1>2, <1>3, <1>8, <2>2, FieldsBehind
  <2>4. /\ Cur(toks, g) = IF g.i >= EndIn(toks, f.first) THEN EndIn(toks, f.first) + 1 ELSE g.i
        /\ Cur(toks, f) = EndIn(toks, f.i) + 1
    BY <1>1, <1>6 DEF Cur
  <2>5. f.place # "again" /\ g.place # "again"
    BY <1>1, <1>6
  <2> QED
    BY <1>3, <2>1, <2>3, <2>4, <2>5 DEF Past, Began
<1> QED
  BY <1>1, <1>6, <1>7, <1>8, SetStep DEF f, r, FieldsOfTop

LEMMA ArrayValueCalls ==
    ASSUME Parsing, Grows, ArrayValue
    PROVE  StepCalls({Top.i}, {Top.i})
<1> DEFINE f == Top
           g == [f EXCEPT !.i = @ + 1, !.n = 0, !.size = toks[f.i].size, !.place = "ele"]
           r == tables[f.st].of
<1>1. f.place = "value" /\ toks[f.i].type = "ARRAY" /\ stack' = SetTop(g)
  BY DEF ArrayValue, At
<1>2. /\ TokensOK(toks) /\ r \in 1 .. Len(toks) /\ f.first \in 1 .. Len(toks) /\ IsFrame(f)
      /\ Named(toks, r, Len(texts), f)
  BY ParsingFacts
<1>3. /\ f.i \in 1 .. Len(toks) /\ f.i \in PartsAhead /\ IsValuePart(toks, f.first, f.i)
      /\ f.i \in Fields(toks, r) /\ f.name = PathOf(toks, r, f.i)
      /\ EndIn(toks, f.i) \in f.i .. EndIn(toks, f.first) /\ EndIn(toks, f.first) \in Nat
  BY <1>1, AtValue
<1>4. Len(texts) \in Nat /\ Len(texts') \in Nat /\ Len(texts) <= Len(texts')
  BY DEF Grows, Grown
<1> HIDE DEF f
<1>5. /\ g.st = f.st /\ g.first = f.first /\ g.i = f.i + 1 /\ g.place = "ele" /\ g.text = f.text
      /\ g.prefix = f.prefix /\ g.name = f.name /\ g.n = 0 /\ g.size = toks[f.i].size
  BY <1>2 DEF IsFrame, FrameFields
<1> HIDE DEF g, r
<1>6. InArray(toks, r, g, f.i)
  <2>1. ArrayAt(toks, g, f.i)
    BY <1>1, <1>2, <1>3, <1>5, FirstElement
  <2>2. g.i \in f.i + 1 .. EndIn(toks, f.i) + 1
    BY <1>3, <1>5
  <2> QED
    BY <1>3, <1>5, <2>1, <2>2 DEF InArray
<1>7. Named(toks, r, Len(texts'), g)
  BY <1>2, <1>3, <1>4, <1>5, <1>6 DEF Named
<1>8. ASSUME NEW v \in Fields(toks, r)
      PROVE  /\ Past(toks, g, v) <=> Past(toks, f, v) \/ v \in {f.i}
             /\ Began(toks, g, v) <=> Began(toks, f, v) \/ v \in {f.i}
  <2>1. v \in 1 .. Len(toks)
    BY <1>2, <1>8, FieldFacts
  <2>2. Cur(toks, f) = f.i /\ Cur(toks, g) = f.i + 1
    BY <1>1, <1>5 DEF Cur
  <2> QED
    BY <1>1, <1>3, <1>5, <2>1, <2>2 DEF Past, Began
<1>9. {f.i} \in SUBSET PartsAhead
  BY <1>3
<1> QED
  BY <1>1, <1>5, <1>7, <1>8, <1>9, SetStep DEF f, r, FieldsOfTop

LEMMA ObjectValueCalls ==
    ASSUME Parsing, Grows, ObjectValue, Len(texts') = Len(texts) + 1
    PROVE  StepCalls({}, {Top.i})
<1> DEFINE f == Top
           x == Len(texts) + 1
           g == [f EXCEPT !.place = "again"]
           callee == Frame(f.st, x, f.name, f.i)
           r == tables[f.st].of
<1>1. f.place = "value" /\ toks[f.i].type = "OBJECT" /\ stack' = Call(g, callee)
  BY DEF ObjectValue, At
<1>2. /\ TokensOK(toks) /\ r \in 1 .. Len(toks) /\ f.first \in 1 .. Len(toks) /\ IsFrame(f)
      /\ Named(toks, r, Len(texts), f) /\ f.st \in 1 .. Len(tables) /\ Len(texts) \in Nat
  BY ParsingFacts
<1>3. /\ f.i \in 1 .. Len(toks) /\ f.i \in PartsAhead /\ IsValuePart(toks, f.first, f.i)
      /\ f.i \in Fields(toks, r) /\ f.name = PathOf(toks, r, f.i)
      /\ EndIn(toks, f.i) \in f.i .. EndIn(toks, f.first) /\ EndIn(toks, f.i) \in Nat
  BY <1>1, AtValue
<1> HIDE DEF f
<1>4. /\ g.st = f.st /\ g.first = f.first /\ g.i = f.i /\ g.place = "again" /\ g.text = f.text
      /\ g.prefix = f.prefix /\ g.name = f.name
  BY <1>2 DEF IsFrame, FrameFields
<1>5. /\ callee.st = f.st /\ callee.first = f.i /\ callee.place = "name" /\ callee.text = x
      /\ callee.prefix = f.name
  BY DEF Frame
<1>6. tables'[f.st].of = r
  BY <1>2 DEF Grows, Grown
<1>7. ASSUME NEW v \in Fields(toks, r)
      PROVE  /\ Past(toks, g, v) /\ Past(toks, callee, v) <=> Past(toks, f, v) \/ v \in {}
             /\ Began(toks, g, v) /\ Began(toks, callee, v) <=> Began(toks, f, v) \/ v \in {f.i}
  <2>1. v \in 1 .. Len(toks)
    BY <1>2, <1>7, FieldFacts
  <2>2. (Past(toks, callee, v) <=> v <= f.i) /\ (Began(toks, callee, v) <=> v <= f.i)
    BY <1>2, <1>3, <1>7, FieldsAtStart
  <2>3. Cur(toks, f) = f.i /\ Cur(toks, g) = EndIn(toks, f.i) + 1
    BY <1>1, <1>4 DEF Cur
  <2> HIDE DEF g, callee
  <2> QED
    BY <1>1, <1>3, <1>4, <2>1, <2>2, <2>3 DEF Past, Began
<1> HIDE DEF g, callee, r
<1>8. Named(toks, r, Len(texts'), g)
  BY <1>2, <1>3, <1>4 DEF Named
<1>9. Named(toks, tables'[callee.st].of, Len(texts'), callee)
  BY <1>2, <1>3, <1>5, <1>6 DEF Named, FieldOrSelf
<1>10. {f.i} \in SUBSET PartsAhead /\ {} \in SUBSET PartsAhead
  BY <1>3
<1> QED
  BY <1>1, <1>3, <1>4, <1>5, <1>7, <1>8, <1>9, <1>10, CallStep DEF f, r, FieldsOfTop

\* One table was made, and is for the object at o.
OneMore(o) == Len(tables') = Len(tables) + 1 /\ tables'[Len(tables) + 1].of = o

LEMMA ObjectAgainCalls ==
    ASSUME Parsing, Grows, ObjectAgain, Live(Top.st), Len(texts') = Len(texts) + 1, OneMore(Top.i)
    PROVE  StepCalls({Top.i}, {})
<1> DEFINE f == Top
           x == Len(texts) + 1
           t == Len(tables) + 1
           g == [f EXCEPT !.place = "skip"]
           callee == Frame(t, x, "", f.i)
           r == tables[f.st].of
<1>1. f.place = "again" /\ stack' = Call(g, callee)
  BY DEF ObjectAgain, At
<1>2. /\ TokensOK(toks) /\ r \in 1 .. Len(toks) /\ f.first \in 1 .. Len(toks) /\ IsFrame(f)
      /\ Named(toks, r, Len(texts), f) /\ f.st \in 1 .. Len(tables) /\ Len(texts) \in Nat
      /\ Len(tables) \in Nat
  BY ParsingFacts
<1>3. /\ f.i \in 1 .. Len(toks) /\ f.i \in PartsAhead /\ IsValuePart(toks, f.first, f.i)
      /\ f.i \in Fields(toks, r) /\ f.name = PathOf(toks, r, f.i)
      /\ EndIn(toks, f.i) \in f.i .. EndIn(toks, f.first) /\ EndIn(toks, f.i) \in Nat
  BY <1>1, AtValue
<1> HIDE DEF f
<1>4. /\ g.st = f.st /\ g.first = f.first /\ g.i = f.i /\ g.place = "skip" /\ g.text = f.text
      /\ g.prefix = f.prefix /\ g.name = f.name
  BY <1>2 DEF IsFrame, FrameFields
<1>5. /\ callee.st = t /\ callee.first = f.i /\ callee.place = "name" /\ callee.text = x
      /\ callee.prefix = ""
  BY DEF Frame
<1>6. tables'[t].of = f.i /\ Len(tables') = t /\ t # f.st
  BY <1>2 DEF OneMore, f
<1> HIDE DEF g, callee, r, t
<1>7. ASSUME NEW v \in Fields(toks, r)
      PROVE  /\ Past(toks, g, v) <=> Past(toks, f, v) \/ v \in {f.i}
             /\ Began(toks, g, v) <=> Began(toks, f, v)
  <2>1. Cur(toks, f) = EndIn(toks, f.i) + 1 /\ Cur(toks, g) = EndIn(toks, f.i) + 1
    BY <1>1, <1>4 DEF Cur
  <2> QED
    BY <1>1, <1>3, <1>4, <2>1 DEF Past, Began
<1>8. Named(toks, r, Len(texts'), g)
  BY <1>2, <1>3, <1>4 DEF Named
<1>9. Named(toks, tables'[callee.st].of, Len(texts'), callee)
  <2>1. PathOf(toks, f.i, f.i) = ""
    BY <1>2, <1>3, PathsJoin
  <2> QED
    <3>1. tables'[callee.st].of = f.i
      BY <1>5, <1>6
    <3>2. callee.text \in 1 .. Len(texts')
      <4>1. Len(texts') \in Nat /\ Len(texts') = x /\ x \in 1 .. x
        BY <1>2
      <4> QED
        BY <1>5, <4>1
    <3>3. Named(toks, f.i, Len(texts'), callee)
      BY <1>3, <1>5, <2>1, <3>2 DEF Named, FieldOrSelf
    <3> QED
      BY <3>1, <3>3
<1>10. {f.i} \in SUBSET PartsAhead /\ {} \in SUBSET PartsAhead
  BY <1>3
<1>11. /\ g.place \in OwnTable /\ Len(tables') = Len(tables) + 1 /\ callee.st = Len(tables')
       /\ callee.first = tables'[callee.st].of
  BY <1>4, <1>5, <1>6 DEF OwnTable, t
<1>12. callee.st # f.st
  BY <1>5, <1>6
<1>13. \A v \in FieldsOfTop :
            /\ Past(toks, g, v) /\ (callee.st = f.st => Past(toks, callee, v)) <=> Past(toks, f, v) \/ v \in {f.i}
            /\ Began(toks, g, v) /\ (callee.st = f.st => Began(toks, callee, v)) <=> Began(toks, f, v) \/ v \in {}
  BY <1>7, <1>12 DEF FieldsOfTop, r, f
<1>14. callee.first \in 1 .. Len(toks)
  BY <1>3, <1>5
<1> QED
  BY <1>1, <1>4, <1>8, <1>9, <1>10, <1>11, <1>13, <1>14, CallStep DEF f, r

\* What is known at an element.
LEMMA AtElements ==
    ASSUME Parsing, NEW f, f = Top, f.place \in {"ele", "eleskip"}, NEW r, r = tables[f.st].of
    PROVE  \E a : /\ InArray(toks, r, f, a) /\ a \in 1 .. Len(toks) /\ toks[a].type = "ARRAY"
                  /\ a \in PartsOf(toks, f.first) /\ IsValuePart(toks, f.first, a)
<1>1. /\ TokensOK(toks) /\ r \in 1 .. Len(toks) /\ Named(toks, r, Len(texts), f) /\ f.first \in 1 .. Len(toks)
  BY ParsingFacts
<1>2. PICK a \in Fields(toks, r) : InArray(toks, r, f, a)
  BY <1>1 DEF Named
<1>3. a \in 1 .. Len(toks)
  BY <1>1, <1>2, FieldFacts
<1> QED
  BY <1>2, <1>3 DEF InArray, ArrayAt, IsValuePart

LEMMA ScalarElementCalls ==
    ASSUME Parsing, Grows, ScalarElement
    PROVE  StepCalls({}, {})
<1> DEFINE f == Top
           g == [f EXCEPT !.n = @ + 1]
           r == tables[f.st].of
<1>1. /\ f.place = "ele" /\ f.n < f.size
      /\ toks[f.i + f.n].type \in {"STRING", "PRIMITIVE"} /\ stack' = SetTop(g)
  BY DEF ScalarElement, AtElement, At
<1>2. /\ TokensOK(toks) /\ r \in 1 .. Len(toks) /\ f.first \in 1 .. Len(toks) /\ IsFrame(f)
      /\ Named(toks, r, Len(texts), f) /\ FrameOK(toks, f) /\ f.i \in Nat /\ f.n \in Nat
  BY ParsingFacts DEF FrameOK
<1>3. Len(texts) \in Nat /\ Len(texts') \in Nat /\ Len(texts) <= Len(texts')
  BY DEF Grows, Grown
<1>4. PICK a : InArray(toks, r, f, a) /\ a \in 1 .. Len(toks)
  BY <1>1, AtElements
<1> HIDE DEF f
<1>5. /\ g.st = f.st /\ g.first = f.first /\ g.i = f.i /\ g.n = f.n + 1 /\ g.size = f.size
      /\ g.place = "ele" /\ g.text = f.text /\ g.prefix = f.prefix /\ g.name = f.name
  BY <1>1, <1>2 DEF IsFrame, FrameFields
<1> HIDE DEF g, r
<1>6. f.i + f.n \in 1 .. Len(toks)
  BY <1>1, <1>2, ElementFacts
<1>7. EndIn(toks, f.i + f.n) = f.i + f.n
  BY <1>1, <1>2, <1>6, TokenFacts
<1>8. g.i + g.n = EndIn(toks, f.i + f.n) + 1
  BY <1>2, <1>5, <1>7
<1>9. ArrayAt(toks, g, a)
  BY <1>1, <1>2, <1>4, <1>5, <1>8, AfterElement DEF InArray
<1>10. InArray(toks, r, g, a)
  BY <1>4, <1>5, <1>9 DEF InArray
<1>11. Named(toks, r, Len(texts'), g)
  BY <1>2, <1>3, <1>5, <1>10 DEF Named, InArray
<1>12. \A v : /\ Past(toks, g, v) <=> Past(toks, f, v)
              /\ Began(toks, g, v) <=> Began(toks, f, v)
  BY <1>1, <1>5 DEF Past, Began, Cur
<1> QED
  BY <1>1, <1>5, <1>11, <1>12, SetStep DEF f, r

LEMMA ObjectElementCalls ==
    ASSUME Parsing, Grows, ObjectElement, OneMore(Top.i + Top.n)
    PROVE  StepCalls({}, {})
<1> DEFINE f == Top
           t == Len(tables) + 1
           o == f.i + f.n
           g == [f EXCEPT !.place = "eleskip"]
           callee == Frame(t, f.text, "", o)
           r == tables[f.st].of
<1>1. /\ f.place = "ele" /\ f.n < f.size /\ toks[o].type = "OBJECT" /\ stack' = Call(g, callee)
  BY DEF ObjectElement, AtElement, At
<1>2. /\ TokensOK(toks) /\ r \in 1 .. Len(toks) /\ f.first \in 1 .. Len(toks) /\ IsFrame(f)
      /\ Named(toks, r, Len(texts), f) /\ f.st \in 1 .. Len(tables) /\ Len(texts) \in Nat
      /\ Len(tables) \in Nat /\ FrameOK(toks, f)
  BY ParsingFacts
<1>3. Len(texts) \in Nat /\ Len(texts') \in Nat /\ Len(texts) <= Len(texts')
  BY DEF Grows, Grown
<1>4. PICK a : InArray(toks, r, f, a) /\ a \in 1 .. Len(toks)
  BY <1>1, AtElements
<1>5. o \in 1 .. Len(toks)
  BY <1>1, <1>2, ElementFacts
<1>6. tables'[t].of = o /\ Len(tables') = t /\ t # f.st
  BY <1>2 DEF OneMore
<1> HIDE DEF f, o
<1>7. /\ g.st = f.st /\ g.first = f.first /\ g.i = f.i /\ g.n = f.n /\ g.size = f.size
      /\ g.place = "eleskip" /\ g.text = f.text /\ g.prefix = f.prefix /\ g.name = f.name
  BY <1>1, <1>2 DEF IsFrame, FrameFields
<1>8. /\ callee.st = t /\ callee.first = o /\ callee.place = "name" /\ callee.text = f.text
      /\ callee.prefix = ""
  BY DEF Frame
<1> HIDE DEF g, callee, r, t
<1>9. InArray(toks, r, g, a)
  BY <1>4, <1>7 DEF InArray, ArrayAt
<1>10. Named(toks, r, Len(texts'), g)
  BY <1>2, <1>3, <1>7, <1>9 DEF Named, InArray
<1>11. Named(toks, tables'[callee.st].of, Len(texts'), callee)
  <2>1. PathOf(toks, o, o) = ""
    BY <1>2, <1>5, PathsJoin
  <2>2. f.text \in 1 .. Len(texts')
    BY <1>2, <1>3 DEF Named
  <2> QED
    BY <1>5, <1>6, <1>8, <2>1, <2>2 DEF Named, FieldOrSelf
<1>12. \A v : /\ Past(toks, g, v) <=> Past(toks, f, v)
              /\ Began(toks, g, v) <=> Began(toks, f, v)
  BY <1>1, <1>7 DEF Past, Began, Cur
<1>13. /\ g.place \in OwnTable /\ Len(tables') = Len(tables) + 1 /\ callee.st = Len(tables')
       /\ callee.first = tables'[callee.st].of
  BY <1>6, <1>7, <1>8 DEF OwnTable, t
<1>14. callee.st # f.st
  BY <1>6, <1>8
<1>15. {} \in SUBSET PartsAhead
  OBVIOUS
<1>16. \A v \in FieldsOfTop :
            /\ Past(toks, g, v) /\ (callee.st = f.st => Past(toks, callee, v)) <=> Past(toks, f, v) \/ v \in {}
            /\ Began(toks, g, v) /\ (callee.st = f.st => Began(toks, callee, v)) <=> Began(toks, f, v) \/ v \in {}
  BY <1>12, <1>14
<1>17. callee.first \in 1 .. Len(toks)
  BY <1>5, <1>8
<1> QED
  BY <1>1, <1>7, <1>10, <1>11, <1>13, <1>15, <1>16, <1>17, CallStep DEF f, r

LEMMA ElementSkipCalls ==
    ASSUME Parsing, Grows, ElementSkip
    PROVE  StepCalls({}, {})
<1> DEFINE f == Top
           p == f.i + f.n
           e == SkipWithin(f, p)
           last == EndIn(toks, f.first)
           g == [f EXCEPT !.i = e - f.n, !.n = @ + 1, !.place = "ele"]
           r == tables[f.st].of
<1>1. f.place = "eleskip" /\ stack' = SetTop(g)
  BY DEF ElementSkip, At
<1>2. /\ TokensOK(toks) /\ r \in 1 .. Len(toks) /\ f.first \in 1 .. Len(toks) /\ IsFrame(f)
      /\ Named(toks, r, Len(texts), f) /\ FrameOK(toks, f) /\ f.i \in Nat /\ f.n \in Nat
      /\ last = LastTok(f)
  BY ParsingFacts DEF FrameOK
<1>3. Len(texts) \in Nat /\ Len(texts') \in Nat /\ Len(texts) <= Len(texts')
  BY DEF Grows, Grown
<1>4. PICK a : InArray(toks, r, f, a) /\ a \in 1 .. Len(toks)
  BY <1>1, AtElements
<1> HIDE DEF f
<1>5. f.n < f.size
  BY <1>1, <1>2 DEF FrameOK
<1>6. EndIn(toks, p) \in p .. last /\ p \in Nat /\ last \in Nat
  BY <1>1, <1>2, <1>5, ElementFacts
<1>7. e \in p .. EndIn(toks, p) /\ (e = EndIn(toks, p) \/ e >= last - 1)
  <2> HIDE DEF p
  <2>1. End(p) \in Nat /\ p <= End(p) /\ LastTok(f) \in Nat /\ p \in Nat
    BY <1>2, <1>6 DEF End
  <2> QED
    BY <1>2, <2>1, SkipFacts DEF End
<1> HIDE DEF e
<1>8. /\ g.st = f.st /\ g.first = f.first /\ g.i = e - f.n /\ g.n = f.n + 1 /\ g.size = f.size
      /\ g.place = "ele" /\ g.text = f.text /\ g.prefix = f.prefix /\ g.name = f.name
  BY <1>2 DEF IsFrame, FrameFields
<1> HIDE DEF g, r
<1>9. g.i + g.n = e + 1
  <2>1. \A b, c \in Int : (b - c) + (c + 1) = b + 1
    OBVIOUS
  <2>2. e \in Int /\ f.n \in Int
    BY <1>2, <1>7
  <2> QED
    BY <1>8, <2>1, <2>2
<1>10. \/ g.i + g.n = EndIn(toks, p) + 1
       \/ EndIn(toks, p) = last /\ g.i + g.n >= last
  <2> HIDE DEF p, last
  <2> QED
    BY <1>2, <1>6, <1>7, <1>9
<1>11. ArrayAt(toks, g, a)
  BY <1>2, <1>4, <1>5, <1>8, <1>10, AfterElement DEF InArray
<1>12. g.i \in a + 1 .. EndIn(toks, a) + 1
  <2>1. p \in PartsOf(toks, a) /\ f.i \in a + 1 .. EndIn(toks, a) + 1
    BY <1>4, <1>5 DEF InArray, ArrayAt, IsElement
  <2>2. EndIn(toks, p) \in p .. EndIn(toks, a)
    BY <1>2, <1>4, <2>1, PartFacts
  <2>3. EndIn(toks, a) \in a .. Len(toks)
    BY <1>2, <1>4, TokenFacts
  <2>4. \A i, n, b, c, d, aa \in Int :
            /\ n >= 0 /\ b >= i + n /\ b <= c /\ c <= d /\ i >= aa + 1
            => b - n >= aa + 1 /\ b - n <= d + 1 /\ b - n \in Int
    OBVIOUS
  <2>5. /\ f.i \in Int /\ f.n \in Int /\ f.n >= 0 /\ e \in Int /\ e >= f.i + f.n
        /\ e <= EndIn(toks, p) /\ EndIn(toks, p) <= EndIn(toks, a) /\ f.i >= a + 1
        /\ EndIn(toks, p) \in Int /\ EndIn(toks, a) \in Int /\ a \in Int
    <3>1. f.i >= a + 1 /\ a \in Int /\ EndIn(toks, a) \in Int
      BY <1>4, <2>1, <2>3
    <3>2. EndIn(toks, p) \in Int /\ EndIn(toks, p) <= EndIn(toks, a)
      <4> HIDE DEF p
      <4> QED
        BY <1>6, <2>2
    <3>3. e \in Int /\ e >= p /\ e <= EndIn(toks, p)
      <4> HIDE DEF p
      <4> QED
        BY <1>6, <1>7
    <3> QED
      BY <1>2, <3>1, <3>2, <3>3
  <2> HIDE DEF p
  <2>6. e - f.n >= a + 1 /\ e - f.n <= EndIn(toks, a) + 1 /\ e - f.n \in Int
    BY <2>4, <2>5
  <2> QED
    BY <1>8, <2>5, <2>6
<1>13. InArray(toks, r, g, a)
  BY <1>4, <1>8, <1>11, <1>12 DEF InArray
<1>14. Named(toks, r, Len(texts'), g)
  BY <1>2, <1>3, <1>8, <1>13 DEF Named, InArray
<1>15. ASSUME NEW v \in Fields(toks, r)
       PROVE  /\ Past(toks, g, v) <=> Past(toks, f, v)
              /\ Began(toks, g, v) <=> Began(toks, f, v)
  <2>1. (v < f.i <=> v <= a) /\ (v < g.i <=> v <= a)
    BY <1>2, <1>4, <1>13, <1>15, InArrayFields
  <2>2. Cur(toks, f) = f.i /\ Cur(toks, g) = g.i
    BY <1>1, <1>8 DEF Cur
  <2> QED
    BY <1>1, <1>8, <2>1, <2>2 DEF Past, Began
<1> QED
  BY <1>1, <1>8, <1>14, <1>15, SetStep DEF f, r, FieldsOfTop

LEMMA ArrayDoneCalls ==
    ASSUME Parsing, Grows, ArrayDone
    PROVE  StepCalls({}, {})
<1> DEFINE f == Top
           g == [f EXCEPT !.i = @ + f.size, !.place = "name"]
           r == tables[f.st].of
<1>1. f.place = "ele" /\ f.n >= f.size /\ stack' = SetTop(g)
  BY DEF ArrayDone, At
<1>2. /\ TokensOK(toks) /\ r \in 1 .. Len(toks) /\ f.first \in 1 .. Len(toks) /\ IsFrame(f)
      /\ Named(toks, r, Len(texts), f) /\ f.i \in Nat /\ f.n \in Nat /\ f.size \in Nat
  BY ParsingFacts DEF FrameOK
<1>3. Len(texts) \in Nat /\ Len(texts') \in Nat /\ Len(texts) <= Len(texts')
  BY DEF Grows, Grown
<1>4. PICK a : InArray(toks, r, f, a) /\ a \in 1 .. Len(toks)
  BY <1>1, AtElements
<1> HIDE DEF f
<1>5. /\ g.st = f.st /\ g.first = f.first /\ g.i = f.i + f.size /\ g.place = "name"
      /\ g.text = f.text /\ g.prefix = f.prefix
  BY <1>2 DEF IsFrame, FrameFields
<1> HIDE DEF g, r
<1>6. Named(toks, r, Len(texts'), g)
  BY <1>2, <1>3, <1>5 DEF Named
<1>7. /\ IsValuePart(toks, f.first, a)
      /\ g.i = EndIn(toks, a) + 1 \/ (EndIn(toks, a) = EndIn(toks, f.first) /\ g.i >= EndIn(toks, f.first))
      /\ g.i \in Int
  <2>1. f.n = f.size
    BY <1>1, <1>2, <1>4 DEF InArray, ArrayAt
  <2> QED
    BY <1>2, <1>4, <1>5, <2>1 DEF InArray, ArrayAt
<1>8. ASSUME NEW v \in Fields(toks, r)
      PROVE  /\ Past(toks, g, v) <=> Past(toks, f, v)
             /\ Began(toks, g, v) <=> Began(toks, f, v)
  <2>1. (v < f.i <=> v <= a) /\ (v <= a <=> v <= EndIn(toks, a))
    BY <1>2, <1>4, <1>8, InArrayFields
  <2>2. v < (IF g.i >= EndIn(toks, f.first) THEN EndIn(toks, f.first) + 1 ELSE g.i) <=> v <= EndIn(toks, a)
    BY <1>2, <1>7, <1>8, FieldsBehind
  <2>3. /\ Cur(toks, g) = IF g.i >= EndIn(toks, f.first) THEN EndIn(toks, f.first) + 1 ELSE g.i
        /\ Cur(toks, f) = f.i
    BY <1>1, <1>5 DEF Cur
  <2> QED
    BY <1>1, <1>5, <2>1, <2>2, <2>3 DEF Past, Began
<1> QED
  BY <1>1, <1>5, <1>6, <1>8, SetStep DEF f, r, FieldsOfTop

LEMMA ObjectDoneCalls ==
    ASSUME Parsing, Grows, ObjectDone
    PROVE  StepCalls({}, {})
<1> DEFINE f == Top
           L == Len(stack)
<1>1. f.place = "name" /\ f.i >= LastTok(f) /\ stack' = Front(stack) /\ UNCHANGED <<tables, texts>>
  BY DEF ObjectDone, At, Return
<1>2. /\ HaveTables(tables, stack) /\ IsList(stack) /\ L \in Nat \ {0} /\ f = stack[L]
      /\ Len(tables) \in Nat /\ TokensOK(toks) /\ CallsNamed(toks, tables, Len(texts), stack)
      /\ f.first \in 1 .. Len(toks) /\ LastTok(f) = EndIn(toks, f.first)
  BY ParsingFacts
<1>3. IsList(stack') /\ Len(stack') = L - 1 /\ \A k \in 1 .. L - 1 : stack'[k] = stack[k]
  BY <1>1, <1>2, ListFront
<1> HIDE DEF f
<1>4. CallsNamed(toks, tables, Len(texts), stack')
  BY <1>2, <1>3, NamedReturn
<1>5. Advances(toks, tables, stack, stack', f.st, {}, {})
  BY <1>1, <1>2, <1>3, AdvanceReturn
<1> QED
  BY <1>1, <1>4, <1>5 DEF StepCalls, f

-----------------------------------------------------------------------------
(* What the steps do to tables.                                            *)

\* From a to b, at most the entry for a name in the table st changes.
OneEntry(a, b, st, name) ==
    /\ IsList(b) /\ Len(a) \in Nat /\ Len(b) \in Nat /\ Len(a) <= Len(b) /\ st \in 1 .. Len(a)
    /\ \A u \in 1 .. Len(a) : b[u].of = a[u].of /\ (u # st => b[u].map = a[u].map)
    /\ \A n : n # name =>
            /\ n \in DOMAIN b[st].map <=> n \in DOMAIN a[st].map
            /\ n \in DOMAIN a[st].map => b[st].map[n] = a[st].map[n]

\* The thing is mapped, or made an element of the array that is.
EntryMade(a, b, st, name, thing) ==
    OneEntry(a, b, st, name) /\ name \in DOMAIN b[st].map /\ b[st].map[name] = thing
ElementMade(a, b, st, name, i, thing) ==
    /\ OneEntry(a, b, st, name)
    /\ name \in DOMAIN b[st].map <=> name \in DOMAIN a[st].map
    /\ name \in DOMAIN a[st].map => b[st].map[name] = [a[st].map[name] EXCEPT !.ele[i] = thing]
LastIs(b, m, table) == Len(b) = m + 1 /\ b[m + 1] = table

LEMMA MapEntry ==
    ASSUME IsList(tables), \A t \in 1 .. Len(tables) : TableOK(tables[t]),
           NEW st \in 1 .. Len(tables), NEW name, NEW thing,
           NEW b, b = [tables EXCEPT ![st] = Mapped(st, name, thing)]
    PROVE  EntryMade(tables, b, st, name, thing) /\ Len(b) = Len(tables)
<1>1. IsSetAt(tables, st, Mapped(st, name, thing), b)
  BY ListSet
<1>2. Len(tables) \in Nat
  BY ListFacts
<1>3. DOMAIN tables[st] = {"map", "freed", "of"}
  BY DEF TableOK
<1> DEFINE table == Mapped(st, name, thing)
<1>4. /\ table.of = tables[st].of
      /\ table.map = [n \in DOMAIN tables[st].map \cup {name} |-> IF n = name THEN thing ELSE tables[st].map[n]]
  BY <1>3 DEF Mapped
<1> HIDE DEF table
<1>5. /\ IsList(b) /\ Len(b) = Len(tables) /\ b[st] = table
      /\ \A k \in 1 .. Len(tables) : k # st => b[k] = tables[k]
  BY <1>1 DEF IsSetAt, table
<1>6. \A u \in 1 .. Len(tables) : b[u].of = tables[u].of /\ (u # st => b[u].map = tables[u].map)
  BY <1>4, <1>5
<1>7. /\ \A n : n # name =>
            /\ n \in DOMAIN b[st].map <=> n \in DOMAIN tables[st].map
            /\ n \in DOMAIN tables[st].map => b[st].map[n] = tables[st].map[n]
      /\ name \in DOMAIN b[st].map /\ b[st].map[name] = thing
  BY <1>4, <1>5
<1> QED
  BY <1>2, <1>5, <1>6, <1>7 DEF EntryMade, OneEntry

LEMMA SetEntry ==
    ASSUME IsList(tables), \A t \in 1 .. Len(tables) : TableOK(tables[t]),
           Top.st \in 1 .. Len(tables), NEW thing,
           NEW b, b = SetElement(tables, thing)
    PROVE  ElementMade(tables, b, Top.st, Top.name, Top.n + 1, thing) /\ Len(b) = Len(tables)
<1> DEFINE st == Top.st
           name == Top.name
           i == Top.n + 1
           map == [tables[st].map EXCEPT ![name].ele[i] = thing]
           table == [tables[st] EXCEPT !.map = map]
<1>1. st \in 1 .. Len(tables) /\ Len(tables) \in Nat
  BY ListFacts
<1>2. b = [tables EXCEPT ![st] = table]
  BY Zenon DEF SetElement
<1>3. IsSetAt(tables, st, table, b)
  BY <1>1, <1>2, ListSet
<1>4. DOMAIN tables[st] = {"map", "freed", "of"}
  BY <1>1 DEF TableOK
<1> HIDE DEF st, name, i
<1>5. /\ DOMAIN map = DOMAIN tables[st].map
      /\ \A n \in DOMAIN tables[st].map : n # name => map[n] = tables[st].map[n]
      /\ name \in DOMAIN tables[st].map => map[name] = [tables[st].map[name] EXCEPT !.ele[i] = thing]
  OBVIOUS
<1> HIDE DEF map
<1>6. table.map = map /\ table.of = tables[st].of
  BY <1>4
<1> HIDE DEF table
<1>7. /\ IsList(b) /\ Len(b) = Len(tables) /\ b[st] = table
      /\ \A k \in 1 .. Len(tables) : k # st => b[k] = tables[k]
  BY <1>3 DEF IsSetAt
<1>8. \A u \in 1 .. Len(tables) : b[u].of = tables[u].of /\ (u # st => b[u].map = tables[u].map)
  BY <1>6, <1>7
<1>9. OneEntry(tables, b, st, name)
  BY <1>1, <1>5, <1>6, <1>7, <1>8 DEF OneEntry
<1>10. ElementMade(tables, b, st, name, i, thing)
  BY <1>5, <1>6, <1>7, <1>9 DEF ElementMade
<1> QED
  BY <1>7, <1>10 DEF st, name, i

\* And then one more table is made.
LEMMA TableAdded ==
    ASSUME NEW a, NEW b, NEW st, NEW name, OneEntry(a, b, st, name), Len(b) = Len(a),
           NEW table, NEW c, IsAppended(b, table, c)
    PROVE  /\ OneEntry(a, c, st, name) /\ LastIs(c, Len(a), table)
           /\ c[st] = b[st]
<1>2. /\ IsList(c) /\ Len(c) = Len(a) + 1 /\ c[Len(a) + 1] = table
      /\ \A k \in 1 .. Len(a) : c[k] = b[k]
  BY DEF IsAppended
<1>3. c[st] = b[st]
  BY <1>2 DEF OneEntry
<1> QED
  BY <1>2, <1>3 DEF OneEntry, LastIs

LEMMA TextAdded ==
    ASSUME IsList(texts), NEW b, b = Append(texts, 0)
    PROVE  /\ IsList(b) /\ Len(texts) \in Nat /\ Len(b) = Len(texts) + 1
           /\ (\A x \in 1 .. Len(texts) : texts[x] = 0) => \A x \in 1 .. Len(b) : b[x] = 0
<1>1. IsAppended(texts, 0, b) /\ Len(texts) \in Nat
  BY ListAppend, ListFacts
<1> QED
  BY <1>1 DEF IsAppended

LEMMA EntryGrows ==
    ASSUME NEW a, NEW b, NEW st, NEW name, OneEntry(a, b, st, name), NEW n \in Nat, NEW n2 \in Nat, n <= n2
    PROVE  Grown(a, n, b, n2)
BY DEF OneEntry, Grown

\* The steps.
NoTable == Len(tables') = Len(tables)

LEMMA ScalarValueTables ==
    ASSUME Parsing, ScalarValue
    PROVE  /\ EntryMade(tables, tables', Top.st, Top.name, Scalar(toks[Top.i], Top.text))
           /\ NoTable /\ UNCHANGED texts /\ Grows
<1>1. tables' = [tables EXCEPT ![Top.st] = Mapped(Top.st, Top.name, Scalar(toks[Top.i], Top.text))] /\ UNCHANGED texts
  BY DEF ScalarValue
<1>2. EntryMade(tables, tables', Top.st, Top.name, Scalar(toks[Top.i], Top.text)) /\ Len(tables') = Len(tables)
  BY <1>1, ParsingFacts, MapEntry
<1>3. Grows
  <2>1. Len(texts) \in Nat
    BY ParsingFacts
  <2> QED
    BY <1>1, <1>2, <2>1, EntryGrows DEF Grows, EntryMade
<1> QED
  BY <1>1, <1>2, <1>3 DEF NoTable

LEMMA ObjectValueTables ==
    ASSUME Parsing, ObjectValue
    PROVE  /\ EntryMade(tables, tables', Top.st, Top.name \o "_json", TextEntry(Len(texts) + 1))
           /\ NoTable /\ texts' = Append(texts, 0) /\ Len(texts') = Len(texts) + 1 /\ Grows
<1>1. /\ tables' = [tables EXCEPT ![Top.st] = Mapped(Top.st, Top.name \o "_json", TextEntry(Len(texts) + 1))]
      /\ texts' = Append(texts, 0)
  BY Zenon DEF ObjectValue
<1> DEFINE name == Top.name \o "_json"
<1> HIDE DEF name
<1>2. EntryMade(tables, tables', Top.st, name, TextEntry(Len(texts) + 1)) /\ Len(tables') = Len(tables)
  BY <1>1, ParsingFacts, MapEntry DEF name
<1>3. Len(texts) \in Nat /\ Len(texts') = Len(texts) + 1
  BY <1>1, TextAdded DEF Parsing
<1>4. Grows
  BY <1>2, <1>3, EntryGrows DEF Grows, EntryMade
<1> QED
  BY <1>1, <1>2, <1>3, <1>4, Zenon DEF NoTable, name

LEMMA ObjectAgainTables ==
    ASSUME Parsing, ObjectAgain, Live(Top.st)
    PROVE  /\ EntryMade(tables, tables', Top.st, Top.name, ObjectThing(Len(tables) + 1))
           /\ LastIs(tables', Len(tables), NewTable(Top.i, OwnText(Len(texts) + 1)))
           /\ OneMore(Top.i)
           /\ texts' = Append(texts, 0) /\ Len(texts') = Len(texts) + 1 /\ Grows
<1> DEFINE b == [tables EXCEPT ![Top.st] = Mapped(Top.st, Top.name, ObjectThing(Len(tables) + 1))]
           table == NewTable(Top.i, OwnText(Len(texts) + 1))
<1>1. tables' = Append(b, table) /\ texts' = Append(texts, 0)
  BY DEF ObjectAgain
<1>2. EntryMade(tables, b, Top.st, Top.name, ObjectThing(Len(tables) + 1)) /\ Len(b) = Len(tables)
  BY ParsingFacts, MapEntry
<1> HIDE DEF b, table
<1>3. /\ OneEntry(tables, tables', Top.st, Top.name) /\ LastIs(tables', Len(tables), table)
      /\ tables'[Top.st] = b[Top.st]
  <2>1. OneEntry(tables, b, Top.st, Top.name) /\ Len(b) = Len(tables)
    BY <1>2 DEF EntryMade
  <2>2. tables' = Append(b, table)
    BY <1>1
  <2>3. IsAppended(b, table, tables')
    BY <2>1, <2>2, ListAppend DEF OneEntry
  <2> QED
    BY <2>1, <2>3, TableAdded
<1>4. EntryMade(tables, tables', Top.st, Top.name, ObjectThing(Len(tables) + 1))
  BY <1>2, <1>3 DEF EntryMade
<1>5. Len(texts) \in Nat /\ Len(texts') = Len(texts) + 1
  BY <1>1, TextAdded DEF Parsing
<1>6. Grows
  BY <1>3, <1>5, EntryGrows DEF Grows
<1>7. OneMore(Top.i)
  BY <1>3 DEF OneMore, LastIs, table, NewTable
<1> QED
  BY <1>1, <1>3, <1>4, <1>5, <1>6, <1>7 DEF table

LEMMA ArrayValueTables ==
    ASSUME Parsing, ArrayValue
    PROVE  /\ EntryMade(tables, tables', Top.st, Top.name,
                        Thing("ARRAY", "UNKNOWN", 0, 0, [k \in 1 .. toks[Top.i].size |-> Undefined]))
           /\ NoTable /\ UNCHANGED texts /\ Grows
<1> DEFINE thing == Thing("ARRAY", "UNKNOWN", 0, 0, [k \in 1 .. toks[Top.i].size |-> Undefined])
<1>1. tables' = [tables EXCEPT ![Top.st] = Mapped(Top.st, Top.name, thing)] /\ UNCHANGED texts
  BY DEF ArrayValue
<1> HIDE DEF thing
<1>2. EntryMade(tables, tables', Top.st, Top.name, thing) /\ Len(tables') = Len(tables)
  BY <1>1, ParsingFacts, MapEntry
<1>3. Grows
  <2>1. Len(texts) \in Nat
    BY ParsingFacts
  <2> QED
    BY <1>1, <1>2, <2>1, EntryGrows DEF Grows, EntryMade
<1> QED
  BY <1>1, <1>2, <1>3 DEF NoTable, thing

LEMMA ScalarElementTables ==
    ASSUME Parsing, ScalarElement
    PROVE  /\ ElementMade(tables, tables', Top.st, Top.name, Top.n + 1, Scalar(toks[Top.i + Top.n], Top.text))
           /\ NoTable /\ UNCHANGED texts /\ Grows
<1>1. tables' = SetElement(tables, Scalar(toks[Top.i + Top.n], Top.text)) /\ UNCHANGED texts
  BY DEF ScalarElement
<1>2. /\ ElementMade(tables, tables', Top.st, Top.name, Top.n + 1, Scalar(toks[Top.i + Top.n], Top.text))
      /\ Len(tables') = Len(tables)
  BY <1>1, ParsingFacts, SetEntry
<1>3. Grows
  <2>1. Len(texts) \in Nat
    BY ParsingFacts
  <2>2. OneEntry(tables, tables', Top.st, Top.name)
    BY <1>2 DEF ElementMade
  <2> QED
    BY <1>1, <2>1, <2>2, EntryGrows DEF Grows
<1> QED
  BY <1>1, <1>2, <1>3 DEF NoTable

LEMMA ObjectElementTables ==
    ASSUME Parsing, ObjectElement
    PROVE  /\ ElementMade(tables, tables', Top.st, Top.name, Top.n + 1, ObjectThing(Len(tables) + 1))
           /\ LastIs(tables', Len(tables), NewTable(Top.i + Top.n, NoMap))
           /\ OneMore(Top.i + Top.n)
           /\ UNCHANGED texts /\ Grows
<1> DEFINE b == SetElement(tables, ObjectThing(Len(tables) + 1))
           table == NewTable(Top.i + Top.n, NoMap)
<1>1. tables' = Append(b, table) /\ UNCHANGED texts
  BY DEF ObjectElement
<1>2. /\ ElementMade(tables, b, Top.st, Top.name, Top.n + 1, ObjectThing(Len(tables) + 1))
      /\ Len(b) = Len(tables)
  BY ParsingFacts, SetEntry
<1> HIDE DEF b, table
<1>3. /\ OneEntry(tables, tables', Top.st, Top.name) /\ LastIs(tables', Len(tables), table)
      /\ tables'[Top.st] = b[Top.st]
  <2>1. OneEntry(tables, b, Top.st, Top.name) /\ Len(b) = Len(tables)
    BY <1>2 DEF ElementMade
  <2>2. tables' = Append(b, table)
    BY <1>1
  <2>3. IsAppended(b, table, tables')
    BY <2>1, <2>2, ListAppend DEF OneEntry
  <2> QED
    BY <2>1, <2>3, TableAdded
<1>4. ElementMade(tables, tables', Top.st, Top.name, Top.n + 1, ObjectThing(Len(tables) + 1))
  BY <1>2, <1>3 DEF ElementMade
<1>5. Len(texts) \in Nat
  BY ParsingFacts
<1>6. Grows
  BY <1>1, <1>3, <1>5, EntryGrows DEF Grows
<1>7. OneMore(Top.i + Top.n)
  BY <1>3 DEF OneMore, LastIs, table, NewTable
<1> QED
  BY <1>1, <1>3, <1>4, <1>6, <1>7 DEF table

LEMMA OthersGrow ==
    ASSUME Parsing, UNCHANGED <<tables, texts>>
    PROVE  Grows
BY ParsingFacts DEF Grows, Grown

-----------------------------------------------------------------------------
(* What tables say.                                                        *)

\* No two parts have as many in front of them, and for each number that is less
\* than that of all parts one has as many.
LEMMA PartByCount ==
    ASSUME NEW ts, TokensOK(ts), NEW o \in 1 .. Len(ts), NEW p \in PartsOf(ts, o), NEW q \in PartsOf(ts, o),
           Cardinality(Before(ts, o, p)) = Cardinality(Before(ts, o, q))
    PROVE  p = q
<1> DEFINE C(x) == Cardinality(Before(ts, o, x))
<1>1. ASSUME NEW a \in PartsOf(ts, o), NEW b \in PartsOf(ts, o), a < b
      PROVE  C(a) # C(b)
  <2>1. IsFiniteSet(Before(ts, o, a)) /\ IsFiniteSet(Before(ts, o, b)) /\ C(a) \in Nat /\ C(b) \in Nat
    BY PartsFinite
  <2>2. a \in Int /\ b \in Int
    BY PartFacts
  <2>3. a \notin Before(ts, o, a)
    BY <2>2 DEF Before
  <2>4. Before(ts, o, a) \cup {a} \subseteq Before(ts, o, b)
    <3>1. PartsOf(ts, o) \subseteq Int
      BY PartFacts
    <3> QED
      BY <1>1, <2>2, <3>1 DEF Before
  <2>5. Cardinality(Before(ts, o, a) \cup {a}) = C(a) + 1
    BY <2>1, <2>3, FS_AddElement
  <2>6. C(a) + 1 <= C(b)
    BY <2>1, <2>4, <2>5, FS_Subset
  <2> HIDE DEF C
  <2> QED
    BY <2>1, <2>6
<1>2. p \in Int /\ q \in Int
  BY PartFacts
<1>3. C(p) = C(q)
  OBVIOUS
<1> HIDE DEF C
<1>4. ~(p < q)
  BY <1>1, <1>3
<1>5. ~(q < p)
  BY <1>1, <1>3
<1> QED
  BY <1>2, <1>4, <1>5

LEMMA PartWithCount ==
    ASSUME NEW ts, TokensOK(ts), NEW o \in 1 .. Len(ts)
    PROVE  \A n \in Nat : n < Cardinality(PartsOf(ts, o)) => \E p : IsElement(ts, o, p, n)
<1> DEFINE size == Cardinality(PartsOf(ts, o))
           P == {n \in Nat : n < size => \E p : IsElement(ts, o, p, n)}
<1>1. size \in Nat /\ EndIn(ts, o) \in o .. Len(ts) /\ Len(ts) \in Nat
  BY PartsFinite, TokenFacts, ListFacts DEF TokensOK
<1>2. 0 \in P
  <2>1. CASE o < EndIn(ts, o)
    BY <2>1, PartFirst
  <2>2. CASE ~(o < EndIn(ts, o))
    <3>1. EndIn(ts, o) = o
      BY <1>1, <2>2
    <3>2. PartsOf(ts, o) = {}
      BY <3>1 DEF PartsOf, InsideOf
    <3>3. size = 0
      BY <3>2, FS_EmptySet
    <3> QED
      BY <3>3
  <2> QED
    BY <2>1, <2>2
<1>3. ASSUME NEW n \in Nat, n \in P PROVE n + 1 \in P
  <2> SUFFICES ASSUME n + 1 < size PROVE \E p : IsElement(ts, o, p, n + 1)
    OBVIOUS
  <2>1. n < size
    BY <1>1
  <2>2. PICK p : IsElement(ts, o, p, n)
    BY <1>3, <2>1
  <2>3. p \in PartsOf(ts, o) /\ n = Cardinality(Before(ts, o, p))
    BY <2>2 DEF IsElement
  <2>4. EndIn(ts, p) # EndIn(ts, o)
    BY <1>1, <2>3, PartNext
  <2>5. EndIn(ts, p) < EndIn(ts, o)
    <3>1. EndIn(ts, p) \in p .. EndIn(ts, o) /\ p \in 1 .. Len(ts)
      BY <2>3, PartFacts
    <3> QED
      BY <1>1, <2>4, <3>1
  <2> QED
    BY <2>3, <2>5, PartNext
<1> HIDE DEF P
<1>4. \A n \in Nat : n \in P
  BY <1>2, <1>3, AllNaturals
<1> QED
  BY <1>4 DEF P

LEMMA PartCount ==
    ASSUME NEW ts, TokensOK(ts), NEW o \in 1 .. Len(ts), NEW p \in PartsOf(ts, o), NEW n, n = Cardinality(Before(ts, o, p))
    PROVE  n \in Nat /\ n < Cardinality(PartsOf(ts, o))
<1>1. /\ EndIn(ts, p) \in p .. EndIn(ts, o) /\ p \in 1 .. Len(ts) /\ Cardinality(PartsOf(ts, o)) \in Nat
      /\ n \in Nat /\ EndIn(ts, o) \in o .. Len(ts)
  BY PartFacts, PartsFinite, TokenFacts
<1>2. EndIn(ts, p) < EndIn(ts, o) \/ EndIn(ts, p) = EndIn(ts, o)
  BY <1>1
<1>3. n + 1 < Cardinality(PartsOf(ts, o)) \/ n + 1 = Cardinality(PartsOf(ts, o))
  BY <1>2, PartNext
<1> QED
  BY <1>1, <1>3

\* A thing stays what it is when tables are made.
LEMMA ThingGrows ==
    ASSUME NEW ts, NEW tabs, NEW nx, NEW tabs2, NEW nx2, Grown(tabs, nx, tabs2, nx2), NEW thing, NEW v,
           ThingFor(ts, tabs, nx, thing, v)
    PROVE  ThingFor(ts, tabs2, nx2, thing, v)
<1>1. \A x \in 1 .. nx : x \in 1 .. nx2
  BY DEF Grown
<1>2. \A t \in 1 .. Len(tabs) : t \in 1 .. Len(tabs2) /\ tabs2[t].of = tabs[t].of
  BY DEF Grown
<1> QED
  BY <1>1, <1>2 DEF ThingFor

\* A field is found as before.
LEMMA FieldSame ==
    ASSUME NEW ts, NEW tabs, NEW nx, NEW tabs2, NEW nx2, Grown(tabs, nx, tabs2, nx2), NEW stk, NEW stk2,
           NEW t, NEW r, NEW v, NEW name, name = PathOf(ts, r, v), FieldIn(ts, tabs, nx, stk, t, r, v),
           name \in DOMAIN tabs2[t].map, tabs2[t].map[name] = tabs[t].map[name],
           ts[v].type = "ARRAY" => \A e \in PartsOf(ts, v) :
                ElementSet(stk2, t, name, Cardinality(Before(ts, v, e)))
                    <=> ElementSet(stk, t, name, Cardinality(Before(ts, v, e)))
    PROVE  FieldIn(ts, tabs2, nx2, stk2, t, r, v)
<1> DEFINE thing == tabs[t].map[name]
<1>1. /\ ThingFor(ts, tabs, nx, thing, v)
      /\ ts[v].type = "ARRAY" => ElementsOK(ts, tabs, nx, stk, t, name, thing.ele, v)
  BY DEF FieldIn
<1> HIDE DEF thing
<1>2. ThingFor(ts, tabs2, nx2, thing, v)
  BY <1>1, ThingGrows
<1>3. ASSUME ts[v].type = "ARRAY" PROVE ElementsOK(ts, tabs2, nx2, stk2, t, name, thing.ele, v)
  <2> SUFFICES ASSUME NEW e \in PartsOf(ts, v), NEW c, c = Cardinality(Before(ts, v, e))
               PROVE  IF ElementSet(stk2, t, name, c) THEN ThingFor(ts, tabs2, nx2, thing.ele[c + 1], e)
                      ELSE thing.ele[c + 1] = Undefined
    BY DEF ElementsOK
  <2>1. IF ElementSet(stk, t, name, c) THEN ThingFor(ts, tabs, nx, thing.ele[c + 1], e)
        ELSE thing.ele[c + 1] = Undefined
    BY <1>1, <1>3 DEF ElementsOK
  <2>2. ElementSet(stk2, t, name, c) <=> ElementSet(stk, t, name, c)
    BY <1>3
  <2>3. ThingFor(ts, tabs, nx, thing.ele[c + 1], e) => ThingFor(ts, tabs2, nx2, thing.ele[c + 1], e)
    BY ThingGrows
  <2> QED
    BY <2>1, <2>2, <2>3
<1>4. tabs2[t].map[name] = thing
  BY DEF thing
<1> QED
  BY <1>2, <1>3, <1>4 DEF FieldIn

\* An array's next element is set.
LEMMA FieldElement ==
    ASSUME NEW ts, TokensOK(ts), NEW tabs, NEW nx, NEW tabs2, NEW nx2, Grown(tabs, nx, tabs2, nx2), NEW stk, NEW stk2,
           NEW t, NEW r, NEW a \in 1 .. Len(ts), ts[a].type = "ARRAY", NEW name, name = PathOf(ts, r, a),
           FieldIn(ts, tabs, nx, stk, t, r, a), NEW n \in Nat, NEW thing,
           name \in DOMAIN tabs2[t].map, tabs2[t].map[name] = [tabs[t].map[name] EXCEPT !.ele[n + 1] = thing],
           \A c \in Nat : ElementSet(stk, t, name, c) <=> c < n,
           \A c \in Nat : ElementSet(stk2, t, name, c) <=> c < n + 1,
           NEW o, IsElement(ts, a, o, n), ThingFor(ts, tabs2, nx2, thing, o)
    PROVE  FieldIn(ts, tabs2, nx2, stk2, t, r, a)
<1> DEFINE array == tabs[t].map[name]
           array2 == tabs2[t].map[name]
<1>1. ThingFor(ts, tabs, nx, array, a) /\ ElementsOK(ts, tabs, nx, stk, t, name, array.ele, a)
  BY DEF FieldIn
<1>2. array2 = [array EXCEPT !.ele[n + 1] = thing]
  OBVIOUS
<1> HIDE DEF array, array2
<1>3. /\ DOMAIN array = ThingFields /\ array.type = "ARRAY" /\ array.prim = "UNKNOWN"
      /\ IsList(array.ele) /\ Len(array.ele) = ts[a].size
  BY <1>1 DEF ThingFor
<1>4. /\ DOMAIN array2 = ThingFields /\ array2.type = "ARRAY" /\ array2.prim = "UNKNOWN"
      /\ array2.ele = [array.ele EXCEPT ![n + 1] = thing]
  BY <1>2, <1>3 DEF ThingFields
<1>5. n < ts[a].size
  BY PartCount, TokenFacts DEF IsElement
<1>6. IsSetAt(array.ele, n + 1, thing, array2.ele)
  <2>1. n + 1 \in 1 .. Len(array.ele)
    <3>1. ts[a].size \in Nat
      BY TokenFacts
    <3> QED
      BY <1>3, <1>5, <3>1
  <2> QED
    BY <1>3, <1>4, <2>1, ListSet
<1>7. ThingFor(ts, tabs2, nx2, array2, a)
  BY <1>3, <1>4, <1>6 DEF ThingFor, IsSetAt
<1>8. ElementsOK(ts, tabs2, nx2, stk2, t, name, array2.ele, a)
  <2> SUFFICES ASSUME NEW e \in PartsOf(ts, a), NEW c, c = Cardinality(Before(ts, a, e))
               PROVE  IF ElementSet(stk2, t, name, c) THEN ThingFor(ts, tabs2, nx2, array2.ele[c + 1], e)
                      ELSE array2.ele[c + 1] = Undefined
    BY DEF ElementsOK
  <2>1. IF ElementSet(stk, t, name, c) THEN ThingFor(ts, tabs, nx, array.ele[c + 1], e)
        ELSE array.ele[c + 1] = Undefined
    BY <1>1 DEF ElementsOK
  <2>2. c \in Nat /\ c < ts[a].size
    BY PartCount, TokenFacts
  <2>3. ElementSet(stk, t, name, c) <=> c < n
    BY <2>2
  <2>4. ElementSet(stk2, t, name, c) <=> c < n + 1
    BY <2>2
  <2>5. CASE c = n
    <3>1. e = o
      BY <2>5, PartByCount DEF IsElement
    <3>2. array2.ele[c + 1] = thing
      BY <1>6, <2>5 DEF IsSetAt
    <3> QED
      BY <2>4, <2>5, <3>1, <3>2
  <2>6. CASE c # n
    <3>1. c < n + 1 <=> c < n
      BY <2>2, <2>6
    <3>2. array2.ele[c + 1] = array.ele[c + 1]
      <4>1. c + 1 \in 1 .. Len(array.ele) /\ c + 1 # n + 1
        <5>1. ts[a].size \in Nat
          BY TokenFacts
        <5> QED
          BY <1>3, <2>2, <2>6, <5>1
      <4> QED
        BY <1>6, <4>1 DEF IsSetAt
    <3>3. ThingFor(ts, tabs, nx, array.ele[c + 1], e) => ThingFor(ts, tabs2, nx2, array.ele[c + 1], e)
      BY ThingGrows
    <3> QED
      BY <2>1, <2>3, <2>4, <3>1, <3>2, <3>3
  <2> QED
    BY <2>5, <2>6
<1>9. tabs2[t].map[name] = array2
  BY DEF array2
<1> QED
  BY <1>7, <1>8, <1>9 DEF FieldIn

\* In the table t the entries for N were changed, and what is mapped in it is
\* mapped still.
EntriesBut(tabs, tabs2, t, N) ==
    \A n : n \notin N =>
        /\ n \in DOMAIN tabs2[t].map <=> n \in DOMAIN tabs[t].map
        /\ n \in DOMAIN tabs[t].map => tabs2[t].map[n] = tabs[t].map[n]
ElementsBut(stk, stk2, t, N) ==
    \A n : n \notin N => \A c \in Nat : ElementSet(stk2, t, n, c) <=> ElementSet(stk, t, n, c)

\* Entries that were changed, and the fields that are found then.
EntriesSay(ts, tabs, t, r, N, D, B) ==
    \A n \in N \cap DOMAIN tabs[t].map :
        n \in NamesFrom(ts, r, D, B) /\ (n \notin Paths(ts, r) => tabs[t].map[n].type = "TEXT")
FieldsSay(ts, tabs, nx, stk, t, r, N, old, D) ==
    NoClash(ts, r) => \A v \in D : LastOf(ts, r, D, v) =>
        \/ v \in old /\ PathOf(ts, r, v) \notin N
        \/ FieldIn(ts, tabs, nx, stk, t, r, v)

LEMMA SaysChanges ==
    ASSUME NEW ts, TokensOK(ts), NEW tabs, NEW nx, NEW tabs2, NEW nx2, Grown(tabs, nx, tabs2, nx2),
           NEW stk, NEW stk2, NEW t \in 1 .. Len(tabs), TableSays(ts, tabs, nx, stk, t),
           NEW r, r = tabs[t].of, NEW N, EntriesBut(tabs, tabs2, t, N), ElementsBut(stk, stk2, t, N),
           NEW D2, D2 = Done(ts, stk2, t, r), NEW B2, B2 = Begun(ts, stk2, t, r),
           Done(ts, stk, t, r) \subseteq D2, Begun(ts, stk, t, r) \subseteq B2,
           EntriesSay(ts, tabs2, t, r, N, D2, B2),
           FieldsSay(ts, tabs2, nx2, stk2, t, r, N, Done(ts, stk, t, r), D2)
    PROVE  TableSays(ts, tabs2, nx2, stk2, t)
<1> DEFINE D == Done(ts, stk, t, r)
           B == Begun(ts, stk, t, r)
<1>1. tabs2[t].of = r /\ r \in 1 .. Len(ts)
  BY DEF Grown, TableSays
<1>2. \A n \in DOMAIN tabs2[t].map :
        n \in NamesFrom(ts, r, D2, B2) /\ (n \notin Paths(ts, r) => tabs2[t].map[n].type = "TEXT")
  <2> SUFFICES ASSUME NEW n \in DOMAIN tabs2[t].map, n \notin N
               PROVE  n \in NamesFrom(ts, r, D2, B2) /\ (n \notin Paths(ts, r) => tabs2[t].map[n].type = "TEXT")
    BY DEF EntriesSay
  <2>1. n \in DOMAIN tabs[t].map /\ tabs2[t].map[n] = tabs[t].map[n]
    BY DEF EntriesBut
  <2>2. n \in NamesFrom(ts, r, D, B) /\ (n \notin Paths(ts, r) => tabs[t].map[n].type = "TEXT")
    BY <2>1 DEF TableSays
  <2>3. D \subseteq D2 /\ B \subseteq B2
    OBVIOUS
  <2> HIDE DEF D, B
  <2>4. n \in NamesFrom(ts, r, D2, B2)
    BY <2>2, <2>3 DEF NamesFrom
  <2> QED
    BY <2>1, <2>2, <2>4
<1>3. ASSUME NoClash(ts, r), NEW v \in D2, LastOf(ts, r, D2, v) PROVE FieldIn(ts, tabs2, nx2, stk2, t, r, v)
  <2> DEFINE name == PathOf(ts, r, v)
  <2> SUFFICES ASSUME v \in D, name \notin N PROVE FieldIn(ts, tabs2, nx2, stk2, t, r, v)
    BY <1>3 DEF FieldsSay
  <2>1. D \subseteq D2
    OBVIOUS
  <2>2. LastOf(ts, r, D, v)
    BY <1>3, <2>1 DEF LastOf
  <2>3. FieldIn(ts, tabs, nx, stk, t, r, v)
    BY <1>3, <2>2 DEF TableSays
  <2>4. name \in DOMAIN tabs[t].map
    BY <2>3 DEF FieldIn
  <2>5. name \in DOMAIN tabs2[t].map /\ tabs2[t].map[name] = tabs[t].map[name]
    BY <2>4 DEF EntriesBut
  <2>6. v \in 1 .. Len(ts)
    <3>1. v \in Fields(ts, r)
      BY <1>3 DEF Done
    <3> QED
      BY <1>1, <3>1, FieldFacts
  <2>7. \A e : ElementSet(stk2, t, name, Cardinality(Before(ts, v, e)))
                    <=> ElementSet(stk, t, name, Cardinality(Before(ts, v, e)))
    <3>1. \A e : Cardinality(Before(ts, v, e)) \in Nat
      BY <2>6, PartsFinite
    <3> QED
      BY <3>1 DEF ElementsBut
  <2> HIDE DEF name
  <2>8. name = PathOf(ts, r, v)
    BY DEF name
  <2> QED
    BY <2>3, <2>5, <2>7, <2>8, FieldSame
<1> QED
  BY <1>1, <1>2, <1>3 DEF TableSays

\* The calls' elements change only where the top call's do.
InElements(f) == f.place \in {"ele", "eleskip"}

LEMMA ElementsKept ==
    ASSUME NEW stk, NEW stk2, NEW L \in Nat \ {0}, Len(stk) = L, Len(stk2) \in Nat, L <= Len(stk2) + 1,
           \A k \in 1 .. L - 1 : stk2[k] = stk[k],
           NEW t, NEW N, InElements(stk[L]) /\ stk[L].st = t => stk[L].name \in N,
           \A k \in L .. Len(stk2) : InElements(stk2[k]) /\ stk2[k].st = t => stk2[k].name \in N
    PROVE  ElementsBut(stk, stk2, t, N)
<1> SUFFICES ASSUME NEW n, n \notin N, NEW c \in Nat
             PROVE  ElementSet(stk2, t, n, c) <=> ElementSet(stk, t, n, c)
  BY DEF ElementsBut
<1> DEFINE Low == \A k \in 1 .. L - 1 : stk[k].st = t /\ stk[k].name = n =>
                        /\ stk[k].place = "ele" => c < stk[k].n
                        /\ stk[k].place = "eleskip" => c <= stk[k].n
<1>1. \A k : k \in 1 .. L <=> k \in 1 .. L - 1 \/ k = L
  OBVIOUS
<1>2. \A k : k \in 1 .. Len(stk2) <=> k \in 1 .. L - 1 \/ k \in L .. Len(stk2)
  OBVIOUS
<1>3. ElementSet(stk, t, n, c) <=> Low
  BY <1>1 DEF ElementSet, InElements
<1>4. ElementSet(stk2, t, n, c) <=> Low
  BY <1>2 DEF ElementSet, InElements
<1> QED
  BY <1>3, <1>4

\* How many elements of the array are in it that one call, f, is at.
ElementsIn(f) == IF f.place = "eleskip" THEN f.n + 1 ELSE f.n

LEMMA ElementsOfCall ==
    ASSUME NEW stk, NEW l \in 1 .. Len(stk), NEW f, f = stk[l], InElements(f), f.n \in Nat,
           \A j \in 1 .. Len(stk) : j # l /\ stk[j].st = f.st => ~InElements(stk[j])
    PROVE  \A c \in Nat : ElementSet(stk, f.st, f.name, c) <=> c < ElementsIn(f)
<1> SUFFICES ASSUME NEW c \in Nat
             PROVE  ElementSet(stk, f.st, f.name, c) <=> c < ElementsIn(f)
  OBVIOUS
<1>1. c <= f.n <=> c < f.n + 1
  OBVIOUS
<1>2. ElementSet(stk, f.st, f.name, c) <=>
            (f.place = "ele" => c < f.n) /\ (f.place = "eleskip" => c <= f.n)
  BY DEF ElementSet, InElements
<1> QED
  BY <1>1, <1>2 DEF ElementsIn, InElements

\* What a step leaves of the elements that calls are at, and in tables.
StackBut(N) ==
    /\ ElementsBut(stack, stack', Top.st, N)
    /\ \A t : t # Top.st => ElementsBut(stack, stack', t, {})
TablesBut(N) ==
    /\ EntriesBut(tables, tables', Top.st, N)
    /\ \A t \in 1 .. Len(tables) : t # Top.st => tables'[t].map = tables[t].map
AllSay(tabs, nx, stk) == \A t \in 1 .. Len(tabs) : TableSays(toks, tabs, nx, stk, t)

\* The call on top has moved on to g, and has maybe made another.
Moved(g) ==
    /\ Len(stack') \in Nat /\ Len(stack) <= Len(stack')
    /\ stack'[Len(stack)] = g /\ \A k \in 1 .. Len(stack) - 1 : stack'[k] = stack[k]
    /\ \A k \in Len(stack) + 1 .. Len(stack') : stack'[k].place = "name"

LEMMA MovedSet == ASSUME Parsing, NEW g, stack' = SetTop(g) PROVE Moved(g)
<1> DEFINE L == Len(stack)
<1>1. IsList(stack) /\ L \in Nat \ {0} /\ L \in 1 .. L
  BY ParsingFacts
<1>2. IsSetAt(stack, L, g, stack')
  BY <1>1, ListSet DEF SetTop
<1> QED
  BY <1>1, <1>2 DEF IsSetAt, Moved

LEMMA MovedCall ==
    ASSUME Parsing, NEW g, NEW callee, callee.place = "name", stack' = Call(g, callee)
    PROVE  Moved(g)
<1> DEFINE L == Len(stack)
<1>1. IsList(stack) /\ L \in Nat \ {0} /\ L \in 1 .. L
  BY ParsingFacts
<1>2. IsSetAt(stack, L, g, SetTop(g))
  BY <1>1, ListSet DEF SetTop
<1>3. IsAppended(SetTop(g), callee, stack')
  BY <1>2, ListAppend DEF Call, IsSetAt
<1>4. /\ Len(stack') = L + 1 /\ stack'[L] = g /\ stack'[L + 1] = callee
      /\ \A k \in 1 .. L - 1 : stack'[k] = stack[k]
  BY <1>1, <1>2, <1>3 DEF IsSetAt, IsAppended
<1> QED
  BY <1>1, <1>4 DEF Moved

LEMMA MovedElements ==
    ASSUME Parsing, NEW g, g.st = Top.st, Moved(g), NEW N,
           InElements(Top) => Top.name \in N, InElements(g) => g.name \in N
    PROVE  StackBut(N)
<1> DEFINE L == Len(stack)
<1>1. IsList(stack) /\ L \in Nat \ {0} /\ Top = stack[L]
  BY ParsingFacts
<1>2. /\ L <= Len(stack') + 1 /\ Len(stack') \in Nat /\ L <= Len(stack')
      /\ stack'[L] = g /\ \A k \in 1 .. L - 1 : stack'[k] = stack[k]
      /\ \A k \in L + 1 .. Len(stack') : stack'[k].place = "name"
  BY <1>1 DEF Moved
<1>3. \A M, t : (t = Top.st => M = N) => ElementsBut(stack, stack', t, M)
  <2> SUFFICES ASSUME NEW M, NEW t, t = Top.st => M = N PROVE ElementsBut(stack, stack', t, M)
    OBVIOUS
  <2>1. InElements(stack[L]) /\ stack[L].st = t => stack[L].name \in M
    BY <1>1
  <2>2. \A k \in L .. Len(stack') : InElements(stack'[k]) /\ stack'[k].st = t => stack'[k].name \in M
    <3>1. \A k \in L .. Len(stack') : k = L \/ k \in L + 1 .. Len(stack')
      BY <1>1, <1>2
    <3> QED
      BY <1>2, <3>1 DEF InElements
  <2> HIDE DEF L
  <2>3. Len(stack) = L
    BY DEF L
  <2> QED
    BY <1>1, <1>2, <2>1, <2>2, <2>3, ElementsKept
<1> QED
  BY <1>3 DEF StackBut

\* How many elements of the array the call is at are in it.
LEMMA MovedCounts ==
    ASSUME Parsing, InElements(Top), NEW g, g.st = Top.st, g.name = Top.name, Moved(g)
    PROVE  /\ \A c \in Nat : ElementSet(stack, Top.st, Top.name, c) <=> c < ElementsIn(Top)
           /\ InElements(g) /\ g.n \in Nat =>
                    \A c \in Nat : ElementSet(stack', Top.st, Top.name, c) <=> c < ElementsIn(g)
           /\ ~InElements(g) => \A c : ElementSet(stack', Top.st, Top.name, c)
<1> DEFINE L == Len(stack)
           f == Top
<1>1. /\ HaveTables(tables, stack) /\ IsList(stack) /\ L \in Nat \ {0} /\ f = stack[L] /\ L \in 1 .. L
      /\ Len(tables) \in Nat /\ TokensOK(toks) /\ CallsNamed(toks, tables, Len(texts), stack)
      /\ f.first \in 1 .. Len(toks) /\ FrameOK(toks, f)
  BY ParsingFacts
<1>2. f.n \in Nat
  BY <1>1 DEF FrameOK
<1>3. \A j \in 1 .. L - 1 : stack[j].st = f.st => ~InElements(stack[j])
  BY <1>1, LowerCall DEF InElements
<1>4. \A j \in 1 .. L : j # L => j \in 1 .. L - 1
  BY <1>1
<1> HIDE DEF f, L
<1>5. \A c \in Nat : ElementSet(stack, f.st, f.name, c) <=> c < ElementsIn(f)
  BY <1>1, <1>2, <1>3, <1>4, ElementsOfCall DEF f, L
<1>6. \A j \in 1 .. Len(stack') : j # L /\ stack'[j].st = f.st => ~InElements(stack'[j])
  <2>1. \A j \in 1 .. Len(stack') : j \in 1 .. L - 1 \/ j = L \/ j \in L + 1 .. Len(stack')
    BY <1>1 DEF Moved, L
  <2> QED
    BY <1>3, <2>1 DEF Moved, L, InElements
<1>7. L \in 1 .. Len(stack') /\ g = stack'[L]
  BY <1>1 DEF Moved, L
<1>8. ASSUME InElements(g), g.n \in Nat
      PROVE  \A c \in Nat : ElementSet(stack', f.st, f.name, c) <=> c < ElementsIn(g)
  <2>1. g.st = f.st /\ g.name = f.name
    BY DEF f
  <2> QED
    BY <1>6, <1>7, <1>8, <2>1, ElementsOfCall
<1>9. ASSUME ~InElements(g) PROVE \A c : ElementSet(stack', f.st, f.name, c)
  <2>1. \A j \in 1 .. Len(stack') : stack'[j].st = f.st => ~InElements(stack'[j])
    BY <1>6, <1>7, <1>9
  <2> QED
    BY <2>1 DEF ElementSet, InElements
<1> QED
  BY <1>5, <1>8, <1>9 DEF f

LEMMA ReturnElements ==
    ASSUME Parsing, Top.place = "name", stack' = Front(stack)
    PROVE  StackBut({})
<1> DEFINE L == Len(stack)
<1>1. IsList(stack) /\ L \in Nat \ {0} /\ Top = stack[L]
  BY ParsingFacts
<1>2. Len(stack') = L - 1 /\ \A k \in 1 .. L - 1 : stack'[k] = stack[k]
  BY <1>1, ListFront
<1>3. L <= Len(stack') + 1 /\ Len(stack') \in Nat /\ L .. Len(stack') = {}
  BY <1>1, <1>2
<1>4. \A t : ElementsBut(stack, stack', t, {})
  <2> SUFFICES ASSUME NEW t PROVE ElementsBut(stack, stack', t, {})
    OBVIOUS
  <2>1. ~InElements(stack[L])
    BY <1>1 DEF InElements
  <2> HIDE DEF L
  <2>2. Len(stack) = L
    BY DEF L
  <2> QED
    BY <1>1, <1>2, <1>3, <2>1, <2>2, ElementsKept
<1> QED
  BY <1>4 DEF StackBut

\* The fields that are mapped after a step.
LEMMA DoneMoves ==
    ASSUME NEW ts, NEW tabs, NEW stk, NEW stk2, NEW st, NEW U, NEW W, Advances(ts, tabs, stk, stk2, st, U, W),
           NEW t \in 1 .. Len(tabs), NEW r, r = tabs[t].of
    PROVE  /\ Done(ts, stk2, t, r) = Done(ts, stk, t, r) \cup (IF t = st THEN U \cap Fields(ts, r) ELSE {})
           /\ Begun(ts, stk2, t, r) = Begun(ts, stk, t, r) \cup (IF t = st THEN W \cap Fields(ts, r) ELSE {})
<1>1. \A v \in Fields(ts, r) :
        /\ AllPast(ts, stk2, t, v) <=> AllPast(ts, stk, t, v) \/ (t = st /\ v \in U)
        /\ AllBegan(ts, stk2, t, v) <=> AllBegan(ts, stk, t, v) \/ (t = st /\ v \in W)
  BY DEF Advances
<1>2. \A v : v \in Done(ts, stk2, t, r) <=>
                v \in Done(ts, stk, t, r) \cup (IF t = st THEN U \cap Fields(ts, r) ELSE {})
  BY <1>1 DEF Done
<1>3. \A v : v \in Begun(ts, stk2, t, r) <=>
                v \in Begun(ts, stk, t, r) \cup (IF t = st THEN W \cap Fields(ts, r) ELSE {})
  BY <1>1 DEF Begun
<1> QED
  BY <1>2, <1>3

LEMMA SaysStep ==
    ASSUME Parsing, Grows, NEW U, NEW W, StepCalls(U, W), AllSay(tables, Len(texts), stack),
           NEW N, StackBut(N), TablesBut(N), NEW st, st = Top.st, NEW r, r = tables[st].of,
           NEW D2, D2 = Done(toks, stack, st, r) \cup (U \cap FieldsOfTop),
           NEW B2, B2 = Begun(toks, stack, st, r) \cup (W \cap FieldsOfTop),
           EntriesSay(toks, tables', st, r, N, D2, B2),
           FieldsSay(toks, tables', Len(texts'), stack', st, r, N, Done(toks, stack, st, r), D2)
    PROVE  \A t \in 1 .. Len(tables) : TableSays(toks, tables', Len(texts'), stack', t)
<1> SUFFICES ASSUME NEW t \in 1 .. Len(tables) PROVE TableSays(toks, tables', Len(texts'), stack', t)
  OBVIOUS
<1>1. TokensOK(toks) /\ st \in 1 .. Len(tables)
  BY ParsingFacts
<1>2. /\ Grown(tables, Len(texts), tables', Len(texts')) /\ TableSays(toks, tables, Len(texts), stack, t)
      /\ Advances(toks, tables, stack, stack', st, U, W)
  BY DEF Grows, AllSay, StepCalls
<1>3. CASE t = st
  <2>1. D2 = Done(toks, stack', t, r) /\ B2 = Begun(toks, stack', t, r)
    BY <1>2, <1>3, DoneMoves DEF FieldsOfTop
  <2>2. Done(toks, stack, t, r) \subseteq D2 /\ Begun(toks, stack, t, r) \subseteq B2
    BY <1>3
  <2>3. EntriesBut(tables, tables', t, N) /\ ElementsBut(stack, stack', t, N)
    BY <1>3 DEF TablesBut, StackBut
  <2>4. r = tables[t].of
    BY <1>3
  <2>5. /\ EntriesSay(toks, tables', t, r, N, D2, B2)
        /\ FieldsSay(toks, tables', Len(texts'), stack', t, r, N, Done(toks, stack, t, r), D2)
    BY <1>3
  <2> QED
    BY <1>1, <1>2, <2>1, <2>2, <2>3, <2>4, <2>5, SaysChanges, ZenonT(60)
<1>4. CASE t # st
  <2> DEFINE q == tables[t].of
             D == Done(toks, stack', t, q)
             B == Begun(toks, stack', t, q)
  <2>1. D = Done(toks, stack, t, q) /\ B = Begun(toks, stack, t, q)
    <3> HIDE DEF q
    <3>1. /\ D = Done(toks, stack, t, q) \cup (IF t = st THEN U \cap Fields(toks, q) ELSE {})
          /\ B = Begun(toks, stack, t, q) \cup (IF t = st THEN W \cap Fields(toks, q) ELSE {})
      BY <1>2, DoneMoves DEF q
    <3> QED
      BY <1>4, <3>1
  <2>2. tables'[t].map = tables[t].map /\ ElementsBut(stack, stack', t, {})
    BY <1>4 DEF TablesBut, StackBut
  <2>3. EntriesBut(tables, tables', t, {})
    BY <2>2 DEF EntriesBut
  <2> HIDE DEF q
  <2>4. q = tables[t].of
    BY DEF q
  <2>5. FieldsSay(toks, tables', Len(texts'), stack', t, q, {}, Done(toks, stack, t, q), D)
    BY <2>1 DEF FieldsSay
  <2>6. Done(toks, stack, t, q) \subseteq D /\ Begun(toks, stack, t, q) \subseteq B
    BY <2>1
  <2>7. D = Done(toks, stack', t, q) /\ B = Begun(toks, stack', t, q)
    OBVIOUS
  <2>8. EntriesSay(toks, tables', t, q, {}, D, B)
    BY DEF EntriesSay
  <2> HIDE DEF D, B
  <2> QED
    BY <1>1, <1>2, <2>2, <2>3, <2>4, <2>5, <2>6, <2>7, <2>8, SaysChanges
<1> QED
  BY <1>3, <1>4

\* A field that is mapped and has the name of the value the call is at does not
\* count any more; of those with the name of the array, only the array does.
LEMMA BehindValue ==
    ASSUME Parsing, NEW f, f = Top, f.place \in {"value", "again"}, NEW r, r = tables[f.st].of,
           NEW v \in Done(toks, stack, f.st, r), NEW D, f.i \in D, LastOf(toks, r, D, v)
    PROVE  v # f.i /\ PathOf(toks, r, v) # PathOf(toks, r, f.i)
<1>1. /\ HaveTables(tables, stack) /\ Len(stack) \in Nat \ {0} /\ f = stack[Len(stack)]
      /\ Len(tables) \in Nat /\ TokensOK(toks) /\ CallsNamed(toks, tables, Len(texts), stack)
      /\ f.first \in 1 .. Len(toks) /\ r \in 1 .. Len(toks)
  BY ParsingFacts
<1>2. /\ f.i \in 1 .. Len(toks) /\ IsValuePart(toks, f.first, f.i)
      /\ EndIn(toks, f.i) \in f.i .. EndIn(toks, f.first) /\ EndIn(toks, f.i) \in Nat
  BY AtValue
<1>3. v \in Fields(toks, r) /\ AllPast(toks, stack, f.st, v)
  BY DEF Done
<1>4. v \in 1 .. Len(toks) /\ EndIn(toks, v) \in v .. EndIn(toks, r)
  BY <1>1, <1>3, FieldFacts
<1>5. Past(toks, f, v)
  BY <1>1, <1>3 DEF AllPast
<1>6. /\ f.place = "value" => v < f.i
      /\ f.place = "again" => v < EndIn(toks, f.i) + 1 /\ v # f.i
  BY <1>5 DEF Past, Began, Cur
<1>7. v # f.i
  BY <1>2, <1>4, <1>6
<1>8. ASSUME PathOf(toks, r, v) = PathOf(toks, r, f.i) PROVE FALSE
  <2>1. f.i <= EndIn(toks, v) /\ v \notin InsideOf(toks, f.i)
    BY <1>7, <1>8 DEF LastOf
  <2>2. ~(v < f.i)
    <3>1. v < f.i => EndIn(toks, v) < f.i
      BY <1>1, <1>2, <1>3, PastWholly DEF IsValuePart
    <3> QED
      BY <1>1, <1>2, <1>4, <2>1, <3>1
  <2>3. v \in f.i + 1 .. EndIn(toks, f.i)
    BY <1>2, <1>4, <1>6, <1>7, <2>2
  <2> QED
    BY <2>1, <2>3 DEF InsideOf
<1> QED
  BY <1>7, <1>8

LEMMA BehindElement ==
    ASSUME Parsing, NEW f, f = Top, InElements(f), NEW r, r = tables[f.st].of, NEW a, InArray(toks, r, f, a)
    PROVE  /\ a \in Done(toks, stack, f.st, r)
           /\ \A v \in Done(toks, stack, f.st, r) :
                LastOf(toks, r, Done(toks, stack, f.st, r), v) /\ PathOf(toks, r, v) = f.name => v = a
<1> DEFINE D == Done(toks, stack, f.st, r)
           L == Len(stack)
<1>1. /\ HaveTables(tables, stack) /\ L \in Nat \ {0} /\ f = stack[L] /\ L \in 1 .. L
      /\ Len(tables) \in Nat /\ TokensOK(toks) /\ CallsNamed(toks, tables, Len(texts), stack)
      /\ f.first \in 1 .. Len(toks) /\ r \in 1 .. Len(toks)
  BY ParsingFacts
<1>2. /\ a \in Fields(toks, r) /\ f.name = PathOf(toks, r, a) /\ a < f.i /\ IsValuePart(toks, f.first, a)
      /\ a \in 1 .. Len(toks) /\ f.i \in Int
  <2>1. a \in Fields(toks, r) /\ f.name = PathOf(toks, r, a) /\ f.i \in a + 1 .. EndIn(toks, a) + 1
        /\ IsValuePart(toks, f.first, a)
    BY DEF InArray, ArrayAt
  <2>2. a \in 1 .. Len(toks) /\ EndIn(toks, a) \in a .. EndIn(toks, r)
    BY <1>1, <2>1, FieldFacts
  <2> QED
    BY <2>1, <2>2
<1>3. a \in f.first + 1 .. EndIn(toks, f.first)
  BY <1>2 DEF IsValuePart, PartsOf, InsideOf
<1>4. Past(toks, f, a)
  BY <1>2 DEF Past, Began, Cur, InElements
<1>5. a \in D
  <2>1. \A k \in 1 .. L - 1 : stack[k].st = f.st => Past(toks, stack[k], a)
    BY <1>1, <1>3, LowerPast
  <2>2. \A k \in 1 .. L : k \in 1 .. L - 1 \/ k = L
    BY <1>1
  <2> QED
    BY <1>1, <1>2, <1>4, <2>1, <2>2 DEF Done, AllPast
<1>6. ASSUME NEW v \in D, LastOf(toks, r, D, v), PathOf(toks, r, v) = f.name, v # a PROVE FALSE
  <2>1. a <= EndIn(toks, v) /\ v \notin InsideOf(toks, a)
    BY <1>2, <1>5, <1>6 DEF LastOf
  <2>2. v \in Fields(toks, r) /\ AllPast(toks, stack, f.st, v)
    BY DEF Done
  <2>3. v \in 1 .. Len(toks) /\ EndIn(toks, v) \in v .. EndIn(toks, r)
    BY <1>1, <2>2, FieldFacts
  <2>4. Past(toks, f, v)
    BY <1>1, <2>2 DEF AllPast
  <2>5. v < f.i
    BY <2>4 DEF Past, Began, Cur, InElements
  <2>6. v <= a
    BY <1>1, <2>2, <2>5, InArrayFields
  <2>7. v < a
    BY <1>2, <1>6, <2>3, <2>6
  <2>8. EndIn(toks, v) < a
    BY <1>1, <1>2, <2>2, <2>7, PastWholly DEF IsValuePart
  <2> QED
    BY <1>2, <2>1, <2>3, <2>8
<1> QED
  BY <1>5, <1>6

-----------------------------------------------------------------------------
(* The steps, and what tables say after them.                              *)

\* The numbers that the parser reads of primitives.
NumbersOK(ts) ==
    \A k \in 1 .. Len(ts) : ts[k].type = "PRIMITIVE" =>
        (ts[k].text = "true" => ts[k].num = 1) /\ (ts[k].text \in {"false", "null"} => ts[k].num = 0)

LEMMA ScalarThing ==
    ASSUME NEW ts, NumbersOK(ts), NEW k \in 1 .. Len(ts), ts[k].type \in {"STRING", "PRIMITIVE"},
           NEW tabs, NEW nx, NEW x \in 1 .. nx
    PROVE  ThingFor(ts, tabs, nx, Scalar(ts[k], x), k)
<1> DEFINE tok == ts[k]
<1>1. tok.type = "PRIMITIVE" => Fv(tok) = tok.num
  BY DEF NumbersOK, Fv
<1> QED
  BY <1>1 DEF ThingFor, Scalar, Thing, ThingFields

LEMMA NewThing ==
    ASSUME NEW ts, NEW k, ts[k].type = "OBJECT", NEW tabs, NEW nx, NEW m \in Nat, Len(tabs) = m + 1, tabs[m + 1].of = k
    PROVE  ThingFor(ts, tabs, nx, ObjectThing(m + 1), k)
BY DEF ThingFor, ObjectThing, Thing, ThingFields

\* Steps that map nothing.
LEMMA TablesSame ==
    ASSUME UNCHANGED tables, NEW N
    PROVE  TablesBut(N)
BY DEF TablesBut, EntriesBut

LEMMA NothingMapped ==
    ASSUME Parsing, AllSay(tables, Len(texts), stack), UNCHANGED <<tables, texts>>, StepCalls({}, {}), StackBut({})
    PROVE  AllSay(tables', Len(texts'), stack')
<1> DEFINE st == Top.st
           r == tables[st].of
           D == Done(toks, stack, st, r)
           B == Begun(toks, stack, st, r)
<1>1. D = D \cup ({} \cap FieldsOfTop) /\ B = B \cup ({} \cap FieldsOfTop)
  OBVIOUS
<1>2. EntriesSay(toks, tables', st, r, {}, D, B)
  BY DEF EntriesSay
<1>3. FieldsSay(toks, tables', Len(texts'), stack', st, r, {}, D, D)
  BY DEF FieldsSay
<1>4. Grows /\ TablesBut({})
  BY OthersGrow, TablesSame
<1>5. st = Top.st /\ r = tables[st].of /\ D = Done(toks, stack, st, r) /\ B = Begun(toks, stack, st, r)
  OBVIOUS
<1> HIDE DEF st, r, D, B
<1>6. \A t \in 1 .. Len(tables) : TableSays(toks, tables', Len(texts'), stack', t)
  BY <1>1, <1>2, <1>3, <1>4, <1>5, SaysStep
<1> QED
  BY <1>6 DEF AllSay

LEMMA NameSays ==
    ASSUME Parsing, AllSay(tables, Len(texts), stack), Name
    PROVE  AllSay(tables', Len(texts'), stack')
<1> DEFINE f == Top
           g == [f EXCEPT !.name = Path(f.prefix, toks[f.i].text), !.i = @ + 1, !.place = "value"]
<1>1. f.place = "name" /\ stack' = SetTop(g) /\ UNCHANGED <<tables, texts>>
  BY DEF Name, At
<1>2. IsFrame(f)
  BY ParsingFacts
<1>3. g.st = f.st /\ g.place = "value"
  BY <1>2 DEF IsFrame, FrameFields
<1> HIDE DEF g
<1>4. StackBut({})
  BY <1>1, <1>3, MovedSet, MovedElements DEF InElements
<1> QED
  BY <1>1, <1>4, OthersGrow, NameCalls, NothingMapped

LEMMA ObjectSkipSays ==
    ASSUME Parsing, AllSay(tables, Len(texts), stack), ObjectSkip
    PROVE  AllSay(tables', Len(texts'), stack')
<1> DEFINE f == Top
           g == [f EXCEPT !.i = SkipWithin(f, f.i) + 1, !.place = "name"]
<1>1. f.place = "skip" /\ stack' = SetTop(g) /\ UNCHANGED <<tables, texts>>
  BY DEF ObjectSkip, At
<1>2. IsFrame(f)
  BY ParsingFacts
<1>3. g.st = f.st /\ g.place = "name"
  BY <1>2 DEF IsFrame, FrameFields
<1> HIDE DEF g
<1>4. StackBut({})
  BY <1>1, <1>3, MovedSet, MovedElements DEF InElements
<1> QED
  BY <1>1, <1>4, OthersGrow, ObjectSkipCalls, NothingMapped

LEMMA ObjectDoneSays ==
    ASSUME Parsing, AllSay(tables, Len(texts), stack), ObjectDone
    PROVE  AllSay(tables', Len(texts'), stack')
<1>1. Top.place = "name" /\ stack' = Front(stack) /\ UNCHANGED <<tables, texts>>
  BY DEF ObjectDone, At, Return
<1> QED
  BY <1>1, OthersGrow, ReturnElements, ObjectDoneCalls, NothingMapped

\* Steps at an element: the array may change.
LEMMA ElementSays ==
    ASSUME Parsing, AllSay(tables, Len(texts), stack), NEW f, f = Top, InElements(f),
           Grows, StepCalls({}, {}), StackBut({f.name}), TablesBut({f.name}),
           NEW r, r = tables[f.st].of, NEW a, InArray(toks, r, f, a),
           f.name \in DOMAIN tables'[f.st].map => f.name \in DOMAIN tables[f.st].map,
           FieldIn(toks, tables, Len(texts), stack, f.st, r, a) =>
                FieldIn(toks, tables', Len(texts'), stack', f.st, r, a)
    PROVE  \A t \in 1 .. Len(tables) : TableSays(toks, tables', Len(texts'), stack', t)
<1> DEFINE st == f.st
           D == Done(toks, stack, st, r)
           B == Begun(toks, stack, st, r)
<1>1. D = D \cup ({} \cap FieldsOfTop) /\ B = B \cup ({} \cap FieldsOfTop)
  OBVIOUS
<1>2. /\ st = Top.st /\ r = tables[st].of /\ D = Done(toks, stack, st, r) /\ B = Begun(toks, stack, st, r)
      /\ st \in 1 .. Len(tables)
  BY ParsingFacts
<1>3. a \in Fields(toks, r) /\ f.name = PathOf(toks, r, a)
  BY DEF InArray
<1>4. TableSays(toks, tables, Len(texts), stack, st)
  BY <1>2 DEF AllSay
<1>5. EntriesSay(toks, tables', st, r, {f.name}, D, B)
  <2>1. f.name \in DOMAIN tables[st].map => f.name \in NamesFrom(toks, r, D, B)
    BY <1>4 DEF TableSays
  <2>2. f.name \in Paths(toks, r)
    BY <1>3 DEF Paths
  <2> HIDE DEF D, B
  <2> QED
    BY <2>1, <2>2 DEF EntriesSay
<1>6. FieldsSay(toks, tables', Len(texts'), stack', st, r, {f.name}, D, D)
  <2> SUFFICES ASSUME NoClash(toks, r), NEW v \in D, LastOf(toks, r, D, v), PathOf(toks, r, v) = f.name
               PROVE  FieldIn(toks, tables', Len(texts'), stack', st, r, v)
    BY DEF FieldsSay
  <2>1. v = a
    BY BehindElement
  <2>2. FieldIn(toks, tables, Len(texts), stack, st, r, v)
    BY <1>4 DEF TableSays
  <2> QED
    BY <2>1, <2>2
<1> HIDE DEF st, D, B
<1>7. st = f.st
  BY DEF st
<1> QED
  BY <1>1, <1>2, <1>5, <1>6, SaysStep

\* The array and the element that the call is at, before a step and after.
LEMMA AtArray ==
    ASSUME Parsing, NEW f, f = Top, InElements(f), NEW r, r = tables[f.st].of
    PROVE  \E a : /\ InArray(toks, r, f, a) /\ a \in 1 .. Len(toks) /\ toks[a].type = "ARRAY"
                  /\ f.name = PathOf(toks, r, a) /\ f.size = Cardinality(PartsOf(toks, a))
                  /\ f.n < f.size => IsElement(toks, a, f.i + f.n, f.n)
<1>1. PICK a : InArray(toks, r, f, a) /\ a \in 1 .. Len(toks) /\ toks[a].type = "ARRAY"
  BY AtElements DEF InElements
<1>2. TokensOK(toks)
  BY ParsingFacts
<1>3. ArrayAt(toks, f, a) /\ f.name = PathOf(toks, r, a)
  BY <1>1 DEF InArray
<1> QED
  BY <1>1, <1>2, <1>3, TokenFacts DEF ArrayAt

LEMMA SetElementSays ==
    ASSUME Parsing, AllSay(tables, Len(texts), stack), NEW f, f = Top, f.place = "ele", f.n < f.size,
           Grows, StepCalls({}, {}), NEW g, g.st = f.st, g.name = f.name, Moved(g),
           InElements(g), g.n \in Nat, ElementsIn(g) = f.n + 1,
           NEW thing, ElementMade(tables, tables', f.st, f.name, f.n + 1, thing),
           ThingFor(toks, tables', Len(texts'), thing, f.i + f.n)
    PROVE  \A t \in 1 .. Len(tables) : TableSays(toks, tables', Len(texts'), stack', t)
<1> DEFINE r == tables[f.st].of
           nx == Len(texts)
           nx2 == Len(texts')
           st == f.st
           name == f.name
           n == f.n
<1>1. InElements(f) /\ TokensOK(toks) /\ n \in Nat
  BY ParsingFacts DEF InElements, FrameOK
<1>2. PICK a : /\ InArray(toks, r, f, a) /\ a \in 1 .. Len(toks) /\ toks[a].type = "ARRAY"
               /\ name = PathOf(toks, r, a) /\ IsElement(toks, a, f.i + n, n)
  BY <1>1, AtArray
<1>3. OneEntry(tables, tables', st, name) /\ (name \in DOMAIN tables'[st].map <=> name \in DOMAIN tables[st].map)
  BY DEF ElementMade
<1>4. StackBut({name})
  BY MovedElements
<1>5. TablesBut({name})
  BY <1>3 DEF TablesBut, EntriesBut, OneEntry
<1>6. /\ \A c \in Nat : ElementSet(stack, st, name, c) <=> c < n
      /\ \A c \in Nat : ElementSet(stack', st, name, c) <=> c < n + 1
  <2>1. ElementsIn(f) = n
    BY DEF ElementsIn
  <2> QED
    BY <1>1, <2>1, MovedCounts
<1>7. FieldIn(toks, tables, nx, stack, st, r, a) => FieldIn(toks, tables', nx2, stack', st, r, a)
  <2> SUFFICES ASSUME FieldIn(toks, tables, nx, stack, st, r, a) PROVE FieldIn(toks, tables', nx2, stack', st, r, a)
    OBVIOUS
  <2>1. name \in DOMAIN tables[st].map
    BY <1>2 DEF FieldIn
  <2>2. name \in DOMAIN tables'[st].map /\ tables'[st].map[name] = [tables[st].map[name] EXCEPT !.ele[n + 1] = thing]
    BY <1>3, <2>1 DEF ElementMade
  <2>3. Grown(tables, nx, tables', nx2)
    BY DEF Grows
  <2>4. ThingFor(toks, tables', nx2, thing, f.i + n)
    OBVIOUS
  <2> HIDE DEF r, nx, nx2, st, name, n
  <2> QED
    BY <1>1, <1>2, <1>6, <2>2, <2>3, <2>4, FieldElement
<1> QED
  BY <1>1, <1>2, <1>3, <1>4, <1>5, <1>7, ElementSays

LEMMA ScalarElementSays ==
    ASSUME Parsing, NumbersOK(toks), AllSay(tables, Len(texts), stack), ScalarElement
    PROVE  AllSay(tables', Len(texts'), stack')
<1> DEFINE f == Top
           g == [f EXCEPT !.n = @ + 1]
           k == f.i + f.n
           thing == Scalar(toks[k], f.text)
<1>1. f.place = "ele" /\ f.n < f.size /\ toks[k].type \in {"STRING", "PRIMITIVE"} /\ stack' = SetTop(g)
  BY DEF ScalarElement, AtElement, At
<1>2. IsFrame(f) /\ FrameOK(toks, f) /\ TokensOK(toks) /\ f.text \in 1 .. Len(texts) /\ f.n \in Nat
  BY ParsingFacts DEF Named, FrameOK
<1>3. g.st = f.st /\ g.name = f.name /\ g.place = "ele" /\ g.n = f.n + 1
  BY <1>1, <1>2 DEF IsFrame, FrameFields
<1>4. k \in 1 .. Len(toks)
  BY <1>1, <1>2, ElementFacts
<1>5. /\ ElementMade(tables, tables', f.st, f.name, f.n + 1, thing)
      /\ NoTable /\ UNCHANGED texts /\ Grows
  BY ScalarElementTables
<1>6. ThingFor(toks, tables', Len(texts'), thing, k)
  BY <1>1, <1>2, <1>4, <1>5, ScalarThing
<1> HIDE DEF g, thing
<1>7. StepCalls({}, {})
  BY <1>5, ScalarElementCalls
<1>8. Moved(g)
  BY <1>1, MovedSet
<1>9. InElements(g) /\ g.n \in Nat /\ ElementsIn(g) = f.n + 1
  BY <1>2, <1>3 DEF InElements, ElementsIn
<1>10. \A t \in 1 .. Len(tables) : TableSays(toks, tables', Len(texts'), stack', t)
  BY <1>1, <1>3, <1>5, <1>6, <1>7, <1>8, <1>9, SetElementSays
<1> QED
  BY <1>5, <1>10 DEF AllSay, NoTable

\* A table that was just made says nothing of its fields.
IsNewMap(map, x) == map = NoMap \/ map = OwnText(x)

LEMMA NewTableSays ==
    ASSUME NEW ts, TokensOK(ts), NEW o \in 1 .. Len(ts), NEW x, NEW new, IsNewMap(new, x),
           NEW tabs, NEW t, tabs[t] = NewTable(o, new), NEW nx,
           NEW stk, NEW k \in 1 .. Len(stk), NEW y, NEW prefix, stk[k] = Frame(t, y, prefix, o)
    PROVE  TableSays(ts, tabs, nx, stk, t)
<1>1. tabs[t].of = o /\ tabs[t].map = new
  BY DEF NewTable
<1>2. Done(ts, stk, t, o) = {}
  <2> SUFFICES ASSUME NEW v \in Fields(ts, o), AllPast(ts, stk, t, v) PROVE FALSE
    BY DEF Done
  <2>1. Frame(t, y, prefix, o).st = t
    BY DEF Frame
  <2>2. Past(ts, Frame(t, y, prefix, o), v)
    BY <2>1 DEF AllPast
  <2>3. v <= o
    BY <2>2, FieldsAtStart
  <2>4. v \in 1 .. Len(ts) /\ o < v
    BY FieldFacts
  <2> QED
    BY <2>3, <2>4
<1>3. \A n \in DOMAIN new : n = JSON_SYM_NAME /\ new[n].type = "TEXT"
  BY DEF IsNewMap, NoMap, OwnText, TextEntry, Thing
<1> QED
  BY <1>1, <1>2, <1>3 DEF TableSays, NamesFrom

\* With those that were there before, all tables.
LEMMA AllSayMore ==
    ASSUME Parsing, \A t \in 1 .. Len(tables) : TableSays(toks, tables', Len(texts'), stack', t),
           NEW o \in 1 .. Len(toks), NEW x, NEW new, IsNewMap(new, x),
           LastIs(tables', Len(tables), NewTable(o, new)),
           NEW g, NEW y, NEW prefix, stack' = Call(g, Frame(Len(tables) + 1, y, prefix, o))
    PROVE  AllSay(tables', Len(texts'), stack')
<1> DEFINE L == Len(stack)
           m == Len(tables)
           callee == Frame(m + 1, y, prefix, o)
<1>1. IsList(stack) /\ L \in Nat \ {0} /\ L \in 1 .. L /\ TokensOK(toks) /\ m \in Nat
  BY ParsingFacts
<1>2. IsSetAt(stack, L, g, SetTop(g))
  BY <1>1, ListSet DEF SetTop
<1>3. stack' = Append(SetTop(g), callee)
  BY DEF Call
<1> HIDE DEF callee
<1>4. IsAppended(SetTop(g), callee, stack')
  BY <1>2, <1>3, ListAppend DEF IsSetAt
<1>5. Len(stack') = L + 1 /\ stack'[L + 1] = callee
  BY <1>1, <1>2, <1>4 DEF IsSetAt, IsAppended
<1>6. tables'[m + 1] = NewTable(o, new) /\ Len(tables') = m + 1
  BY DEF LastIs
<1>7. L + 1 \in 1 .. Len(stack')
  BY <1>1, <1>5
<1>8. TableSays(toks, tables', Len(texts'), stack', m + 1)
  BY <1>1, <1>5, <1>6, <1>7, NewTableSays DEF callee
<1>9. \A t \in 1 .. Len(tables') : t \in 1 .. m \/ t = m + 1
  BY <1>1, <1>6
<1> HIDE DEF m
<1> QED
  BY <1>8, <1>9 DEF AllSay, m

LEMMA ObjectElementSays ==
    ASSUME Parsing, AllSay(tables, Len(texts), stack), ObjectElement
    PROVE  AllSay(tables', Len(texts'), stack')
<1> DEFINE f == Top
           g == [f EXCEPT !.place = "eleskip"]
           k == f.i + f.n
           m == Len(tables)
           thing == ObjectThing(m + 1)
           callee == Frame(m + 1, f.text, "", k)
<1>1. f.place = "ele" /\ f.n < f.size /\ toks[k].type = "OBJECT" /\ stack' = Call(g, callee)
  BY DEF ObjectElement, AtElement, At
<1>2. IsFrame(f) /\ FrameOK(toks, f) /\ TokensOK(toks) /\ f.n \in Nat /\ m \in Nat
  BY ParsingFacts DEF FrameOK
<1>3. g.st = f.st /\ g.name = f.name /\ g.place = "eleskip" /\ g.n = f.n
  BY <1>2 DEF IsFrame, FrameFields
<1>4. k \in 1 .. Len(toks)
  BY <1>1, <1>2, ElementFacts
<1>5. /\ ElementMade(tables, tables', f.st, f.name, f.n + 1, thing)
      /\ LastIs(tables', m, NewTable(k, NoMap)) /\ OneMore(k)
      /\ UNCHANGED texts /\ Grows
  BY ObjectElementTables
<1>6. ThingFor(toks, tables', Len(texts'), thing, k)
  BY <1>1, <1>2, <1>5, NewThing DEF OneMore
<1>7. callee.place = "name"
  BY DEF Frame
<1> HIDE DEF g, thing, callee
<1>8. StepCalls({}, {})
  BY <1>5, ObjectElementCalls
<1>9. Moved(g)
  BY <1>1, <1>7, MovedCall
<1>10. InElements(g) /\ g.n \in Nat /\ ElementsIn(g) = f.n + 1
  BY <1>2, <1>3 DEF InElements, ElementsIn
<1>11. \A t \in 1 .. m : TableSays(toks, tables', Len(texts'), stack', t)
  BY <1>1, <1>3, <1>5, <1>6, <1>8, <1>9, <1>10, SetElementSays
<1>12. \E prefix : stack' = Call(g, Frame(m + 1, f.text, prefix, k))
  <2>1. callee = Frame(m + 1, f.text, "", k)
    BY DEF callee
  <2>2. \E prefix : callee = Frame(m + 1, f.text, prefix, k)
    BY <2>1, Zenon
  <2> QED
    BY <1>1, <2>2
<1>13. LastIs(tables', Len(tables), NewTable(k, NoMap)) /\ IsNewMap(NoMap, 0)
  BY <1>5 DEF IsNewMap
<1> QED
  BY <1>4, <1>11, <1>12, <1>13, AllSayMore

\* The array as it is when the call has moved on.
LEMMA SameElementsSay ==
    ASSUME Parsing, AllSay(tables, Len(texts), stack), UNCHANGED <<tables, texts>>, NEW f, f = Top, InElements(f),
           StepCalls({}, {}), NEW g, g.st = f.st, Moved(g), InElements(g) => g.name = f.name,
           NEW size, size = f.size,
           \A c \in Nat : c < size =>
                (ElementSet(stack', f.st, f.name, c) <=> ElementSet(stack, f.st, f.name, c))
    PROVE  AllSay(tables', Len(texts'), stack')
<1> DEFINE r == tables[f.st].of
           nx == Len(texts)
           nx2 == Len(texts')
           st == f.st
           name == f.name
<1>1. Grows /\ TablesBut({name})
  BY OthersGrow, TablesSame
<1>2. StackBut({name})
  BY MovedElements
<1>3. TokensOK(toks)
  BY ParsingFacts
<1>4. PICK a : /\ InArray(toks, r, f, a) /\ a \in 1 .. Len(toks) /\ name = PathOf(toks, r, a)
               /\ size = Cardinality(PartsOf(toks, a))
  BY AtArray
<1>5. FieldIn(toks, tables, nx, stack, st, r, a) => FieldIn(toks, tables', nx2, stack', st, r, a)
  <2> SUFFICES ASSUME FieldIn(toks, tables, nx, stack, st, r, a) PROVE FieldIn(toks, tables', nx2, stack', st, r, a)
    OBVIOUS
  <2>1. name \in DOMAIN tables[st].map
    BY <1>4 DEF FieldIn
  <2>2. name \in DOMAIN tables'[st].map /\ tables'[st].map[name] = tables[st].map[name]
    BY <2>1
  <2>3. Grown(tables, nx, tables', nx2)
    BY <1>1 DEF Grows
  <2>4. \A e \in PartsOf(toks, a) :
            ElementSet(stack', st, name, Cardinality(Before(toks, a, e)))
                <=> ElementSet(stack, st, name, Cardinality(Before(toks, a, e)))
    <3>1. \A e \in PartsOf(toks, a) : Cardinality(Before(toks, a, e)) \in Nat /\ Cardinality(Before(toks, a, e)) < size
      BY <1>3, <1>4, PartCount
    <3> QED
      BY <3>1
  <2> HIDE DEF r, nx, nx2, st, name
  <2> QED
    BY <1>4, <2>2, <2>3, <2>4, FieldSame
<1>6. f.name \in DOMAIN tables'[f.st].map => f.name \in DOMAIN tables[f.st].map
  OBVIOUS
<1>7. \A t \in 1 .. Len(tables) : TableSays(toks, tables', Len(texts'), stack', t)
  BY <1>1, <1>2, <1>4, <1>5, <1>6, ElementSays
<1> QED
  BY <1>7 DEF AllSay

LEMMA ElementSkipSays ==
    ASSUME Parsing, AllSay(tables, Len(texts), stack), ElementSkip
    PROVE  AllSay(tables', Len(texts'), stack')
<1> DEFINE f == Top
           i == SkipWithin(f, f.i + f.n) - f.n
           g == [f EXCEPT !.i = i, !.n = @ + 1, !.place = "ele"]
<1>1. f.place = "eleskip" /\ stack' = SetTop(g) /\ UNCHANGED <<tables, texts>>
  BY DEF ElementSkip, At
<1>2. IsFrame(f) /\ f.n \in Nat
  BY ParsingFacts DEF FrameOK
<1>3. g.st = f.st /\ g.name = f.name /\ g.place = "ele" /\ g.n = f.n + 1
  BY <1>2 DEF IsFrame, FrameFields
<1> HIDE DEF g
<1>4. Moved(g)
  BY <1>1, MovedSet
<1>5. InElements(f) /\ InElements(g) /\ g.n \in Nat /\ ElementsIn(f) = ElementsIn(g)
  BY <1>1, <1>2, <1>3 DEF InElements, ElementsIn
<1>6. \A c \in Nat : ElementSet(stack', f.st, f.name, c) <=> ElementSet(stack, f.st, f.name, c)
  BY <1>3, <1>4, <1>5, MovedCounts
<1>7. StepCalls({}, {})
  BY <1>1, OthersGrow, ElementSkipCalls
<1> QED
  BY <1>1, <1>3, <1>4, <1>5, <1>6, <1>7, SameElementsSay

LEMMA ArrayDoneSays ==
    ASSUME Parsing, AllSay(tables, Len(texts), stack), ArrayDone
    PROVE  AllSay(tables', Len(texts'), stack')
<1> DEFINE f == Top
           g == [f EXCEPT !.i = @ + f.size, !.place = "name"]
<1>1. f.place = "ele" /\ f.n >= f.size /\ stack' = SetTop(g) /\ UNCHANGED <<tables, texts>>
  BY DEF ArrayDone, At
<1>2. IsFrame(f) /\ f.n \in Nat /\ f.size \in Nat
  BY ParsingFacts DEF FrameOK
<1>3. g.st = f.st /\ g.name = f.name /\ g.place = "name"
  BY <1>2 DEF IsFrame, FrameFields
<1> HIDE DEF g
<1>4. Moved(g)
  BY <1>1, MovedSet
<1>5. InElements(f) /\ ~InElements(g) /\ ElementsIn(f) = f.n
  BY <1>1, <1>3 DEF InElements, ElementsIn
<1>6. \A c \in Nat : c < f.size => (ElementSet(stack', f.st, f.name, c) <=> ElementSet(stack, f.st, f.name, c))
  <2>1. \A c \in Nat : c < f.size => c < ElementsIn(f)
    BY <1>1, <1>2, <1>5
  <2>2. \A c \in Nat : ElementSet(stack, f.st, f.name, c) <=> c < ElementsIn(f)
    BY <1>3, <1>4, <1>5, MovedCounts
  <2>3. \A c : ElementSet(stack', f.st, f.name, c)
    BY <1>3, <1>4, <1>5, MovedCounts
  <2> QED
    BY <2>1, <2>2, <2>3
<1>7. StepCalls({}, {})
  BY <1>1, OthersGrow, ArrayDoneCalls
<1> QED
  BY <1>1, <1>3, <1>4, <1>5, <1>6, <1>7, SameElementsSay

\* Steps at a value: it is mapped.
LEMMA ValueSays ==
    ASSUME Parsing, AllSay(tables, Len(texts), stack), NEW f, f = Top, f.place \in {"value", "again"},
           Grows, NEW W, StepCalls({f.i}, W), StackBut({f.name}),
           NEW thing, EntryMade(tables, tables', f.st, f.name, thing),
           NEW r, r = tables[f.st].of, FieldIn(toks, tables', Len(texts'), stack', f.st, r, f.i)
    PROVE  \A t \in 1 .. Len(tables) : TableSays(toks, tables', Len(texts'), stack', t)
<1> DEFINE st == f.st
           D == Done(toks, stack, st, r)
           D2 == D \cup ({f.i} \cap FieldsOfTop)
           B2 == Begun(toks, stack, st, r) \cup (W \cap FieldsOfTop)
<1>1. /\ f.i \in Fields(toks, r) /\ f.name = PathOf(toks, r, f.i)
  BY AtValue
<1>2. st = Top.st /\ r = tables[st].of /\ FieldsOfTop = Fields(toks, r)
  BY DEF FieldsOfTop
<1>3. f.i \in D2 /\ \A v \in D2 : v = f.i \/ v \in D
  BY <1>1, <1>2
<1>4. TablesBut({f.name})
  BY DEF TablesBut, EntriesBut, EntryMade, OneEntry
<1>5. EntriesSay(toks, tables', st, r, {f.name}, D2, B2)
  <2>1. f.name \in Paths(toks, r)
    BY <1>1 DEF Paths
  <2>2. f.i \in D2 /\ f.name = PathOf(toks, r, f.i)
    BY <1>1, <1>3
  <2> HIDE DEF D2, B2
  <2>3. f.name \in NamesFrom(toks, r, D2, B2)
    BY <2>2 DEF NamesFrom
  <2> QED
    BY <2>1, <2>3 DEF EntriesSay
<1>6. FieldsSay(toks, tables', Len(texts'), stack', st, r, {f.name}, D, D2)
  <2> SUFFICES ASSUME NEW v \in D2, LastOf(toks, r, D2, v), v # f.i
               PROVE  v \in D /\ PathOf(toks, r, v) \notin {f.name}
    BY DEF FieldsSay
  <2>1. v \in D
    BY <1>3
  <2> HIDE DEF D2
  <2>2. PathOf(toks, r, v) # PathOf(toks, r, f.i)
    BY <1>3, <2>1, BehindValue
  <2> QED
    BY <1>1, <2>1, <2>2
<1>7. D = Done(toks, stack, st, r) /\ D2 = D \cup ({f.i} \cap FieldsOfTop)
      /\ B2 = Begun(toks, stack, st, r) \cup (W \cap FieldsOfTop) /\ st = f.st
  OBVIOUS
<1> HIDE DEF D, D2, B2, st
<1> QED
  BY <1>2, <1>4, <1>5, <1>6, <1>7, SaysStep

LEMMA ScalarValueSays ==
    ASSUME Parsing, NumbersOK(toks), AllSay(tables, Len(texts), stack), ScalarValue
    PROVE  AllSay(tables', Len(texts'), stack')
<1> DEFINE f == Top
           g == [f EXCEPT !.i = @ + 1, !.place = "name"]
           r == tables[f.st].of
           thing == Scalar(toks[f.i], f.text)
<1>1. f.place = "value" /\ toks[f.i].type \in {"STRING", "PRIMITIVE"} /\ stack' = SetTop(g)
  BY DEF ScalarValue, At
<1>2. IsFrame(f) /\ f.text \in 1 .. Len(texts)
  BY ParsingFacts DEF Named
<1>3. g.st = f.st /\ g.place = "name"
  BY <1>2 DEF IsFrame, FrameFields
<1>4. f.i \in 1 .. Len(toks) /\ f.name = PathOf(toks, r, f.i)
  BY <1>1, AtValue
<1>5. EntryMade(tables, tables', f.st, f.name, thing) /\ NoTable /\ UNCHANGED texts /\ Grows
  BY ScalarValueTables
<1>6. ThingFor(toks, tables', Len(texts'), thing, f.i)
  BY <1>1, <1>2, <1>4, <1>5, ScalarThing
<1> HIDE DEF g, thing
<1>7. StepCalls({f.i}, {f.i})
  BY <1>5, ScalarValueCalls
<1>8. StackBut({f.name})
  BY <1>1, <1>3, MovedSet, MovedElements DEF InElements
<1>9. FieldIn(toks, tables', Len(texts'), stack', f.st, r, f.i)
  BY <1>1, <1>4, <1>5, <1>6 DEF EntryMade, FieldIn
<1>10. \A t \in 1 .. Len(tables) : TableSays(toks, tables', Len(texts'), stack', t)
  BY <1>1, <1>5, <1>7, <1>8, <1>9, ValueSays
<1> QED
  BY <1>5, <1>10 DEF AllSay, NoTable

LEMMA ArrayValueSays ==
    ASSUME Parsing, AllSay(tables, Len(texts), stack), ArrayValue
    PROVE  AllSay(tables', Len(texts'), stack')
<1> DEFINE f == Top
           size == toks[f.i].size
           g == [f EXCEPT !.i = @ + 1, !.n = 0, !.size = size, !.place = "ele"]
           r == tables[f.st].of
           ele == [k \in 1 .. size |-> Undefined]
           thing == Thing("ARRAY", "UNKNOWN", 0, 0, ele)
           nx2 == Len(texts')
<1>1. f.place = "value" /\ toks[f.i].type = "ARRAY" /\ stack' = SetTop(g)
  BY DEF ArrayValue, At
<1>2. IsFrame(f) /\ TokensOK(toks)
  BY ParsingFacts
<1>3. g.st = f.st /\ g.place = "ele" /\ g.name = f.name /\ g.n = 0
  BY <1>2 DEF IsFrame, FrameFields
<1>4. f.i \in 1 .. Len(toks) /\ f.name = PathOf(toks, r, f.i)
  BY <1>1, AtValue
<1>5. EntryMade(tables, tables', f.st, f.name, thing) /\ NoTable /\ UNCHANGED texts /\ Grows
  BY ArrayValueTables
<1>6. size \in Nat /\ size = Cardinality(PartsOf(toks, f.i))
  BY <1>1, <1>2, <1>4, TokenFacts
<1>7. IsList(ele) /\ Len(ele) = size
  <2>1. ele \in Seq({Undefined})
    BY <1>6
  <2> QED
    BY <1>6, <2>1, ListOf
<1>8. \A c \in Nat : c < size => ele[c + 1] = Undefined
  BY <1>6
<1> HIDE DEF g, ele
<1>9. thing.ele = ele /\ DOMAIN thing = ThingFields /\ thing.type = "ARRAY" /\ thing.prim = "UNKNOWN"
  BY DEF Thing, ThingFields
<1> HIDE DEF thing
<1>10. ThingFor(toks, tables', nx2, thing, f.i)
  BY <1>1, <1>7, <1>9 DEF ThingFor
<1>11. StepCalls({f.i}, {f.i})
  BY <1>5, ArrayValueCalls
<1>12. Moved(g)
  BY <1>1, MovedSet
<1>13. StackBut({f.name})
  BY <1>1, <1>3, <1>12, MovedElements DEF InElements
<1>14. \A c \in Nat : ~ElementSet(stack', f.st, f.name, c)
  <2> DEFINE L == Len(stack)
  <2>1. L \in Nat \ {0} /\ L \in 1 .. L
    BY ParsingFacts
  <2>2. L \in 1 .. Len(stack') /\ stack'[L] = g
    BY <1>12, <2>1 DEF Moved
  <2> HIDE DEF L
  <2> QED
    BY <1>3, <2>2 DEF ElementSet
<1>15. ElementsOK(toks, tables', nx2, stack', f.st, f.name, thing.ele, f.i)
  <2>1. \A e \in PartsOf(toks, f.i) : Cardinality(Before(toks, f.i, e)) \in Nat /\ Cardinality(Before(toks, f.i, e)) < size
    BY <1>2, <1>4, <1>6, PartCount
  <2> HIDE DEF size
  <2> QED
    BY <1>8, <1>9, <1>14, <2>1 DEF ElementsOK
<1>16. FieldIn(toks, tables', nx2, stack', f.st, r, f.i)
  BY <1>4, <1>5, <1>10, <1>15 DEF EntryMade, FieldIn
<1>17. \A t \in 1 .. Len(tables) : TableSays(toks, tables', nx2, stack', t)
  BY <1>1, <1>5, <1>11, <1>13, <1>16, ValueSays
<1> QED
  BY <1>5, <1>17 DEF AllSay, NoTable

LEMMA ObjectAgainSays ==
    ASSUME Parsing, AllSay(tables, Len(texts), stack), ObjectAgain, Live(Top.st)
    PROVE  AllSay(tables', Len(texts'), stack')
<1> DEFINE f == Top
           m == Len(tables)
           x == Len(texts) + 1
           g == [f EXCEPT !.place = "skip"]
           callee == Frame(m + 1, x, "", f.i)
           r == tables[f.st].of
           thing == ObjectThing(m + 1)
<1>1. f.place = "again" /\ stack' = Call(g, callee)
  BY DEF ObjectAgain, At
<1>2. IsFrame(f) /\ toks[f.i].type = "OBJECT" /\ m \in Nat
  BY <1>1, ParsingFacts DEF PositionOK
<1>3. g.st = f.st /\ g.place = "skip"
  BY <1>2 DEF IsFrame, FrameFields
<1>4. f.i \in 1 .. Len(toks) /\ f.name = PathOf(toks, r, f.i)
  BY <1>1, AtValue
<1>5. /\ EntryMade(tables, tables', f.st, f.name, thing)
      /\ LastIs(tables', m, NewTable(f.i, OwnText(x)))
      /\ OneMore(f.i) /\ Len(texts') = Len(texts) + 1 /\ Grows
  BY ObjectAgainTables
<1>6. ThingFor(toks, tables', Len(texts'), thing, f.i)
  BY <1>2, <1>5, NewThing DEF OneMore
<1>7. callee.place = "name"
  BY DEF Frame
<1> HIDE DEF g, thing, callee
<1>8. StepCalls({f.i}, {})
  BY <1>5, ObjectAgainCalls
<1>9. StackBut({f.name})
  BY <1>1, <1>3, <1>7, MovedCall, MovedElements DEF InElements
<1>10. FieldIn(toks, tables', Len(texts'), stack', f.st, r, f.i)
  BY <1>2, <1>4, <1>5, <1>6 DEF EntryMade, FieldIn
<1>11. \A t \in 1 .. m : TableSays(toks, tables', Len(texts'), stack', t)
  BY <1>1, <1>5, <1>8, <1>9, <1>10, ValueSays
<1>12. \E prefix : stack' = Call(g, Frame(m + 1, x, prefix, f.i))
  <2>1. callee = Frame(m + 1, x, "", f.i)
    BY DEF callee
  <2>2. \E prefix : callee = Frame(m + 1, x, prefix, f.i)
    BY <2>1, Zenon
  <2> QED
    BY <1>1, <2>2
<1>13. LastIs(tables', Len(tables), NewTable(f.i, OwnText(x))) /\ IsNewMap(OwnText(x), x)
  BY <1>5 DEF IsNewMap
<1> QED
  BY <1>4, <1>11, <1>12, <1>13, AllSayMore

LEMMA ObjectValueSays ==
    ASSUME Parsing, AllSay(tables, Len(texts), stack), ObjectValue
    PROVE  AllSay(tables', Len(texts'), stack')
<1> DEFINE f == Top
           x == Len(texts) + 1
           g == [f EXCEPT !.place = "again"]
           callee == Frame(f.st, x, f.name, f.i)
           r == tables[f.st].of
           st == f.st
           thing == TextEntry(x)
           name == TextName(toks, r, f.i)
           D == Done(toks, stack, st, r)
           D2 == D \cup ({} \cap FieldsOfTop)
           B2 == Begun(toks, stack, st, r) \cup ({f.i} \cap FieldsOfTop)
<1>1. f.place = "value" /\ stack' = Call(g, callee) /\ toks[f.i].type = "OBJECT"
  BY DEF ObjectValue, At
<1>2. IsFrame(f)
  BY ParsingFacts
<1>3. g.st = f.st /\ g.place = "again"
  BY <1>2 DEF IsFrame, FrameFields
<1>4. f.i \in Fields(toks, r) /\ f.name = PathOf(toks, r, f.i)
  BY <1>1, AtValue
<1>5. name = f.name \o "_json"
  BY <1>4, Zenon DEF TextName
<1>6. /\ EntryMade(tables, tables', st, name, thing)
      /\ NoTable /\ Len(texts') = Len(texts) + 1 /\ Grows
  BY <1>5, ObjectValueTables, Zenon
<1>7. callee.place = "name" /\ thing.type = "TEXT"
  BY DEF Frame, TextEntry, Thing
<1> HIDE DEF g, thing, callee, name
<1>8. StepCalls({}, {f.i})
  BY <1>6, ObjectValueCalls
<1>9. StackBut({name})
  BY <1>1, <1>3, <1>7, MovedCall, MovedElements DEF InElements
<1>10. TablesBut({name})
  BY <1>6 DEF TablesBut, EntriesBut, EntryMade, OneEntry
<1>11. EntriesSay(toks, tables', st, r, {name}, D2, B2)
  <2>1. f.i \in B2
    BY <1>4 DEF FieldsOfTop
  <2>2. tables'[st].map[name].type = "TEXT"
    BY <1>6, <1>7 DEF EntryMade
  <2> HIDE DEF D2, B2
  <2>3. name \in NamesFrom(toks, r, D2, B2)
    BY <1>1, <2>1 DEF NamesFrom, name
  <2> QED
    BY <2>2, <2>3 DEF EntriesSay
<1>12. FieldsSay(toks, tables', Len(texts'), stack', st, r, {name}, D, D2)
  <2> SUFFICES ASSUME NoClash(toks, r), NEW v \in D PROVE PathOf(toks, r, v) \notin {name}
    BY DEF FieldsSay
  <2>1. name \in TextNames(toks, r)
    BY <1>1, <1>4 DEF TextNames, name
  <2>2. PathOf(toks, r, v) \in Paths(toks, r)
    BY DEF Done, Paths
  <2> QED
    BY <2>1, <2>2 DEF NoClash
<1>13. D = Done(toks, stack, st, r) /\ D2 = D \cup ({} \cap FieldsOfTop)
       /\ B2 = Begun(toks, stack, st, r) \cup ({f.i} \cap FieldsOfTop) /\ st = Top.st
  OBVIOUS
<1> HIDE DEF D, D2, B2, st
<1>14. \A t \in 1 .. Len(tables) : TableSays(toks, tables', Len(texts'), stack', t)
  BY <1>6, <1>8, <1>9, <1>10, <1>11, <1>12, <1>13, SaysStep
<1> QED
  BY <1>6, <1>14 DEF AllSay, NoTable

-----------------------------------------------------------------------------
(* What is in tables stays there, where no name is given twice.            *)

HoldIn(ts, tabs, nx) == HeldOnce(tabs, nx) /\ (AllDiffer(ts, tabs) => AllFound(tabs, nx))

\* Texts in tables were there before, or s has the one that was made.
HeldMoves(a, nx, b, nx2, s) ==
    \A t \in 1 .. Len(b) : \A x \in HeldIn(b[t].map) :
        \/ t \in 1 .. Len(a) /\ x \in HeldIn(a[t].map)
        \/ nx2 = nx + 1 /\ x = nx + 1 /\ t = s

\* All that is found is found still, and what was made is.
MapKeeps(map, map2) ==
    /\ \A p \in InnerOf(map) : p \in InnerOf(map2) /\ TableAt(map2, p) = TableAt(map, p)
    /\ HeldIn(map) \subseteq HeldIn(map2)
FoundMoves(a, nx, b, nx2) ==
    /\ \A u \in 1 .. Len(a) : MapKeeps(a[u].map, b[u].map)
    /\ \A t \in Len(a) + 1 .. Len(b) :
            \E u \in 1 .. Len(b) : \E p \in InnerOf(b[u].map) : TableAt(b[u].map, p) = t
    /\ \A x \in nx + 1 .. nx2 : \E u \in 1 .. Len(b) : x \in HeldIn(b[u].map)

LEMMA HoldsStep ==
    ASSUME NEW ts, NEW a, NEW nx, HoldIn(ts, a, nx), NEW b, NEW nx2, Grown(a, nx, b, nx2),
           NEW s, HeldMoves(a, nx, b, nx2, s), AllDiffer(ts, b) => FoundMoves(a, nx, b, nx2)
    PROVE  HoldIn(ts, b, nx2)
<1>1. /\ Len(a) \in Nat /\ Len(b) \in Nat /\ nx \in Nat /\ nx2 \in Nat /\ Len(a) <= Len(b) /\ nx <= nx2
      /\ \A t \in 1 .. Len(a) : b[t].of = a[t].of
  BY DEF Grown
<1>2. HeldOnce(b, nx2)
  <2> SUFFICES ASSUME NEW t \in 1 .. Len(b), NEW x \in HeldIn(b[t].map)
               PROVE  x \in 1 .. nx2 /\ \A u \in 1 .. Len(b) : x \in HeldIn(b[u].map) => u = t
    BY DEF HeldOnce
  <2>1. \A u \in 1 .. Len(b) : x \in HeldIn(b[u].map) =>
            \/ u \in 1 .. Len(a) /\ x \in HeldIn(a[u].map)
            \/ nx2 = nx + 1 /\ x = nx + 1 /\ u = s
    BY DEF HeldMoves
  <2>2. \A u \in 1 .. Len(a) : x \in HeldIn(a[u].map) =>
            x \in 1 .. nx /\ \A v \in 1 .. Len(a) : x \in HeldIn(a[v].map) => v = u
    BY DEF HoldIn, HeldOnce
  <2>3. x \in 1 .. nx => x # nx + 1 /\ x \in 1 .. nx2
    BY <1>1
  <2>4. nx2 = nx + 1 => nx + 1 \in 1 .. nx2
    BY <1>1
  <2> QED
    BY <2>1, <2>2, <2>3, <2>4
<1>3. ASSUME AllDiffer(ts, b) PROVE AllFound(b, nx2)
  <2>1. AllDiffer(ts, a)
    BY <1>1, <1>3 DEF AllDiffer
  <2>2. AllFound(a, nx) /\ FoundMoves(a, nx, b, nx2)
    BY <1>3, <2>1 DEF HoldIn
  <2>3. ASSUME NEW t \in 2 .. Len(b)
        PROVE  \E u \in 1 .. Len(b) : \E p \in InnerOf(b[u].map) : TableAt(b[u].map, p) = t
    <3>1. CASE t \in 2 .. Len(a)
      <4>1. PICK u \in 1 .. Len(a) : \E p \in InnerOf(a[u].map) : TableAt(a[u].map, p) = t
        BY <2>2, <3>1 DEF AllFound
      <4>2. MapKeeps(a[u].map, b[u].map) /\ u \in 1 .. Len(b)
        BY <1>1, <2>2 DEF FoundMoves
      <4> QED
        BY <4>1, <4>2 DEF MapKeeps
    <3>2. CASE t \notin 2 .. Len(a)
      <4>1. t \in Len(a) + 1 .. Len(b)
        BY <1>1, <3>2
      <4> QED
        BY <2>2, <4>1 DEF FoundMoves
    <3> QED
      BY <3>1, <3>2
  <2>4. ASSUME NEW x \in 1 .. nx2 PROVE \E u \in 1 .. Len(b) : x \in HeldIn(b[u].map)
    <3>1. CASE x \in 1 .. nx
      <4>1. PICK u \in 1 .. Len(a) : x \in HeldIn(a[u].map)
        BY <2>2, <3>1 DEF AllFound
      <4>2. MapKeeps(a[u].map, b[u].map) /\ u \in 1 .. Len(b)
        BY <1>1, <2>2 DEF FoundMoves
      <4> QED
        BY <4>1, <4>2 DEF MapKeeps
    <3>2. CASE x \notin 1 .. nx
      <4>1. x \in nx + 1 .. nx2
        BY <1>1, <3>2
      <4> QED
        BY <2>2, <4>1 DEF FoundMoves
    <3> QED
      BY <3>1, <3>2
  <2> QED
    BY <2>3, <2>4 DEF AllFound
<1> QED
  BY <1>2, <1>3 DEF HoldIn

\* A map of which each thing that leads somewhere, or is a text, is kept.
ThingKeeps(thing, thing2) ==
    /\ \A k : Leads(thing, k) => Leads(thing2, k) /\ LeadsTo(thing2, k) = LeadsTo(thing, k)
    /\ thing.type = "TEXT" => thing2.type = "TEXT" /\ thing2.ref = thing.ref

LEMMA MapKept ==
    ASSUME NEW map, NEW map2,
           \A n \in DOMAIN map : n \in DOMAIN map2 /\ ThingKeeps(map[n], map2[n])
    PROVE  MapKeeps(map, map2)
<1>1. ASSUME NEW p \in InnerOf(map) PROVE p \in InnerOf(map2) /\ TableAt(map2, p) = TableAt(map, p)
  <2>1. PICK n \in DOMAIN map : \E k :
            p = <<n, k>> /\ Leads(map[n], k) /\ TableAt(map, p) = LeadsTo(map[n], k)
    BY InnerPlaces
  <2>2. PICK k : p = <<n, k>> /\ Leads(map[n], k) /\ TableAt(map, p) = LeadsTo(map[n], k)
    BY <2>1
  <2>3. n \in DOMAIN map2 /\ Leads(map2[n], k) /\ LeadsTo(map2[n], k) = LeadsTo(map[n], k)
    BY <2>2 DEF ThingKeeps
  <2>4. <<n, k>> \in InnerOf(map2) /\ TableAt(map2, <<n, k>>) = LeadsTo(map2[n], k)
    BY <2>3, InnerPlaces
  <2> QED
    BY <2>2, <2>3, <2>4
<1>2. HeldIn(map) \subseteq HeldIn(map2)
  <2> SUFFICES ASSUME NEW n \in DOMAIN map, map[n].type = "TEXT" PROVE map[n].ref \in HeldIn(map2)
    BY DEF HeldIn
  <2>1. n \in DOMAIN map2 /\ map2[n].type = "TEXT" /\ map2[n].ref = map[n].ref
    BY DEF ThingKeeps
  <2> QED
    BY <2>1 DEF HeldIn
<1> QED
  BY <1>1, <1>2 DEF MapKeeps

LEMMA SameKept == ASSUME NEW map PROVE MapKeeps(map, map)
BY DEF MapKeeps

\* At most one entry of one table changes.
LEMMA EntryHeld ==
    ASSUME NEW a, NEW b, NEW st, NEW name, OneEntry(a, b, st, name)
    PROVE  \A t \in 1 .. Len(a) : \A x \in HeldIn(b[t].map) :
                x \in HeldIn(a[t].map) \/ (t = st /\ name \in DOMAIN b[st].map /\ b[st].map[name].type = "TEXT"
                                                /\ x = b[st].map[name].ref)
<1> SUFFICES ASSUME NEW t \in 1 .. Len(a), NEW n \in DOMAIN b[t].map, b[t].map[n].type = "TEXT"
             PROVE  b[t].map[n].ref \in HeldIn(a[t].map) \/ (t = st /\ n = name)
  BY DEF HeldIn
<1>1. t # st => b[t].map = a[t].map
  BY DEF OneEntry
<1>2. t = st /\ n # name => n \in DOMAIN a[t].map /\ b[t].map[n] = a[t].map[n]
  BY DEF OneEntry
<1> QED
  BY <1>1, <1>2 DEF HeldIn

LEMMA EntryKept ==
    ASSUME NEW a, NEW b, NEW st, NEW name, OneEntry(a, b, st, name),
           name \in DOMAIN a[st].map => name \in DOMAIN b[st].map /\ ThingKeeps(a[st].map[name], b[st].map[name])
    PROVE  \A u \in 1 .. Len(a) : MapKeeps(a[u].map, b[u].map)
<1> SUFFICES ASSUME NEW u \in 1 .. Len(a) PROVE MapKeeps(a[u].map, b[u].map)
  OBVIOUS
<1>1. u # st => b[u].map = a[u].map
  BY DEF OneEntry
<1>2. CASE u = st
  <2> SUFFICES ASSUME NEW n \in DOMAIN a[u].map
               PROVE  n \in DOMAIN b[u].map /\ ThingKeeps(a[u].map[n], b[u].map[n])
    BY MapKept
  <2>1. n # name => n \in DOMAIN b[u].map /\ b[u].map[n] = a[u].map[n]
    BY <1>2 DEF OneEntry
  <2> QED
    BY <1>2, <2>1 DEF ThingKeeps
<1> QED
  BY <1>1, <1>2, SameKept

\* A name that is to be mapped is not in the table yet, where none is given
\* twice.
LEMMA FreshName ==
    ASSUME NEW ts, NEW tabs, NEW nx, NEW stk, NEW t, TableSays(ts, tabs, nx, stk, t), NEW r, r = tabs[t].of,
           NamesDiffer(ts, r), NEW v \in Fields(ts, r)
    PROVE  /\ v \notin Done(ts, stk, t, r) => PathOf(ts, r, v) \notin DOMAIN tabs[t].map
           /\ v \notin Begun(ts, stk, t, r) /\ ts[v].type = "OBJECT" => TextName(ts, r, v) \notin DOMAIN tabs[t].map
<1> DEFINE D == Done(ts, stk, t, r)
           B == Begun(ts, stk, t, r)
<1>1. \A n \in DOMAIN tabs[t].map :
        \/ n = JSON_SYM_NAME
        \/ \E w \in D : n = PathOf(ts, r, w)
        \/ \E w \in B : ts[w].type = "OBJECT" /\ n = TextName(ts, r, w)
  BY DEF TableSays, NamesFrom
<1>2. /\ PathOf(ts, r, v) \in Paths(ts, r)
      /\ ts[v].type = "OBJECT" => TextName(ts, r, v) \in TextNames(ts, r)
  BY DEF Paths, TextNames
<1>3. /\ \A w \in D : w \in Fields(ts, r) /\ PathOf(ts, r, w) \in Paths(ts, r)
      /\ \A w \in B : w \in Fields(ts, r) /\ (ts[w].type = "OBJECT" => TextName(ts, r, w) \in TextNames(ts, r))
  BY DEF Done, Begun, Paths, TextNames
<1> HIDE DEF D, B
<1>4. /\ JSON_SYM_NAME \notin TextNames(ts, r) /\ Paths(ts, r) \cap (TextNames(ts, r) \cup {JSON_SYM_NAME}) = {}
      /\ \A w \in Fields(ts, r) : v # w =>
            PathOf(ts, r, v) # PathOf(ts, r, w) /\ TextName(ts, r, v) # TextName(ts, r, w)
  BY DEF NamesDiffer, NoClash
<1>5. ASSUME v \notin D, PathOf(ts, r, v) \in DOMAIN tabs[t].map PROVE FALSE
  BY <1>1, <1>2, <1>3, <1>4, <1>5
<1>6. ASSUME v \notin B, ts[v].type = "OBJECT", TextName(ts, r, v) \in DOMAIN tabs[t].map PROVE FALSE
  BY <1>1, <1>2, <1>3, <1>4, <1>6
<1> QED
  BY <1>5, <1>6 DEF D, B

LEMMA NotYet ==
    ASSUME Parsing, NEW f, f = Top, NEW r, r = tables[f.st].of
    PROVE  /\ f.place \in {"value", "again"} => f.i \notin Done(toks, stack, f.st, r)
           /\ f.place = "value" => f.i \notin Begun(toks, stack, f.st, r)
<1> DEFINE L == Len(stack)
<1>1. L \in 1 .. L /\ f = stack[L] /\ FrameOK(toks, f)
  BY ParsingFacts
<1>2. f.i \in Nat
  BY <1>1 DEF FrameOK
<1>3. f.place = "value" => ~Began(toks, f, f.i)
  BY <1>2 DEF Began, Cur
<1>4. f.place \in {"value", "again"} => ~Past(toks, f, f.i)
  BY <1>3 DEF Past
<1> QED
  BY <1>1, <1>3, <1>4 DEF Done, Begun, AllPast, AllBegan

\* The tables differ in the names of what the top call's is for, too.
LEMMA TopDiffers ==
    ASSUME Parsing, Grows, AllDiffer(toks, tables')
    PROVE  NamesDiffer(toks, tables[Top.st].of)
<1>1. Top.st \in 1 .. Len(tables)
  BY ParsingFacts
<1>2. Top.st \in 1 .. Len(tables') /\ tables'[Top.st].of = tables[Top.st].of
  BY <1>1 DEF Grows, Grown
<1> QED
  BY <1>2 DEF AllDiffer

Holds == HoldIn(toks, tables, Len(texts))

\* A thing is mapped, and maybe a table made; or an element of an array set.
LEMMA MapHolds ==
    ASSUME Parsing, AllSay(tables, Len(texts), stack), Holds, Grows, NEW f, f = Top, f.place \in {"value", "again"},
           NEW thing, EntryMade(tables, tables', f.st, f.name, thing), thing.type # "TEXT",
           \/ NoTable /\ Len(texts') = Len(texts)
           \/ /\ LastIs(tables', Len(tables), NewTable(f.i, OwnText(Len(texts) + 1)))
              /\ Len(texts') = Len(texts) + 1 /\ thing = ObjectThing(Len(tables) + 1)
    PROVE  HoldIn(toks, tables', Len(texts'))
<1> DEFINE m == Len(tables)
           nx == Len(texts)
           nx2 == Len(texts')
           st == f.st
           name == f.name
           new == OwnText(nx + 1)
<1>1. /\ m \in Nat /\ nx \in Nat /\ st \in 1 .. m /\ TokensOK(toks)
  BY ParsingFacts
<1>2. OneEntry(tables, tables', st, name) /\ name \in DOMAIN tables'[st].map /\ tables'[st].map[name] = thing
  BY DEF EntryMade
<1>3. HeldIn(new) = {nx + 1}
  <2>1. DOMAIN new = {JSON_SYM_NAME} /\ new[JSON_SYM_NAME].type = "TEXT" /\ new[JSON_SYM_NAME].ref = nx + 1
    BY DEF OwnText, TextEntry, Thing
  <2> HIDE DEF new
  <2> QED
    BY <2>1 DEF HeldIn
<1>4. \/ Len(tables') = m /\ nx2 = nx
      \/ Len(tables') = m + 1 /\ nx2 = nx + 1 /\ tables'[m + 1].map = new /\ thing = ObjectThing(m + 1)
  BY DEF NoTable, LastIs, NewTable
<1>5. \A t \in 1 .. Len(tables') : t \in 1 .. m \/ (t = m + 1 /\ Len(tables') = m + 1)
  BY <1>1, <1>4
<1> HIDE DEF new
<1>6. HeldMoves(tables, nx, tables', nx2, m + 1)
  <2>1. \A t \in 1 .. m : HeldIn(tables'[t].map) \subseteq HeldIn(tables[t].map)
    BY <1>2, EntryHeld
  <2> SUFFICES ASSUME NEW t \in 1 .. Len(tables'), NEW x \in HeldIn(tables'[t].map)
               PROVE  \/ t \in 1 .. m /\ x \in HeldIn(tables[t].map)
                      \/ nx2 = nx + 1 /\ x = nx + 1 /\ t = m + 1
    BY DEF HeldMoves
  <2>2. CASE t \in 1 .. m
    BY <2>1, <2>2
  <2>3. CASE t \notin 1 .. m
    <3>1. t = m + 1 /\ Len(tables') = m + 1
      BY <1>5, <2>3
    <3>2. nx2 = nx + 1 /\ tables'[m + 1].map = new
      BY <1>1, <1>4, <3>1
    <3> QED
      BY <1>3, <3>1, <3>2
  <2> QED
    BY <2>2, <2>3
<1>7. ASSUME AllDiffer(toks, tables') PROVE FoundMoves(tables, nx, tables', nx2)
  <2> DEFINE r == tables[st].of
  <2>1. NamesDiffer(toks, r)
    BY <1>7, TopDiffers
  <2>2. f.i \in Fields(toks, r) /\ name = PathOf(toks, r, f.i)
    BY AtValue
  <2>3. f.i \notin Done(toks, stack, st, r)
    BY NotYet
  <2>4. TableSays(toks, tables, nx, stack, st)
    BY <1>1 DEF AllSay
  <2>5. r = tables[st].of
    OBVIOUS
  <2> HIDE DEF r
  <2>6. name \notin DOMAIN tables[st].map
    BY <2>1, <2>2, <2>3, <2>4, <2>5, FreshName
  <2>7. \A u \in 1 .. m : MapKeeps(tables[u].map, tables'[u].map)
    BY <1>2, <2>6, EntryKept
  <2>8. ASSUME NEW t \in m + 1 .. Len(tables')
        PROVE  \E u \in 1 .. Len(tables') : \E p \in InnerOf(tables'[u].map) : TableAt(tables'[u].map, p) = t
    <3>1. t = m + 1 /\ Len(tables') = m + 1 /\ thing = ObjectThing(m + 1)
      BY <1>1, <1>4
    <3>2. Leads(thing, 0) /\ LeadsTo(thing, 0) = m + 1
      BY <3>1 DEF Leads, LeadsTo, ObjectThing, Thing
    <3>3. <<name, 0>> \in InnerOf(tables'[st].map) /\ TableAt(tables'[st].map, <<name, 0>>) = m + 1
      BY <1>2, <3>2, InnerPlaces
    <3>4. st \in 1 .. Len(tables')
      BY <1>1, <3>1
    <3> QED
      BY <3>1, <3>3, <3>4
  <2>9. ASSUME NEW x \in nx + 1 .. nx2 PROVE \E u \in 1 .. Len(tables') : x \in HeldIn(tables'[u].map)
    <3>1. x = nx + 1 /\ Len(tables') = m + 1 /\ tables'[m + 1].map = new
      BY <1>1, <1>4
    <3>2. m + 1 \in 1 .. Len(tables')
      BY <1>1, <3>1
    <3> QED
      BY <1>3, <3>1, <3>2
  <2> QED
    BY <2>7, <2>8, <2>9 DEF FoundMoves
<1> HIDE DEF m, nx, nx2, st, name
<1>8. HoldIn(toks, tables, nx) /\ Grown(tables, nx, tables', nx2)
  BY DEF Holds, Grows, nx, nx2
<1>9. HoldIn(toks, tables', nx2)
  BY <1>6, <1>7, <1>8, HoldsStep
<1> QED
  BY <1>9 DEF nx2

\* An object's text is mapped.
LEMMA ObjectValueHolds ==
    ASSUME Parsing, AllSay(tables, Len(texts), stack), Holds, ObjectValue
    PROVE  HoldIn(toks, tables', Len(texts'))
<1> DEFINE f == Top
           m == Len(tables)
           nx == Len(texts)
           nx2 == Len(texts')
           st == f.st
           r == tables[st].of
           name == TextName(toks, r, f.i)
           thing == TextEntry(nx + 1)
<1>1. f.place = "value" /\ toks[f.i].type = "OBJECT"
  BY DEF ObjectValue, At
<1>2. m \in Nat /\ nx \in Nat /\ st \in 1 .. m /\ TokensOK(toks)
  BY ParsingFacts
<1>3. f.i \in Fields(toks, r) /\ f.name = PathOf(toks, r, f.i)
  BY <1>1, AtValue
<1>4. name = f.name \o "_json"
  BY <1>3, Zenon DEF TextName
<1>5. /\ EntryMade(tables, tables', st, name, thing)
      /\ Len(tables') = m /\ nx2 = nx + 1 /\ Grows
  BY <1>4, ObjectValueTables, Zenon DEF NoTable
<1>6. thing.type = "TEXT" /\ thing.ref = nx + 1
  BY DEF TextEntry, Thing
<1> HIDE DEF thing, name
<1>7. OneEntry(tables, tables', st, name) /\ name \in DOMAIN tables'[st].map /\ tables'[st].map[name] = thing
  BY <1>5 DEF EntryMade
<1>8. HeldMoves(tables, nx, tables', nx2, st)
  <2>1. \A t \in 1 .. m : \A x \in HeldIn(tables'[t].map) :
            x \in HeldIn(tables[t].map) \/ (t = st /\ x = nx + 1)
    BY <1>6, <1>7, EntryHeld
  <2> QED
    BY <1>5, <2>1 DEF HeldMoves
<1>9. ASSUME AllDiffer(toks, tables') PROVE FoundMoves(tables, nx, tables', nx2)
  <2>1. NamesDiffer(toks, r)
    BY <1>5, <1>9, TopDiffers
  <2>2. f.i \notin Begun(toks, stack, st, r)
    BY <1>1, NotYet
  <2>3. TableSays(toks, tables, nx, stack, st) /\ r = tables[st].of
    BY <1>2 DEF AllSay
  <2> HIDE DEF r
  <2>4. name \notin DOMAIN tables[st].map
    BY <1>1, <1>3, <2>1, <2>2, <2>3, FreshName DEF name
  <2>5. \A u \in 1 .. m : MapKeeps(tables[u].map, tables'[u].map)
    BY <1>7, <2>4, EntryKept
  <2>6. nx + 1 \in HeldIn(tables'[st].map)
    BY <1>6, <1>7 DEF HeldIn
  <2>7. \A x \in nx + 1 .. nx2 : x = nx + 1
    BY <1>2, <1>5
  <2>8. \A t \in m + 1 .. Len(tables') : FALSE
    BY <1>2, <1>5
  <2> QED
    BY <1>2, <1>5, <2>5, <2>6, <2>7, <2>8 DEF FoundMoves
<1> HIDE DEF m, nx, nx2, st
<1>10. HoldIn(toks, tables, nx) /\ Grown(tables, nx, tables', nx2)
  BY <1>5 DEF Holds, Grows, nx, nx2
<1>11. HoldIn(toks, tables', nx2)
  BY <1>8, <1>9, <1>10, HoldsStep
<1> QED
  BY <1>11 DEF nx2

\* Where no name is given twice, the array that the call is at is found, and its
\* next element is free.
LEMMA ElementFree ==
    ASSUME Parsing, AllSay(tables, Len(texts), stack), NEW f, f = Top, f.place = "ele", f.n < f.size,
           NEW g, g.st = f.st, g.name = f.name, Moved(g), NamesDiffer(toks, tables[f.st].of)
    PROVE  /\ f.name \in DOMAIN tables[f.st].map
           /\ LET array == tables[f.st].map[f.name]
              IN  /\ array.type = "ARRAY" /\ IsList(array.ele) /\ f.n + 1 \in 1 .. Len(array.ele)
                  /\ array.ele[f.n + 1] = Undefined
<1> DEFINE st == f.st
           r == tables[st].of
           nx == Len(texts)
           n == f.n
           name == f.name
           D == Done(toks, stack, st, r)
           array == tables[st].map[name]
<1>1. InElements(f) /\ TokensOK(toks) /\ n \in Nat /\ st \in 1 .. Len(tables)
  BY ParsingFacts DEF InElements, FrameOK
<1>2. PICK a : /\ InArray(toks, r, f, a) /\ a \in 1 .. Len(toks) /\ toks[a].type = "ARRAY"
               /\ name = PathOf(toks, r, a) /\ f.size = Cardinality(PartsOf(toks, a))
               /\ IsElement(toks, a, f.i + n, n)
  BY <1>1, AtArray
<1>3. a \in D
  BY <1>1, <1>2, BehindElement
<1>4. a \in Fields(toks, r) /\ \A w \in D : w \in Fields(toks, r)
  BY <1>2 DEF InArray, Done
<1>5. LastOf(toks, r, D, a) /\ NoClash(toks, r)
  <2> HIDE DEF D
  <2> QED
    BY <1>4 DEF LastOf, NamesDiffer
<1>6. TableSays(toks, tables, nx, stack, st)
  BY <1>1 DEF AllSay
<1>7. FieldIn(toks, tables, nx, stack, st, r, a)
  BY <1>3, <1>5, <1>6 DEF TableSays
<1>8. name \in DOMAIN tables[st].map /\ ThingFor(toks, tables, nx, array, a)
      /\ ElementsOK(toks, tables, nx, stack, st, name, array.ele, a)
  BY <1>2, <1>7 DEF FieldIn
<1>9. array.type = "ARRAY" /\ IsList(array.ele) /\ Len(array.ele) = toks[a].size
  BY <1>2, <1>8 DEF ThingFor
<1>10. n + 1 \in 1 .. Len(array.ele)
  <2>1. toks[a].size = f.size
    BY <1>1, <1>2, TokenFacts
  <2>2. f.size \in Nat
    BY ParsingFacts DEF FrameOK
  <2>3. n < f.size
    OBVIOUS
  <2> HIDE DEF n, array
  <2> QED
    BY <1>1, <1>9, <2>1, <2>2, <2>3
<1>11. ~ElementSet(stack, st, name, n)
  <2>1. ElementsIn(f) = n
    BY DEF ElementsIn
  <2>2. \A c \in Nat : ElementSet(stack, st, name, c) <=> c < n
    BY <1>1, <2>1, MovedCounts
  <2> QED
    BY <1>1, <2>2
<1>12. array.ele[n + 1] = Undefined
  <2> HIDE DEF array
  <2> QED
    BY <1>2, <1>8, <1>11 DEF ElementsOK, IsElement
<1> QED
  BY <1>8, <1>9, <1>10, <1>12

\* An element of an array is set.
LEMMA SetHolds ==
    ASSUME Parsing, AllSay(tables, Len(texts), stack), Holds, Grows, NEW f, f = Top, f.place = "ele", f.n < f.size,
           NEW g, g.st = f.st, g.name = f.name, Moved(g),
           NEW thing, ElementMade(tables, tables', f.st, f.name, f.n + 1, thing), Len(texts') = Len(texts),
           \/ NoTable
           \/ thing = ObjectThing(Len(tables) + 1) /\ \E o : LastIs(tables', Len(tables), NewTable(o, NoMap))
    PROVE  HoldIn(toks, tables', Len(texts'))
<1> DEFINE m == Len(tables)
           nx == Len(texts)
           st == f.st
           name == f.name
           n == f.n
           old == tables[st].map[name]
           new == tables'[st].map[name]
<1>1. /\ m \in Nat /\ nx \in Nat /\ st \in 1 .. m /\ n \in Nat
      /\ \A t \in 1 .. m : TableOK(tables[t])
  BY ParsingFacts DEF FrameOK
<1>2. /\ OneEntry(tables, tables', st, name) /\ (name \in DOMAIN tables'[st].map <=> name \in DOMAIN tables[st].map)
      /\ name \in DOMAIN tables[st].map => new = [old EXCEPT !.ele[n + 1] = thing]
  BY DEF ElementMade
<1>3. \/ Len(tables') = m
      \/ Len(tables') = m + 1 /\ tables'[m + 1].map = NoMap /\ thing.type = "OBJECT" /\ thing.ref = m + 1
  <2>1. ObjectThing(m + 1).type = "OBJECT" /\ ObjectThing(m + 1).ref = m + 1
    BY DEF ObjectThing, Thing
  <2>2. \A o : NewTable(o, NoMap).map = NoMap
    BY DEF NewTable
  <2>3. CASE NoTable
    BY <2>3 DEF NoTable
  <2>4. CASE thing = ObjectThing(m + 1) /\ \E o : LastIs(tables', m, NewTable(o, NoMap))
    BY <2>1, <2>2, <2>4 DEF LastIs
  <2> QED
    BY <2>3, <2>4
<1>4. name \in DOMAIN tables[st].map =>
        /\ new.type = old.type /\ new.ref = old.ref
        /\ DOMAIN new.ele = DOMAIN old.ele
        /\ n + 1 \in DOMAIN old.ele => new.ele[n + 1] = thing
        /\ \A k \in DOMAIN old.ele : k # n + 1 => new.ele[k] = old.ele[k]
        /\ 0 \notin DOMAIN old.ele
  <2> SUFFICES ASSUME name \in DOMAIN tables[st].map
               PROVE  /\ new.type = old.type /\ new.ref = old.ref
                      /\ DOMAIN new.ele = DOMAIN old.ele
                      /\ n + 1 \in DOMAIN old.ele => new.ele[n + 1] = thing
                      /\ \A k \in DOMAIN old.ele : k # n + 1 => new.ele[k] = old.ele[k]
                      /\ 0 \notin DOMAIN old.ele
    OBVIOUS
  <2>1. ThingOK(old)
    BY <1>1 DEF TableOK
  <2>2. new = [old EXCEPT !.ele[n + 1] = thing]
    BY <1>2
  <2>3. DOMAIN old = ThingFields /\ 0 \notin DOMAIN old.ele
    BY <2>1 DEF ThingOK
  <2> HIDE DEF old, new
  <2> QED
    BY <2>2, <2>3 DEF ThingFields
<1>5. HeldMoves(tables, nx, tables', nx, st)
  <2>1. ASSUME NEW t \in 1 .. m PROVE HeldIn(tables'[t].map) \subseteq HeldIn(tables[t].map)
    <3>1. OneEntry(tables, tables', st, name)
      BY <1>2
    <3>2. \A x \in HeldIn(tables'[t].map) :
            x \in HeldIn(tables[t].map) \/ (t = st /\ name \in DOMAIN tables'[st].map /\ new.type = "TEXT" /\ x = new.ref)
      <4> HIDE DEF st, name
      <4> QED
        BY <3>1, EntryHeld
    <3>3. ASSUME name \in DOMAIN tables'[st].map, new.type = "TEXT" PROVE new.ref \in HeldIn(tables[st].map)
      <4>1. name \in DOMAIN tables[st].map
        BY <1>2, <3>3
      <4>2. old.type = "TEXT" /\ new.ref = old.ref
        BY <1>4, <3>3, <4>1
      <4> HIDE DEF new, name, st
      <4> QED
        BY <4>1, <4>2 DEF HeldIn
    <3> HIDE DEF new
    <3> QED
      BY <3>2, <3>3
  <2>2. \A t \in 1 .. Len(tables') : t \in 1 .. m \/ (t = m + 1 /\ Len(tables') = m + 1)
    BY <1>1, <1>3
  <2>3. HeldIn(NoMap) = {}
    BY DEF HeldIn, NoMap
  <2>4. \A t \in 1 .. Len(tables') : t \in 1 .. m \/ tables'[t].map = NoMap
    BY <1>1, <1>3, <2>2
  <2> QED
    BY <2>1, <2>3, <2>4 DEF HeldMoves
<1>6. ASSUME AllDiffer(toks, tables') PROVE FoundMoves(tables, nx, tables', nx)
  <2>1. NamesDiffer(toks, tables[st].of)
    BY <1>6, TopDiffers
  <2>2. /\ name \in DOMAIN tables[st].map /\ old.type = "ARRAY" /\ IsList(old.ele)
        /\ n + 1 \in 1 .. Len(old.ele) /\ old.ele[n + 1] = Undefined
    BY <2>1, ElementFree
  <2>3. Undefined.type # "OBJECT"
    BY DEF Undefined, Thing
  <2>4. n + 1 \in DOMAIN old.ele
    BY <2>2, ListFacts
  <2>5. name \in DOMAIN tables'[st].map
    BY <1>2, <2>2
  <2> HIDE DEF old, new
  <2>6. ThingKeeps(old, new)
    BY <1>4, <2>2, <2>3 DEF ThingKeeps, Leads, LeadsTo
  <2>7. \A u \in 1 .. m : MapKeeps(tables[u].map, tables'[u].map)
    BY <1>2, <2>5, <2>6, EntryKept DEF old, new
  <2>8. ASSUME NEW t \in m + 1 .. Len(tables')
        PROVE  \E u \in 1 .. Len(tables') : \E p \in InnerOf(tables'[u].map) : TableAt(tables'[u].map, p) = t
    <3>1. t = m + 1 /\ Len(tables') = m + 1 /\ thing.type = "OBJECT" /\ thing.ref = m + 1
      BY <1>1, <1>3
    <3>2. n + 1 # 0
      BY <1>1
    <3>3. Leads(new, n + 1) /\ LeadsTo(new, n + 1) = m + 1
      BY <1>4, <2>2, <2>4, <3>1, <3>2 DEF Leads, LeadsTo
    <3>4. <<name, n + 1>> \in InnerOf(tables'[st].map) /\ TableAt(tables'[st].map, <<name, n + 1>>) = m + 1
      BY <2>5, <3>3, InnerPlaces DEF new
    <3>5. st \in 1 .. Len(tables')
      BY <1>1, <3>1
    <3> QED
      BY <3>1, <3>4, <3>5
  <2>9. \A x \in nx + 1 .. nx : FALSE
    BY <1>1
  <2> QED
    BY <2>7, <2>8, <2>9 DEF FoundMoves
<1> HIDE DEF m, nx, st, name
<1>7. HoldIn(toks, tables, nx) /\ Grown(tables, nx, tables', nx)
  BY DEF Holds, Grows, nx
<1>8. HoldIn(toks, tables', nx)
  BY <1>5, <1>6, <1>7, HoldsStep
<1> QED
  BY <1>8 DEF nx

-----------------------------------------------------------------------------
(* What is true of the tables in all states.                               *)

\* While tables are filled, and when they are.
Filled ==
    /\ tables[1].of = 1
    /\ AllSay(tables, Len(texts), stack)
    /\ \A x \in 1 .. Len(texts) : texts[x] = 0

\* While they are freed, and when they are.
Emptied ==
    Len(tables) > 0 /\ FreedOnce(tables, texts) /\ FreedWith(tables, stack)

SaysInv ==
    Handled =>
        /\ toks[1].type = "OBJECT" => phase # "null"
        /\ phase \in {"new", "ready", "gone"} => stack = <<>>
        /\ phase = "parse" => CallsNamed(toks, tables, Len(texts), stack)
        /\ phase \in {"parse", "ready"} => Filled
        /\ phase \in {"nuke", "gone"} => Emptied
        /\ phase \in {"parse", "ready", "nuke", "gone"} => IsList(texts) /\ Holds

\* What the parser promises of the tokens, which do not change.
Parsed == NumbersOK(toks) /\ (toks[1].type = "UNDEFINED" => Len(toks) = 1)

LEMMA InitParsed == Init => Parsed
<1> SUFFICES ASSUME Init PROVE Parsed
  OBVIOUS
<1>1. doc \in Docs /\ toks = jsmn_parse(doc)
  BY DEF Init
<1>2. /\ toks \in Seq({toks[k] : k \in DOMAIN toks}) /\ Len(toks) > 0
      /\ \A k \in DOMAIN toks : toks[k].type = "PRIMITIVE" =>
            /\ toks[k].text = "true" => toks[k].num = 1
            /\ toks[k].text \in {"false", "null"} => toks[k].num = 0
      /\ \A k \in DOMAIN toks :
            \/ toks[k].type \in {"OBJECT", "ARRAY", "STRING", "PRIMITIVE"}
            \/ toks[k].type = "UNDEFINED" /\ Len(toks) = 1
  BY <1>1, TokensAssumption DEF TokensAssumption
<1>3. DOMAIN toks = 1 .. Len(toks) /\ Len(toks) \in Nat
  BY <1>2
<1>4. 1 \in 1 .. Len(toks)
  BY <1>2, <1>3
<1> QED
  BY <1>2, <1>3, <1>4 DEF Parsed, NumbersOK

LEMMA SaysInit == Init => SaysInv
BY DEF Init, SaysInv

\* A step of a call leads to such a state.
LEMMA ParseKeeps ==
    ASSUME Parsing, SaysInv, Grows, UNCHANGED toks,
           \/ phase' = phase /\ CallsNamed(toks, tables', Len(texts'), stack')
           \/ phase' = "ready" /\ stack' = <<>>,
           AllSay(tables', Len(texts'), stack'), HoldIn(toks, tables', Len(texts')),
           IsList(texts'), \A x \in 1 .. Len(texts') : texts'[x] = 0
    PROVE  SaysInv'
<1>1. phase' \in {"parse", "ready"}
  BY DEF Parsing
<1>2. tables'[1].of = 1
  <2>1. tables[1].of = 1
    BY DEF SaysInv, Parsing, Filled
  <2>2. 1 \in 1 .. Len(tables)
    BY ParsingFacts
  <2> QED
    BY <2>1, <2>2 DEF Grows, Grown
<1>3. (AllSay(tables, Len(texts), stack))'
  BY DEF AllSay
<1>4. Filled'
  BY <1>2, <1>3 DEF Filled
<1>5. Holds'
  BY DEF Holds
<1>6. phase' = "parse" => CallsNamed(toks', tables', Len(texts'), stack')
  BY DEF Parsing
<1>7. phase' = "ready" => stack' = <<>>
  BY DEF Parsing
<1> QED
  BY <1>1, <1>4, <1>5, <1>6, <1>7 DEF SaysInv

\* What is known before a step.
LEMMA ParsingState ==
    ASSUME Handled, CallsOK, SafeInv, SaysInv, phase = "parse"
    PROVE  /\ Parsing /\ AllSay(tables, Len(texts), stack) /\ Holds /\ IsList(texts)
           /\ \A x \in 1 .. Len(texts) : texts[x] = 0
BY DEF SaysInv, Parsing, Filled

\* Steps that change neither tables nor texts.
LEMMA MoveKeeps ==
    ASSUME Parsing, SaysInv, UNCHANGED <<toks, phase, tables, texts>>, StepCalls({}, {}),
           AllSay(tables', Len(texts'), stack')
    PROVE  SaysInv'
<1>1. Grows
  BY OthersGrow
<1>2. Holds /\ IsList(texts) /\ \A x \in 1 .. Len(texts) : texts[x] = 0
  BY DEF SaysInv, Parsing, Filled
<1>3. HoldIn(toks, tables', Len(texts')) /\ IsList(texts') /\ \A x \in 1 .. Len(texts') : texts'[x] = 0
  BY <1>2 DEF Holds
<1> QED
  BY <1>1, <1>3, ParseKeeps DEF StepCalls

\* Steps that change tables alone, or make a text.
LEMMA FillKeeps ==
    ASSUME Parsing, SaysInv, UNCHANGED <<toks, phase>>, Grows, texts' = texts \/ texts' = Append(texts, 0),
           NEW U, NEW W, StepCalls(U, W), AllSay(tables', Len(texts'), stack'),
           HoldIn(toks, tables', Len(texts'))
    PROVE  SaysInv'
<1>1. IsList(texts) /\ \A x \in 1 .. Len(texts) : texts[x] = 0
  BY DEF SaysInv, Parsing, Filled
<1>2. IsList(texts') /\ \A x \in 1 .. Len(texts') : texts'[x] = 0
  <2>1. CASE texts' = texts
    BY <1>1, <2>1
  <2>2. CASE texts' = Append(texts, 0)
    BY <1>1, <2>2, TextAdded
  <2> QED
    BY <2>1, <2>2
<1> QED
  BY <1>2, ParseKeeps DEF StepCalls

\* The call is over.
LEMMA ObjectDoneKeeps ==
    ASSUME Parsing, SaysInv, ObjectDone
    PROVE  SaysInv'
<1>1. /\ Top.place = "name" /\ Return(Top.st) /\ UNCHANGED <<tables, texts>>
      /\ stack' = Front(stack) /\ toks' = toks
  BY DEF ObjectDone, At, Return
<1>2. /\ AllSay(tables, Len(texts), stack) /\ Holds /\ IsList(texts)
      /\ \A x \in 1 .. Len(texts) : texts[x] = 0
  BY DEF SaysInv, Parsing, Filled
<1>3. Grows
  BY <1>1, OthersGrow
<1>4. AllSay(tables', Len(texts'), stack')
  BY <1>2, ObjectDoneSays
<1>5. CallsNamed(toks, tables', Len(texts'), stack')
  BY <1>3, ObjectDoneCalls DEF StepCalls
<1>6. IsList(stack) /\ Len(stack) \in Nat \ {0} /\ Top.st \in 1 .. Len(tables)
  BY ParsingFacts
<1>7. Top.st # NIL
  BY <1>6, NilAssumption DEF NilAssumption
<1>8. phase' = phase \/ (phase' = "ready" /\ Len(stack) = 1)
  <2>1. phase' = IF Len(stack) > 1 THEN phase ELSE "ready"
    BY <1>1, <1>7 DEF Return
  <2>2. Len(stack) > 1 \/ Len(stack) = 1
    BY <1>6
  <2> QED
    BY <2>1, <2>2
<1>9. Len(stack) = 1 => stack' = <<>>
  <2>1. IsList(stack') /\ Len(stack') = Len(stack) - 1
    BY <1>1, <1>6, ListFront
  <2> QED
    BY <2>1 DEF IsList
<1>10. HoldIn(toks, tables', Len(texts')) /\ IsList(texts') /\ \A x \in 1 .. Len(texts') : texts'[x] = 0
  BY <1>1, <1>2 DEF Holds
<1> QED
  BY <1>1, <1>3, <1>4, <1>5, <1>8, <1>9, <1>10, ParseKeeps

\* The steps at a value.
LEMMA ValueKeeps ==
    ASSUME Parsing, NumbersOK(toks), SaysInv, ScalarValue \/ ArrayValue \/ ObjectValue \/ ObjectAgain
    PROVE  SaysInv'
<1> DEFINE f == Top
           U == {f.i}
<1>1. AllSay(tables, Len(texts), stack) /\ Holds
  BY DEF SaysInv, Parsing, Filled
<1>2. CASE ScalarValue
  <2> DEFINE thing == Scalar(toks[f.i], f.text)
  <2>1. f.place = "value" /\ UNCHANGED <<toks, phase>>
    BY <1>2 DEF ScalarValue, At
  <2>2. EntryMade(tables, tables', f.st, f.name, thing) /\ NoTable /\ texts' = texts /\ Grows
    BY <1>2, ScalarValueTables
  <2>3. thing.type # "TEXT"
    BY DEF Scalar, Thing
  <2>4. AllSay(tables', Len(texts'), stack') /\ StepCalls(U, U)
    BY <1>1, <1>2, <2>2, ScalarValueSays, ScalarValueCalls
  <2> HIDE DEF thing, U
  <2>5. HoldIn(toks, tables', Len(texts'))
    BY <1>1, <2>1, <2>2, <2>3, MapHolds
  <2> QED
    BY <2>1, <2>2, <2>4, <2>5, FillKeeps
<1>3. CASE ArrayValue
  <2> DEFINE thing == Thing("ARRAY", "UNKNOWN", 0, 0, [k \in 1 .. toks[f.i].size |-> Undefined])
  <2>1. f.place = "value" /\ UNCHANGED <<toks, phase>>
    BY <1>3 DEF ArrayValue, At
  <2>2. EntryMade(tables, tables', f.st, f.name, thing) /\ NoTable /\ texts' = texts /\ Grows
    BY <1>3, ArrayValueTables
  <2>3. thing.type # "TEXT"
    BY DEF Thing
  <2>4. AllSay(tables', Len(texts'), stack') /\ StepCalls(U, U)
    BY <1>1, <1>3, <2>2, ArrayValueSays, ArrayValueCalls
  <2> HIDE DEF thing, U
  <2>5. HoldIn(toks, tables', Len(texts'))
    BY <1>1, <2>1, <2>2, <2>3, MapHolds
  <2> QED
    BY <2>1, <2>2, <2>4, <2>5, FillKeeps
<1>4. CASE ObjectValue
  <2>1. UNCHANGED <<toks, phase>>
    BY <1>4 DEF ObjectValue
  <2>2. texts' = Append(texts, 0) /\ Len(texts') = Len(texts) + 1 /\ Grows
    BY <1>4, ObjectValueTables
  <2>3. AllSay(tables', Len(texts'), stack') /\ StepCalls({}, U) /\ HoldIn(toks, tables', Len(texts'))
    BY <1>1, <1>4, <2>2, ObjectValueSays, ObjectValueCalls, ObjectValueHolds
  <2> HIDE DEF U
  <2> QED
    BY <2>1, <2>2, <2>3, FillKeeps
<1>5. CASE ObjectAgain
  <2> DEFINE thing == ObjectThing(Len(tables) + 1)
  <2>1. f.place = "again"
    BY <1>5 DEF ObjectAgain, At
  <2>2. Live(f.st)
    <3>1. AllLive(tables) /\ f.st \in 1 .. Len(tables)
      BY ParsingFacts, SafeFacts DEF Parsing
    <3> QED
      BY <3>1 DEF AllLive, Live
  <2>3. UNCHANGED <<toks, phase>>
    BY <1>5, <2>2 DEF ObjectAgain
  <2>4. /\ EntryMade(tables, tables', f.st, f.name, thing)
        /\ LastIs(tables', Len(tables), NewTable(f.i, OwnText(Len(texts) + 1))) /\ OneMore(f.i)
        /\ texts' = Append(texts, 0) /\ Len(texts') = Len(texts) + 1 /\ Grows
    BY <1>5, <2>2, ObjectAgainTables
  <2>5. thing.type # "TEXT"
    BY DEF ObjectThing, Thing
  <2>6. AllSay(tables', Len(texts'), stack') /\ StepCalls(U, {})
    BY <1>1, <1>5, <2>2, <2>4, ObjectAgainSays, ObjectAgainCalls
  <2>7. thing = ObjectThing(Len(tables) + 1)
    OBVIOUS
  <2> HIDE DEF thing, U
  <2>8. HoldIn(toks, tables', Len(texts'))
    BY <1>1, <2>1, <2>4, <2>5, <2>7, MapHolds
  <2> QED
    BY <2>3, <2>4, <2>6, <2>8, FillKeeps
<1> QED
  BY <1>2, <1>3, <1>4, <1>5

\* The steps at an element.
LEMMA ElementKeeps ==
    ASSUME Parsing, NumbersOK(toks), SaysInv, ScalarElement \/ ObjectElement
    PROVE  SaysInv'
<1> DEFINE f == Top
<1>1. AllSay(tables, Len(texts), stack) /\ Holds
  BY DEF SaysInv, Parsing, Filled
<1>2. IsFrame(f)
  BY ParsingFacts
<1>3. CASE ScalarElement
  <2> DEFINE thing == Scalar(toks[f.i + f.n], f.text)
             g == [f EXCEPT !.n = @ + 1]
  <2>1. f.place = "ele" /\ f.n < f.size /\ UNCHANGED <<toks, phase>> /\ stack' = SetTop(g)
    BY <1>3 DEF ScalarElement, AtElement, At
  <2>2. ElementMade(tables, tables', f.st, f.name, f.n + 1, thing) /\ NoTable /\ texts' = texts /\ Grows
    BY <1>3, ScalarElementTables
  <2>3. g.st = f.st /\ g.name = f.name
    BY <1>2 DEF IsFrame, FrameFields
  <2>4. AllSay(tables', Len(texts'), stack') /\ StepCalls({}, {})
    BY <1>1, <1>3, <2>2, ScalarElementSays, ScalarElementCalls
  <2> HIDE DEF thing, g
  <2>5. Moved(g)
    BY <2>1, MovedSet
  <2>6. HoldIn(toks, tables', Len(texts'))
    BY <1>1, <2>1, <2>2, <2>3, <2>5, SetHolds
  <2> QED
    BY <2>1, <2>2, <2>4, <2>6, FillKeeps
<1>4. CASE ObjectElement
  <2> DEFINE thing == ObjectThing(Len(tables) + 1)
             g == [f EXCEPT !.place = "eleskip"]
             callee == Frame(Len(tables) + 1, f.text, "", f.i + f.n)
  <2>1. f.place = "ele" /\ f.n < f.size /\ UNCHANGED <<toks, phase>> /\ stack' = Call(g, callee)
    BY <1>4 DEF ObjectElement, AtElement, At
  <2>2. /\ ElementMade(tables, tables', f.st, f.name, f.n + 1, thing)
        /\ LastIs(tables', Len(tables), NewTable(f.i + f.n, NoMap)) /\ OneMore(f.i + f.n)
        /\ texts' = texts /\ Grows
    BY <1>4, ObjectElementTables
  <2>3. g.st = f.st /\ g.name = f.name
    BY <1>2 DEF IsFrame, FrameFields
  <2>4. AllSay(tables', Len(texts'), stack') /\ StepCalls({}, {})
    BY <1>1, <1>4, <2>2, ObjectElementSays, ObjectElementCalls
  <2>5. callee.place = "name" /\ thing = ObjectThing(Len(tables) + 1)
    BY DEF Frame
  <2> HIDE DEF thing, g, callee
  <2>6. Moved(g)
    BY <2>1, <2>5, MovedCall
  <2>7. HoldIn(toks, tables', Len(texts'))
    BY <1>1, <2>1, <2>2, <2>3, <2>5, <2>6, SetHolds
  <2> QED
    BY <2>1, <2>2, <2>4, <2>7, FillKeeps
<1> QED
  BY <1>3, <1>4

LEMMA ParseStepKeeps ==
    ASSUME Handled, CallsOK, SafeInv, SaysInv, NumbersOK(toks), ParseStep
    PROVE  SaysInv'
<1>1. phase = "parse"
  BY DEF ParseStep, ObjectDone, BadName, Name, ScalarValue, ObjectValue, ObjectAgain, ObjectSkip,
         ArrayValue, ScalarElement, ObjectElement, ElementSkip, ArrayElement, ArrayDone, AtElement, At
<1>2. Parsing /\ AllSay(tables, Len(texts), stack)
  BY <1>1, ParsingState
<1>3. Walk(toks, Len(tables), stack)
  BY <1>1, SafeFacts
<1>4. CASE ObjectDone
  BY <1>2, <1>4, ObjectDoneKeeps
<1>5. CASE BadName
  <2>1. Top.place = "name" /\ Top.i < LastTok(Top) /\ toks[Top.i].type # "STRING"
    BY <1>5 DEF BadName, At
  <2> QED
    BY <1>1, <1>3, <2>1, NamesAreStrings
<1>6. CASE Name
  <2>1. UNCHANGED <<toks, phase, tables, texts>>
    BY <1>6 DEF Name
  <2> QED
    BY <1>2, <1>6, <2>1, OthersGrow, NameCalls, NameSays, MoveKeeps
<1>7. CASE ScalarValue \/ ArrayValue \/ ObjectValue \/ ObjectAgain
  BY <1>2, <1>7, ValueKeeps
<1>8. CASE ObjectSkip
  <2>1. UNCHANGED <<toks, phase, tables, texts>>
    BY <1>8 DEF ObjectSkip
  <2> QED
    BY <1>2, <1>8, <2>1, OthersGrow, ObjectSkipCalls, ObjectSkipSays, MoveKeeps
<1>9. CASE ScalarElement \/ ObjectElement
  BY <1>2, <1>9, ElementKeeps
<1>10. CASE ElementSkip
  <2>1. UNCHANGED <<toks, phase, tables, texts>>
    BY <1>10 DEF ElementSkip
  <2> QED
    BY <1>2, <1>10, <2>1, OthersGrow, ElementSkipCalls, ElementSkipSays, MoveKeeps
<1>11. CASE ArrayElement
  BY <1>3, <1>11, NoArrayElement
<1>12. CASE ArrayDone
  <2>1. UNCHANGED <<toks, phase, tables, texts>>
    BY <1>12 DEF ArrayDone
  <2> QED
    BY <1>2, <1>12, <2>1, OthersGrow, ArrayDoneCalls, ArrayDoneSays, MoveKeeps
<1> QED
  BY <1>4, <1>5, <1>6, <1>7, <1>8, <1>9, <1>10, <1>11, <1>12 DEF ParseStep

\* The document's own table, and its first call.
LEMMA FirstTable ==
    ASSUME jw_new
    PROVE  /\ toks' = toks /\ IsList(texts') /\ Len(texts') = 1 /\ texts'[1] = 0
           /\ IsList(tables') /\ Len(tables') = 1
           /\ tables'[1] = NewTable(1, OwnText(1)) /\ tables'[1].of = 1 /\ tables'[1].map = OwnText(1)
           /\ HoldIn(toks, tables', Len(texts'))
<1> DEFINE table == NewTable(1, OwnText(1))
<1>1. tables' = <<table>> /\ texts' = <<0>> /\ toks' = toks
  BY DEF jw_new
<1>2. table.of = 1 /\ table.map = OwnText(1)
  BY DEF NewTable
<1>3. HeldIn(OwnText(1)) = {1}
  <2> DEFINE map == OwnText(1)
  <2>1. DOMAIN map = {JSON_SYM_NAME} /\ map[JSON_SYM_NAME].type = "TEXT" /\ map[JSON_SYM_NAME].ref = 1
    BY DEF OwnText, TextEntry, Thing
  <2> HIDE DEF map
  <2>2. HeldIn(map) = {1}
    BY <2>1 DEF HeldIn
  <2> QED
    BY <2>2 DEF map
<1>4. table = NewTable(1, OwnText(1))
  OBVIOUS
<1> HIDE DEF table
<1>5. IsList(tables') /\ Len(tables') = 1 /\ tables'[1] = table
  BY <1>1, ListOne
<1>6. IsList(texts') /\ Len(texts') = 1 /\ texts'[1] = 0
  BY <1>1, ListOne
<1>7. HoldIn(toks, tables', Len(texts'))
  <2>1. \A t \in 1 .. Len(tables') : t = 1 /\ HeldIn(tables'[t].map) = {1}
    BY <1>2, <1>3, <1>5
  <2>2. 1 \in 1 .. Len(texts') /\ 1 \in 1 .. Len(tables') /\ \A x \in 1 .. Len(texts') : x = 1
    BY <1>5, <1>6
  <2>3. HeldOnce(tables', Len(texts'))
    BY <2>1, <2>2 DEF HeldOnce
  <2>4. \A t \in 2 .. Len(tables') : FALSE
    BY <1>5
  <2>5. AllFound(tables', Len(texts'))
    BY <2>1, <2>2, <2>4 DEF AllFound
  <2> QED
    BY <2>3, <2>5 DEF HoldIn
<1> QED
  BY <1>1, <1>2, <1>4, <1>5, <1>6, <1>7

LEMMA FirstCall ==
    ASSUME CallsOK, jw_new, toks[1].type = "OBJECT"
    PROVE  /\ CallsNamed(toks, tables', Len(texts'), stack')
           /\ AllSay(tables', Len(texts'), stack')
<1> DEFINE f == Frame(1, 1, "", 1)
<1>1. stack' = <<f>>
  BY DEF jw_new
<1>2. /\ TokensOK(toks) /\ 1 \in 1 .. Len(toks)
  BY ListFacts DEF CallsOK, TokensOK
<1>3. /\ f.st = 1 /\ f.text = 1 /\ f.first = 1 /\ f.place = "name" /\ f.prefix = PathOf(toks, 1, 1)
  <2>1. f.prefix = ""
    BY DEF Frame
  <2>2. PathOf(toks, 1, 1) = ""
    BY <1>2, PathsJoin
  <2>3. f.st = 1 /\ f.text = 1 /\ f.first = 1 /\ f.place = "name"
    BY DEF Frame
  <2> QED
    BY <2>1, <2>2, <2>3, Zenon
<1>4. \E prefix : f = Frame(1, 1, prefix, 1)
  BY Zenon
<1> HIDE DEF f
<1>5. Len(stack') = 1 /\ stack'[1] = f
  BY <1>1, ListOne
<1>6. /\ Len(texts') = 1 /\ Len(tables') = 1 /\ tables'[1].of = 1
      /\ tables'[1] = NewTable(1, OwnText(1))
  BY FirstTable
<1>7. \A k \in 1 .. Len(stack') : k = 1
  BY <1>5
<1>8. CallsNamed(toks, tables', Len(texts'), stack')
  <2>1. Named(toks, 1, Len(texts'), f)
    BY <1>2, <1>3, <1>6 DEF Named, FieldOrSelf
  <2>2. Linked(toks, tables', stack')
    <3>1. LinkAt(tables', stack', 1)
      BY <1>3, <1>5, <1>6 DEF LinkAt
    <3>2. \A j, k \in 1 .. Len(stack') : ~(j < k)
      BY <1>7
    <3> QED
      BY <1>7, <3>1, <3>2 DEF Linked
  <2>3. Pending(toks, tables', stack')
    <3>1. \A v \in Fields(toks, 1) : 1 \notin v .. EndIn(toks, v)
      BY <1>2, FieldFacts
    <3> QED
      BY <1>3, <1>5, <1>6, <1>7, <3>1 DEF Pending
  <2> QED
    BY <1>3, <1>5, <1>6, <1>7, <2>1, <2>2, <2>3 DEF CallsNamed
<1>9. AllSay(tables', Len(texts'), stack')
  <2>1. PICK prefix : stack'[1] = Frame(1, 1, prefix, 1)
    BY <1>4, <1>5
  <2>2. 1 \in 1 .. Len(stack') /\ \A t \in 1 .. Len(tables') : t = 1
    BY <1>5, <1>6
  <2>3. IsNewMap(OwnText(1), 1)
    BY DEF IsNewMap
  <2>4. TableSays(toks, tables', Len(texts'), stack', 1)
    BY <1>2, <1>6, <2>1, <2>2, <2>3, NewTableSays
  <2> QED
    BY <2>2, <2>4 DEF AllSay
<1> QED
  BY <1>8, <1>9

\* Of a text that is not json, a table with the text alone is made.
LEMMA NoDocument ==
    ASSUME CallsOK, Parsed, jw_new, toks[1].type = "UNDEFINED"
    PROVE  AllSay(tables', Len(texts'), stack')
<1>1. /\ TokensOK(toks) /\ 1 \in 1 .. Len(toks) /\ Len(toks) = 1
  BY ListFacts DEF CallsOK, TokensOK, Parsed
<1>2. /\ Len(tables') = 1 /\ tables'[1].of = 1 /\ tables'[1].map = OwnText(1)
  BY FirstTable
<1>3. Fields(toks, 1) = {}
  <2>1. \A v \in Fields(toks, 1) : v \in 1 .. Len(toks) /\ 1 < v
    BY <1>1, FieldFacts
  <2>2. \A v \in Fields(toks, 1) : FALSE
    BY <1>1, <2>1
  <2> QED
    BY <2>2
<1>4. \A n \in DOMAIN OwnText(1) : n = JSON_SYM_NAME /\ OwnText(1)[n].type = "TEXT"
  BY DEF OwnText, TextEntry, Thing
<1>5. Done(toks, stack', 1, 1) = {}
  BY <1>3 DEF Done
<1>6. TableSays(toks, tables', Len(texts'), stack', 1)
  BY <1>1, <1>2, <1>4, <1>5 DEF TableSays, NamesFrom
<1>7. \A t \in 1 .. Len(tables') : t = 1
  BY <1>2
<1> QED
  BY <1>6, <1>7 DEF AllSay

LEMMA jw_newKeeps ==
    ASSUME Handled, CallsOK, Parsed, SaysInv, jw_new
    PROVE  SaysInv'
<1>1. stack = <<>>
  BY DEF SaysInv, jw_new
<1>2. /\ toks' = toks /\ IsList(texts') /\ Len(texts') = 1 /\ texts'[1] = 0
      /\ tables'[1].of = 1 /\ HoldIn(toks, tables', Len(texts'))
  BY FirstTable
<1>3. Holds'
  BY <1>2 DEF Holds
<1>4. AllSay(tables', Len(texts'), stack') => Filled'
  <2>1. \A x \in 1 .. Len(texts') : texts'[x] = 0
    BY <1>2
  <2>2. AllSay(tables', Len(texts'), stack') <=> (AllSay(tables, Len(texts), stack))'
    BY <1>2 DEF AllSay
  <2> QED
    BY <1>2, <2>1, <2>2 DEF Filled
<1>5. CASE toks[1].type = "OBJECT"
  <2>1. phase' = "parse"
    BY <1>5 DEF jw_new
  <2>2. CallsNamed(toks, tables', Len(texts'), stack') /\ Filled'
    BY <1>4, <1>5, FirstCall
  <2> QED
    BY <1>2, <1>3, <2>1, <2>2 DEF SaysInv
<1>6. CASE toks[1].type = "UNDEFINED"
  <2>1. phase' \in {"ready", "null"} /\ stack' = stack
    BY <1>6 DEF jw_new
  <2>2. Filled'
    BY <1>4, <1>6, NoDocument
  <2> QED
    BY <1>1, <1>2, <1>3, <1>6, <2>1, <2>2 DEF SaysInv
<1>7. CASE toks[1].type \notin {"OBJECT", "UNDEFINED"}
  <2>1. phase' = "null"
    BY <1>7 DEF jw_new
  <2> QED
    BY <1>2, <1>7, <2>1 DEF SaysInv
<1> QED
  BY <1>5, <1>6, <1>7

-----------------------------------------------------------------------------
(* The tables and texts are freed.                                         *)

\* Maps that are the same hold the same.
LEMMA SameHolds ==
    ASSUME NEW ts, NEW a, NEW nx, HoldIn(ts, a, nx), NEW b, Len(a) \in Nat, nx \in Nat, Len(b) = Len(a),
           \A t \in 1 .. Len(a) : b[t].map = a[t].map /\ b[t].of = a[t].of
    PROVE  HoldIn(ts, b, nx)
<1>1. Grown(a, nx, b, nx)
  BY DEF Grown
<1>2. HeldMoves(a, nx, b, nx, 0)
  BY DEF HeldMoves
<1>3. FoundMoves(a, nx, b, nx)
  <2>1. \A u \in 1 .. Len(a) : MapKeeps(a[u].map, b[u].map)
    BY SameKept
  <2>2. (\A t \in Len(a) + 1 .. Len(b) : FALSE) /\ \A x \in nx + 1 .. nx : FALSE
    OBVIOUS
  <2> QED
    BY <2>1, <2>2 DEF FoundMoves
<1> QED
  BY <1>1, <1>2, <1>3, HoldsStep

LEMMA jw_nukeKeeps ==
    ASSUME Handled, SafeInv, SaysInv, jw_nuke
    PROVE  SaysInv'
<1> DEFINE f == NukeFrame(1)
<1>1. /\ phase = "ready" /\ phase' = "nuke" /\ stack' = <<f>>
      /\ UNCHANGED <<toks, tables, texts>>
  BY DEF jw_nuke
<1>2. AllLive(tables) /\ Len(tables) > 0
  BY <1>1 DEF SafeInv
<1>3. IsList(texts) /\ Holds /\ \A x \in 1 .. Len(texts) : texts[x] = 0
  BY <1>1 DEF SaysInv, Filled
<1>4. f.st = 1 /\ f.left = InnerOf(tables[1].map)
  BY DEF NukeFrame, Inner, InnerOf
<1> HIDE DEF f
<1>5. Len(stack') = 1 /\ stack'[1] = f
  BY <1>1, ListOne
<1>6. \A t \in 1 .. Len(tables) : tables[t].freed = 0
  BY <1>2 DEF AllLive
<1>7. FreedOnce(tables, texts)
  BY <1>3, <1>6 DEF FreedOnce
<1>8. FreedWith(tables, stack')
  <2>1. \A k \in 1 .. Len(stack') : k = 1
    BY <1>5
  <2> QED
    BY <1>4, <1>5, <1>6, <2>1 DEF FreedWith
<1>9. Emptied'
  BY <1>1, <1>2, <1>7, <1>8 DEF Emptied
<1>10. Holds' /\ IsList(texts')
  BY <1>1, <1>3 DEF Holds
<1> QED
  BY <1>1, <1>9, <1>10 DEF SaysInv

\* A table and what it leads to: a call for each place is made in turn.
LEMMA NukeThingKeeps ==
    ASSUME Handled, SafeInv, SaysInv, NukeThing
    PROVE  SaysInv'
<1> DEFINE f == Top
           m == Len(stack)
           map(t) == tables[t].map
           p == CHOOSE place \in f.left : TRUE
           inner == TableAt(map(f.st), p)
           g == [f EXCEPT !.left = @ \ {p}]
           h == NukeFrame(inner)
           s == SetTop(g)
<1>1. phase = "nuke" /\ f.left # {}
  BY DEF NukeThing
<1>2. /\ IsList(stack) /\ m \in Nat \ {0} /\ f = stack[m] /\ NukeFrameOK(tables, stack, f)
  BY <1>1, NukeFacts
<1>3. Live(InnerTable(f.st, p)) /\ InnerTable(f.st, p) = inner
  <2>1. InnerTable(f.st, p) = inner
    BY DEF InnerTable, TableAt
  <2>2. p \in f.left
    BY <1>1
  <2>3. Unvisited(tables, stack, inner)
    BY <1>2, <2>2 DEF NukeFrameOK, LeadAway
  <2> QED
    BY <2>1, <2>3 DEF Live, Unvisited
<1>4. stack' = Call(g, h) /\ UNCHANGED <<toks, phase, tables, texts>>
  BY <1>3 DEF NukeThing
<1>5. h.st = inner /\ h.left = InnerOf(map(inner))
  BY DEF NukeFrame, Inner, InnerOf
<1>6. g.st = f.st /\ g.left = f.left \ {p}
  <2>1. IsNuke(f)
    BY <1>2 DEF NukeFrameOK
  <2> HIDE DEF f, p
  <2> QED
    BY <2>1 DEF IsNuke
<1>7. IsSetAt(stack, m, g, s)
  <2>1. s = [stack EXCEPT ![m] = g] /\ m \in 1 .. m
    BY <1>2 DEF SetTop
  <2> QED
    BY <1>2, <2>1, ListSet
<1>8. stack' = Append(s, h)
  BY <1>4 DEF Call
<1> HIDE DEF s, g, h
<1>9. IsAppended(s, h, stack')
  BY <1>7, <1>8, ListAppend DEF IsSetAt
<1>10. /\ Len(stack') = m + 1 /\ stack'[m + 1] = h /\ stack'[m] = g
       /\ \A k \in 1 .. m : k # m => stack'[k] = stack[k]
  BY <1>2, <1>7, <1>9 DEF IsSetAt, IsAppended
<1>11. Len(tables) > 0 /\ FreedOnce(tables, texts) /\ FreedWith(tables, stack) /\ Holds /\ IsList(texts)
  BY <1>1 DEF SaysInv, Emptied
<1> HIDE DEF p, inner
<1>12. \A k \in 1 .. m : stack'[k].st = stack[k].st
  BY <1>2, <1>6, <1>10
<1>13. ASSUME NEW k \in 1 .. m + 1, NEW q \in InnerOf(map(stack'[k].st)) \ stack'[k].left
       PROVE  \/ tables[TableAt(map(stack'[k].st), q)].freed = 1
              \/ k < m + 1 /\ stack'[k + 1].st = TableAt(map(stack'[k].st), q)
  <2>1. CASE k = m + 1
    <3>1. stack'[k].st = inner /\ stack'[k].left = InnerOf(map(inner))
      BY <1>5, <1>10, <2>1
    <3> QED
      BY <1>13, <3>1
  <2>2. CASE k = m
    <3>1. stack'[k] = g
      BY <1>10, <2>2
    <3>2. q \in InnerOf(map(f.st)) /\ q \notin f.left \ {p}
      BY <1>6, <1>13, <3>1
    <3>3. CASE q = p
      <4>1. k < m + 1 /\ stack'[k + 1] = h /\ h.st = TableAt(map(f.st), q)
        BY <1>2, <1>5, <1>10, <2>2, <3>3 DEF inner
      <4> QED
        BY <1>6, <3>1, <4>1
    <3>4. CASE q # p
      <4>1. q \in InnerOf(map(stack[m].st)) \ stack[m].left /\ m \in 1 .. m /\ ~(m < m)
        BY <1>2, <3>2, <3>4
      <4>2. tables[TableAt(map(stack[m].st), q)].freed = 1
        BY <1>11, <4>1 DEF FreedWith
      <4> QED
        BY <1>2, <1>6, <3>1, <4>2
    <3> QED
      BY <3>3, <3>4
  <2>3. CASE k # m + 1 /\ k # m
    <3>1. k \in 1 .. m /\ k < m + 1 /\ stack'[k] = stack[k] /\ k + 1 \in 1 .. m
      BY <1>2, <1>10, <2>3
    <3>2. q \in InnerOf(map(stack[k].st)) \ stack[k].left
      BY <1>13, <3>1
    <3>3. \/ tables[TableAt(map(stack[k].st), q)].freed = 1
          \/ stack[k + 1].st = TableAt(map(stack[k].st), q)
      BY <1>11, <3>1, <3>2 DEF FreedWith
    <3> QED
      BY <1>12, <3>1, <3>3
  <2> QED
    BY <2>1, <2>2, <2>3
<1>14. FreedWith(tables, stack')
  <2>1. tables[1].freed = 1 \/ stack'[1].st = 1
    <3>1. 1 \in 1 .. m
      BY <1>2
    <3> QED
      BY <1>11, <1>12, <3>1 DEF FreedWith
  <2>2. Len(stack') > 0
    BY <1>2, <1>10
  <2>3. \A t \in 1 .. Len(tables) : tables[t].freed = 1 =>
            \A q \in InnerOf(tables[t].map) : tables[TableAt(tables[t].map, q)].freed = 1
    BY <1>11 DEF FreedWith
  <2> QED
    BY <1>10, <1>13, <2>1, <2>2, <2>3 DEF FreedWith
<1>15. Emptied'
  BY <1>4, <1>11, <1>14 DEF Emptied
<1>16. Holds' /\ IsList(texts')
  BY <1>4, <1>11 DEF Holds
<1> QED
  BY <1>1, <1>4, <1>15, <1>16 DEF SaysInv

\* What sym_free does to a table, and to the texts in it.
LEMMA TableFreed ==
    ASSUME Handled, SafeInv, SaysInv, NukeTable, NEW f, f = Top
    PROVE  /\ f.st \in 1 .. Len(tables) /\ tables[f.st].freed = 0 /\ Len(tables) \in Nat /\ Len(texts) \in Nat
           /\ Len(tables') = Len(tables) /\ tables'[f.st].freed = 1
           /\ \A t \in 1 .. Len(tables) : tables'[t].map = tables[t].map /\ tables'[t].of = tables[t].of
           /\ \A t \in 1 .. Len(tables) : t # f.st => tables'[t].freed = tables[t].freed
           /\ IsList(texts') /\ Len(texts') = Len(texts)
           /\ \A x \in 1 .. Len(texts) :
                    texts'[x] = texts[x] + IF x \in HeldIn(tables[f.st].map) THEN 1 ELSE 0
<1> DEFINE n == Len(tables)
           nx == Len(texts)
           table == [tables[f.st] EXCEPT !.freed = @ + 1]
           held == HeldIn(tables[f.st].map)
<1>1. phase = "nuke"
  BY DEF NukeTable
<1>2. /\ ShapeOK(tables) /\ n \in Nat /\ NukeFrameOK(tables, stack, f)
  BY <1>1, NukeFacts
<1>3. /\ f.st \in 1 .. n /\ tables[f.st].freed = 0 /\ IsList(tables) /\ TableOK(tables[f.st])
  BY <1>2 DEF NukeFrameOK, ShapeOK
<1>4. IsList(texts)
  BY <1>1 DEF SaysInv
<1>5. nx \in Nat /\ DOMAIN texts = 1 .. nx
  BY <1>4, ListFacts
<1>6. tables' = [tables EXCEPT ![f.st] = table]
  BY DEF NukeTable, FreeTable
<1>7. texts' = [x \in DOMAIN texts |-> texts[x] + IF x \in held THEN 1 ELSE 0]
  BY DEF NukeTable, FreeTable, HeldTexts, HeldIn
<1>8. table.map = tables[f.st].map /\ table.of = tables[f.st].of /\ table.freed = 1
  BY <1>3 DEF TableOK
<1> HIDE DEF table, held
<1>9. IsSetAt(tables, f.st, table, tables')
  BY <1>3, <1>6, ListSet
<1>10. /\ Len(tables') = n /\ tables'[f.st] = table
       /\ \A t \in 1 .. n : t # f.st => tables'[t] = tables[t]
  BY <1>9 DEF IsSetAt
<1>11. /\ \A t \in 1 .. n : tables'[t].map = tables[t].map /\ tables'[t].of = tables[t].of
       /\ \A t \in 1 .. n : t # f.st => tables'[t].freed = tables[t].freed
  BY <1>8, <1>10
<1>12. \A x \in 1 .. nx : texts'[x] = texts[x] + IF x \in held THEN 1 ELSE 0
  BY <1>5, <1>7
<1>13. IsList(texts') /\ Len(texts') = nx
  <2> DEFINE F(x) == texts[x] + IF x \in held THEN 1 ELSE 0
             S == {F(x) : x \in 1 .. nx}
  <2>1. texts' = [x \in 1 .. nx |-> F(x)]
    BY <1>5, <1>7
  <2>2. \A x \in 1 .. nx : F(x) \in S
    OBVIOUS
  <2> HIDE DEF F, S
  <2>3. texts' \in Seq(S) /\ Len(texts') = nx
    BY <1>5, <2>1, <2>2
  <2> QED
    BY <2>3, ListOf
<1> QED
  BY <1>2, <1>3, <1>5, <1>8, <1>10, <1>11, <1>12, <1>13 DEF held

LEMMA NukeTableKeeps ==
    ASSUME Handled, SafeInv, SaysInv, NukeTable
    PROVE  SaysInv'
<1> DEFINE f == Top
           m == Len(stack)
           n == Len(tables)
           nx == Len(texts)
           st == f.st
           tabs == tables'
           stk == stack'
           txs == texts'
           Held(t) == HeldIn(tables[t].map)
           Place(t, q) == TableAt(tables[t].map, q)
<1>1. /\ phase = "nuke" /\ f.left = {} /\ stk = Front(stack) /\ toks' = toks
      /\ phase' = IF m = 1 THEN "gone" ELSE "nuke"
  BY DEF NukeTable
<1>2. /\ IsList(stack) /\ m \in Nat \ {0} /\ f = stack[m]
  BY <1>1, NukeFacts
<1>3. /\ st \in 1 .. n /\ tables[st].freed = 0 /\ n \in Nat /\ nx \in Nat
      /\ Len(tabs) = n /\ tabs[st].freed = 1
      /\ \A t \in 1 .. n : tabs[t].map = tables[t].map /\ tabs[t].of = tables[t].of
      /\ \A t \in 1 .. n : t # st => tabs[t].freed = tables[t].freed
      /\ IsList(txs) /\ Len(txs) = nx
      /\ \A x \in 1 .. nx : txs[x] = texts[x] + IF x \in Held(st) THEN 1 ELSE 0
  BY TableFreed
<1>4. /\ n > 0 /\ FreedOnce(tables, texts) /\ FreedWith(tables, stack) /\ Holds
  BY <1>1 DEF SaysInv, Emptied
<1>5. IsList(stk) /\ Len(stk) = m - 1 /\ \A k \in 1 .. m - 1 : stk[k] = stack[k]
  BY <1>1, <1>2, ListFront
<1>6. \A t \in 1 .. n : \A q \in InnerOf(tables[t].map) : Place(t, q) \in 1 .. n
  <2>1. ShapeOK(tables)
    BY <1>1, NukeFacts
  <2>2. \A t \in 1 .. n : \A q \in InnerOf(tables[t].map) : Place(t, q) \in t + 1 .. n
    BY <2>1 DEF ShapeOK, Forest
  <2>3. \A t \in 1 .. n : \A u \in t + 1 .. n : u \in 1 .. n
    BY <1>3
  <2> QED
    BY <2>2, <2>3
<1> HIDE DEF f, tabs, stk, txs
<1>7. \A t \in 1 .. n : tables[t].freed = 1 => tabs[t].freed = 1
  BY <1>3
<1>8. FreedOnce(tabs, txs)
  <2>1. \A t \in 1 .. n : tables[t].freed \in {0, 1}
    BY <1>4 DEF FreedOnce
  <2>2. \A t \in 1 .. Len(tabs) : tabs[t].freed \in {0, 1}
    BY <1>3, <2>1
  <2>3. ASSUME NEW x \in 1 .. nx
        PROVE  txs[x] = IF \E t \in 1 .. n : tabs[t].freed = 1 /\ x \in HeldIn(tabs[t].map) THEN 1 ELSE 0
    <3>1. texts[x] = IF \E t \in 1 .. n : tables[t].freed = 1 /\ x \in Held(t) THEN 1 ELSE 0
      BY <1>4 DEF FreedOnce
    <3>2. txs[x] = texts[x] + IF x \in Held(st) THEN 1 ELSE 0
      BY <1>3
    <3>3. (\E t \in 1 .. n : tabs[t].freed = 1 /\ x \in HeldIn(tabs[t].map))
            <=> x \in Held(st) \/ \E t \in 1 .. n : tables[t].freed = 1 /\ x \in Held(t)
      <4>1. \A t \in 1 .. n : HeldIn(tabs[t].map) = Held(t)
        BY <1>3
      <4>2. \A t \in 1 .. n : tabs[t].freed = 1 <=> t = st \/ tables[t].freed = 1
        BY <1>3
      <4> HIDE DEF Held, n, st
      <4> QED
        BY <1>3, <4>1, <4>2
    <3>4. x \in Held(st) => ~\E t \in 1 .. n : tables[t].freed = 1 /\ x \in Held(t)
      <4>1. \A t, u \in 1 .. n : x \in Held(t) /\ x \in Held(u) => u = t
        BY <1>4 DEF Holds, HoldIn, HeldOnce
      <4> QED
        BY <1>3, <4>1
    <3>5. CASE x \in Held(st)
      <4>1. texts[x] = 0 /\ txs[x] = texts[x] + 1
        BY <3>1, <3>2, <3>4, <3>5
      <4> QED
        BY <3>3, <3>5, <4>1
    <3>6. CASE x \notin Held(st)
      <4>1. txs[x] = texts[x] + 0 /\ texts[x] \in {0, 1}
        BY <3>1, <3>2, <3>6
      <4>2. txs[x] = texts[x]
        BY <4>1
      <4> QED
        BY <3>1, <3>3, <3>6, <4>2
    <3> QED
      BY <3>5, <3>6
  <2> QED
    BY <1>3, <2>2, <2>3 DEF FreedOnce
<1>9. FreedWith(tabs, stk)
  <2>1. ASSUME NEW t \in 1 .. n, tabs[t].freed = 1, NEW q \in InnerOf(tabs[t].map)
        PROVE  tabs[TableAt(tabs[t].map, q)].freed = 1
    <3>1. tabs[t].map = tables[t].map /\ q \in InnerOf(tables[t].map)
      BY <1>3, <2>1
    <3>2. tables[Place(t, q)].freed = 1
      <4>1. CASE t = st
        <5>1. m \in 1 .. Len(stack) /\ ~(m < Len(stack)) /\ q \in InnerOf(tables[stack[m].st].map) \ stack[m].left
          BY <1>1, <1>2, <3>1, <4>1
        <5>2. tables[Place(stack[m].st, q)].freed = 1
          BY <1>4, <5>1 DEF FreedWith
        <5> QED
          BY <1>2, <4>1, <5>2
      <4>2. CASE t # st
        BY <1>3, <1>4, <2>1, <3>1, <4>2 DEF FreedWith
      <4> QED
        BY <4>1, <4>2
    <3> QED
      BY <1>6, <1>7, <3>1, <3>2
  <2>2. ASSUME NEW k \in 1 .. m - 1, NEW q \in InnerOf(tabs[stk[k].st].map) \ stk[k].left
        PROVE  \/ tabs[TableAt(tabs[stk[k].st].map, q)].freed = 1
               \/ k < m - 1 /\ stk[k + 1].st = TableAt(tabs[stk[k].st].map, q)
    <3> DEFINE t == stack[k].st
    <3>1. k \in 1 .. m /\ k < m /\ stk[k] = stack[k]
      BY <1>2, <1>5
    <3>2. t \in 1 .. n
      <4>1. NukeOK(tables, stack)
        BY <1>1, NukeFacts
      <4> QED
        BY <3>1, <4>1 DEF NukeOK, NukeFrameOK
    <3>3. tabs[t].map = tables[t].map /\ q \in InnerOf(tables[t].map) \ stack[k].left
      BY <1>3, <2>2, <3>1, <3>2
    <3>4. tables[Place(t, q)].freed = 1 \/ stack[k + 1].st = Place(t, q)
      BY <1>4, <3>1, <3>3 DEF FreedWith
    <3>5. stk[k].st = t /\ TableAt(tabs[stk[k].st].map, q) = Place(t, q)
      BY <3>1, <3>3
    <3> HIDE DEF t, Place
    <3>6. CASE tables[Place(t, q)].freed = 1
      BY <1>6, <1>7, <3>2, <3>3, <3>5, <3>6
    <3>7. CASE stack[k + 1].st = Place(t, q) /\ k + 1 = m
      BY <1>2, <1>3, <3>5, <3>7
    <3>8. CASE stack[k + 1].st = Place(t, q) /\ k + 1 # m
      <4>1. k + 1 \in 1 .. m - 1 /\ k < m - 1
        BY <1>2, <3>1, <3>8
      <4> QED
        BY <1>5, <3>5, <3>8, <4>1
    <3> QED
      BY <3>4, <3>6, <3>7, <3>8
  <2>3. tabs[1].freed = 1 \/ (Len(stk) > 0 /\ stk[1].st = 1)
    <3>1. tables[1].freed = 1 \/ stack[1].st = 1
      BY <1>4 DEF FreedWith
    <3>2. 1 \in 1 .. n
      BY <1>3, <1>4
    <3>3. CASE tables[1].freed = 1
      BY <1>7, <3>2, <3>3
    <3>4. CASE stack[1].st = 1 /\ m = 1
      BY <1>2, <1>3, <3>4
    <3>5. CASE stack[1].st = 1 /\ m # 1
      <4>1. 1 \in 1 .. m - 1 /\ m - 1 > 0
        BY <1>2, <3>5
      <4> QED
        BY <1>5, <3>5, <4>1
    <3> QED
      BY <3>1, <3>3, <3>4, <3>5
  <2> QED
    BY <1>3, <1>5, <2>1, <2>2, <2>3, ZenonT(60) DEF FreedWith
<1>10. HoldIn(toks, tabs, nx)
  BY <1>3, <1>4, SameHolds DEF Holds
<1>11. Emptied'
  BY <1>3, <1>4, <1>8, <1>9 DEF Emptied, tabs, stk, txs
<1>12. Holds' /\ IsList(texts')
  BY <1>1, <1>3, <1>10 DEF Holds, tabs, txs
<1>13. m = 1 => stack' = <<>>
  <2>1. IsList(stack') /\ Len(stack') = m - 1
    BY <1>5 DEF stk
  <2> QED
    BY <2>1 DEF IsList
<1>14. phase' = "nuke" \/ (phase' = "gone" /\ stack' = <<>>)
  BY <1>1, <1>13
<1> QED
  BY <1>11, <1>12, <1>14 DEF SaysInv

LEMMA StepToks == ASSUME [Next]_vars PROVE toks' = toks
BY DEF Next, vars, jw_new, ParseStep, jw_nuke, NukeThing, NukeTable, ObjectDone, BadName, Name,
       ScalarValue, ObjectValue, ObjectAgain, ObjectSkip, ArrayValue, ScalarElement,
       ObjectElement, ElementSkip, ArrayElement, ArrayDone, Return, Wild

LEMMA StepParsed == Parsed /\ [Next]_vars => Parsed'
BY StepToks DEF Parsed

LEMMA StepSays == CallsOK /\ SafeInv /\ Parsed /\ SaysInv /\ [Next]_vars => SaysInv'
<1> SUFFICES ASSUME CallsOK, SafeInv, Parsed, SaysInv, [Next]_vars, Handled' PROVE SaysInv'
  BY DEF SaysInv
<1>1. Handled
  BY StepToks DEF Handled
<1>2. CASE jw_new
  BY <1>1, <1>2, jw_newKeeps
<1>3. CASE ParseStep
  BY <1>1, <1>3, ParseStepKeeps DEF Parsed
<1>4. CASE jw_nuke
  BY <1>1, <1>4, jw_nukeKeeps
<1>5. CASE NukeThing
  BY <1>1, <1>5, NukeThingKeeps
<1>6. CASE NukeTable
  BY <1>1, <1>6, NukeTableKeeps
<1>7. CASE UNCHANGED vars
  BY <1>1, <1>7 DEF SaysInv, vars, Filled, Emptied, Holds, AllSay
<1> QED
  BY <1>2, <1>3, <1>4, <1>5, <1>6, <1>7 DEF Next

-----------------------------------------------------------------------------
(* Nuked.                                                                  *)

\* All tables are led to from the first, which is freed last.
LEMMA AllTablesFreed ==
    ASSUME NEW ts, NEW tabs, NEW nx, NEW stk, IsList(tabs), Len(tabs) > 0, Forest(tabs), stk = <<>>,
           \A t \in 1 .. Len(tabs) : tabs[t].freed \in {0, 1}, FreedWith(tabs, stk), AllFound(tabs, nx)
    PROVE  \A t \in 1 .. Len(tabs) : tabs[t].freed = 1
<1> DEFINE n == Len(tabs)
           P == {k \in Nat : \A t \in 1 .. n : t <= k => tabs[t].freed = 1}
<1>1. n \in Nat
  BY ListFacts
<1>2. tabs[1].freed = 1
  BY DEF FreedWith
<1>3. 0 \in P
  BY <1>1
<1>4. ASSUME NEW k \in Nat, k \in P PROVE k + 1 \in P
  <2> SUFFICES ASSUME NEW t \in 1 .. n, t <= k + 1 PROVE tabs[t].freed = 1
    OBVIOUS
  <2>1. CASE t <= k
    BY <1>4, <2>1
  <2>2. CASE t = 1
    BY <1>2, <2>2
  <2>3. CASE t = k + 1 /\ t # 1
    <3>1. t \in 2 .. n
      BY <1>1, <2>3
    <3>2. PICK u \in 1 .. n : \E p \in InnerOf(tabs[u].map) : TableAt(tabs[u].map, p) = t
      BY <3>1 DEF AllFound
    <3>3. PICK p \in InnerOf(tabs[u].map) : TableAt(tabs[u].map, p) = t
      BY <3>2
    <3>4. t \in u + 1 .. n
      BY <3>3 DEF Forest
    <3>5. u <= k
      BY <2>3, <3>4
    <3>6. tabs[u].freed = 1
      BY <1>4, <3>5
    <3> QED
      BY <3>3, <3>6 DEF FreedWith
  <2> QED
    BY <1>1, <2>1, <2>2, <2>3
<1>5. \A k \in Nat : k \in P
  <2> HIDE DEF P
  <2> QED
    BY <1>3, <1>4, AllNaturals
<1> QED
  BY <1>1, <1>5

LEMMA FreedFollows == SafeInv /\ SaysInv => NukeFreesOnce
<1> SUFFICES ASSUME SafeInv, SaysInv, phase = "gone", Handled
             PROVE  /\ \A t \in DOMAIN tables : tables[t].freed <= 1
                    /\ \A x \in DOMAIN texts : texts[x] <= 1
                    /\ (\A t \in DOMAIN tables : NamesDiffer(toks, tables[t].of)) =>
                            /\ \A t \in DOMAIN tables : tables[t].freed = 1
                            /\ \A x \in DOMAIN texts : texts[x] = 1
  BY DEF NukeFreesOnce
<1>1. ShapeOK(tables)
  BY DEF SafeInv
<1>2. /\ stack = <<>> /\ Len(tables) > 0 /\ FreedOnce(tables, texts) /\ FreedWith(tables, stack)
      /\ IsList(texts) /\ HoldIn(toks, tables, Len(texts))
  BY DEF SaysInv, Emptied, Holds
<1>3. /\ DOMAIN tables = 1 .. Len(tables) /\ DOMAIN texts = 1 .. Len(texts)
  BY <1>1, <1>2, ListFacts DEF ShapeOK
<1>4. /\ \A t \in 1 .. Len(tables) : tables[t].freed \in {0, 1}
      /\ \A x \in 1 .. Len(texts) :
            texts[x] = IF \E t \in 1 .. Len(tables) : tables[t].freed = 1 /\ x \in HeldIn(tables[t].map) THEN 1 ELSE 0
  BY <1>2 DEF FreedOnce
<1>5. ASSUME \A t \in DOMAIN tables : NamesDiffer(toks, tables[t].of)
      PROVE  /\ \A t \in 1 .. Len(tables) : tables[t].freed = 1
             /\ \A x \in 1 .. Len(texts) : texts[x] = 1
  <2>1. AllFound(tables, Len(texts))
    BY <1>2, <1>3, <1>5 DEF HoldIn, AllDiffer
  <2>2. \A t \in 1 .. Len(tables) : tables[t].freed = 1
    BY <1>1, <1>2, <1>4, <2>1, AllTablesFreed DEF ShapeOK
  <2>3. \A x \in 1 .. Len(texts) : \E t \in 1 .. Len(tables) : x \in HeldIn(tables[t].map)
    BY <2>1 DEF AllFound
  <2> QED
    BY <1>4, <2>2, <2>3
<1>6. \A t \in 1 .. Len(tables) : tables[t].freed <= 1
  BY <1>4
<1>7. \A x \in 1 .. Len(texts) : texts[x] \in {0, 1}
  BY <1>4
<1>8. \A x \in 1 .. Len(texts) : texts[x] <= 1
  BY <1>7
<1> QED
  BY <1>3, <1>5, <1>6, <1>8

-----------------------------------------------------------------------------
(* Looked up.                                                              *)

\* The nil pointer points at no thing.
NilIsNoThing == \A thing : DOMAIN thing = ThingFields => thing # NIL

\* A thing shows the value it is for, and none shows nothing.
ThingShown(thing, v) ==
    Is(v, StringIn(thing), ValueIn(thing), HasPrim(thing, "BOOL"), HasPrim(thing, "NULL"), HasPrim(thing, "VALUE"),
          TableIn(thing))

LEMMA NothingShown == ThingShown(NIL, 0)
BY DEF ThingShown, Is, StringIn, ValueIn, TableIn, HasType, HasPrim

LEMMA RightShown ==
    ASSUME IsList(tables), \A x \in 1 .. Len(texts) : texts[x] = 0, NilIsNoThing, NEW thing, NEW v, v # 0,
           ThingFor(toks, tables, Len(texts), thing, v)
    PROVE  thing # NIL /\ ThingShown(thing, v)
<1>1. thing # NIL /\ thing.type = toks[v].type
  BY DEF ThingFor, NilIsNoThing
<1>2. DOMAIN tables = 1 .. Len(tables)
  BY ListFacts
<1>3. CASE toks[v].type = "STRING"
  <2>1. thing.prim = "UNKNOWN" /\ thing.val = toks[v].text /\ thing.ref \in 1 .. Len(texts)
    BY <1>3 DEF ThingFor
  <2>2. texts[thing.ref] = 0
    BY <2>1
  <2> QED
    BY <1>1, <1>3, <2>1, <2>2 DEF ThingShown, Is, StringIn, ValueIn, TableIn, HasType, HasPrim, TextOf
<1>4. CASE toks[v].type = "PRIMITIVE"
  <2>1. thing.prim = PrimType(toks[v].text) /\ thing.val = toks[v].num
    BY <1>4 DEF ThingFor
  <2>2. /\ thing.prim = "BOOL" <=> toks[v].text \in {"true", "false"}
        /\ thing.prim = "NULL" <=> toks[v].text \in {"null"}
        /\ thing.prim = "VALUE" <=> toks[v].text \notin {"true", "false"} /\ toks[v].text \notin {"null"}
    BY <2>1 DEF PrimType
  <2> QED
    BY <1>1, <1>4, <2>1, <2>2 DEF ThingShown, Is, StringIn, ValueIn, TableIn, HasType, HasPrim
<1>5. CASE toks[v].type = "OBJECT"
  <2>1. thing.prim = "UNKNOWN" /\ thing.ref \in DOMAIN tables /\ tables[thing.ref].of = v
    BY <1>2, <1>5 DEF ThingFor
  <2> QED
    BY <1>1, <1>5, <2>1 DEF ThingShown, Is, StringIn, ValueIn, TableIn, HasType, HasPrim
<1>6. CASE toks[v].type = "ARRAY"
  <2>1. thing.prim = "UNKNOWN"
    BY <1>6 DEF ThingFor
  <2> QED
    BY <1>1, <1>6, <2>1 DEF ThingShown, Is, StringIn, ValueIn, TableIn, HasType, HasPrim
<1>7. CASE toks[v].type \notin {"STRING", "PRIMITIVE", "OBJECT", "ARRAY"}
  BY <1>7 DEF ThingFor
<1> QED
  BY <1>1, <1>3, <1>4, <1>5, <1>6, <1>7

\* The element that a lookup comes to.
LEMMA ElementFound ==
    ASSUME NEW ts, TokensOK(ts), NEW a \in 1 .. Len(ts), NEW ix \in Int
    PROVE  /\ ts[a].type # "ARRAY" => ElementAt(ts, a, ix) = 0
           /\ ts[a].type = "ARRAY" /\ ix \notin 0 .. ts[a].size - 1 => ElementAt(ts, a, ix) = 0
           /\ ts[a].type = "ARRAY" /\ ix \in 0 .. ts[a].size - 1 =>
                    IsElement(ts, a, ElementAt(ts, a, ix), ix) /\ ElementAt(ts, a, ix) \in 1 .. Len(ts)
<1> DEFINE e == {k \in PartsOf(ts, a) : Cardinality(Before(ts, a, k)) = ix}
<1>1. ElementAt(ts, a, ix) = IF ts[a].type = "ARRAY" /\ e # {} THEN CHOOSE k \in e : TRUE ELSE 0
  BY DEF ElementAt, Before
<1>2. ts[a].type = "ARRAY" => ts[a].size = Cardinality(PartsOf(ts, a)) /\ ts[a].size \in Nat
  BY TokenFacts
<1>3. \A k \in e : IsElement(ts, a, k, ix) /\ k \in 1 .. Len(ts)
  BY PartFacts DEF IsElement
<1>4. \A k \in e : ix \in Nat /\ ix < Cardinality(PartsOf(ts, a))
  BY PartCount
<1>5. ASSUME ts[a].type = "ARRAY", ix \notin 0 .. ts[a].size - 1 PROVE e = {}
  <2> SUFFICES ASSUME NEW k \in e PROVE FALSE
    OBVIOUS
  <2>1. ix \in Nat /\ ix < ts[a].size
    BY <1>2, <1>4, <1>5
  <2> QED
    BY <1>2, <1>5, <2>1
<1>6. ASSUME ts[a].type = "ARRAY", ix \in 0 .. ts[a].size - 1 PROVE e # {}
  <2>1. ix \in Nat /\ ix < Cardinality(PartsOf(ts, a))
    BY <1>2, <1>6
  <2>2. PICK p : IsElement(ts, a, p, ix)
    BY <2>1, PartWithCount
  <2> QED
    BY <2>2 DEF IsElement
<1> HIDE DEF e
<1>7. e # {} => (CHOOSE k \in e : TRUE) \in e
  OBVIOUS
<1> QED
  BY <1>1, <1>3, <1>5, <1>6, <1>7

\* When no call is left a field is found as it is, elements and all.
LEMMA FieldFound ==
    ASSUME TokensOK(toks), IsList(tables), \A x \in 1 .. Len(texts) : texts[x] = 0, stack = <<>>, NilIsNoThing,
           NEW t, NEW r \in 1 .. Len(toks), NEW v \in Fields(toks, r),
           FieldIn(toks, tables, Len(texts), stack, t, r, v)
    PROVE  FieldShown(t, PathOf(toks, r, v), v)
<1> DEFINE name == PathOf(toks, r, v)
           thing == tables[t].map[name]
           size == toks[v].size
<1>1. v \in 1 .. Len(toks) /\ v # 0 /\ size \in Nat
  BY FieldFacts, TokenFacts
<1>2. /\ name \in DOMAIN tables[t].map /\ ThingFor(toks, tables, Len(texts), thing, v)
      /\ toks[v].type = "ARRAY" => ElementsOK(toks, tables, Len(texts), stack, t, name, thing.ele, v)
  BY DEF FieldIn
<1>3. thing # NIL /\ ThingShown(thing, v) /\ thing.type = toks[v].type
  BY <1>1, <1>2, RightShown DEF ThingFor
<1>4. sym_get(t, name) = thing
  BY <1>2 DEF sym_get
<1> HIDE DEF name, thing
<1>5. suss_array(t, name) = IF toks[v].type = "ARRAY" THEN thing ELSE NIL
  BY <1>3, <1>4 DEF suss_array, HasType
<1>6. toks[v].type = "ARRAY" => IsList(thing.ele) /\ Len(thing.ele) = size
  BY <1>2 DEF ThingFor
<1>7. jw_array_len(t, name) = IF toks[v].type = "ARRAY" THEN size ELSE -1
  BY <1>3, <1>5, <1>6 DEF jw_array_len
<1>8. Is(v, jw_string(t, name), jw_value(t, name), jw_is_bool(t, name),
            jw_is_null(t, name), jw_is_value(t, name), jw_blob(t, name))
  BY <1>3, <1>4 DEF ThingShown, jw_string, jw_value, jw_is_bool, jw_is_null, jw_is_value, jw_blob
<1>9. ASSUME NEW ix \in -1 .. size
      PROVE  ElementShown(t, name, ix, ElementAt(toks, v, ix))
  <2> DEFINE ele == suss_element(t, name, ix)
             e == ElementAt(toks, v, ix)
  <2>1. ThingShown(ele, e) => ElementShown(t, name, ix, e)
    BY DEF ThingShown, ElementShown, jw_string_ele, jw_value_ele, jw_is_bool_ele, jw_is_null_ele,
           jw_is_value_ele, jw_obj_ele
  <2>2. ix \in Int
    BY <1>1
  <2>3. CASE toks[v].type = "ARRAY" /\ ix \in 0 .. size - 1
    <3>1. IsElement(toks, v, e, ix) /\ e \in 1 .. Len(toks)
      BY <1>1, <2>2, <2>3, ElementFound
    <3>2. ele = thing.ele[ix + 1]
      BY <1>3, <1>5, <1>6, <2>3 DEF suss_element
    <3>3. ElementSet(stack, t, name, ix)
      BY DEF ElementSet
    <3>4. e # 0
      BY <3>1
    <3> HIDE DEF ele, e
    <3>5. ThingFor(toks, tables, Len(texts), ele, e)
      BY <1>2, <2>3, <3>1, <3>2, <3>3 DEF ElementsOK, IsElement
    <3>6. ThingShown(ele, e)
      BY <3>4, <3>5, RightShown
    <3> QED
      BY <2>1, <3>6 DEF e
  <2>4. CASE ~(toks[v].type = "ARRAY" /\ ix \in 0 .. size - 1)
    <3>1. e = 0
      BY <1>1, <2>2, <2>4, ElementFound
    <3>2. ele = NIL
      BY <1>3, <1>5, <1>6, <2>4 DEF suss_element
    <3>3. ThingShown(ele, e)
      BY <3>1, <3>2, NothingShown
    <3> HIDE DEF ele
    <3> QED
      BY <2>1, <3>3
  <2> QED
    BY <2>3, <2>4
<1>10. jw_exists(t, name) /\ ~jw_missing(t, name)
  BY <1>3, <1>4 DEF jw_exists, jw_missing
<1>11. FieldShown(t, name, v)
  BY <1>7, <1>8, <1>9, <1>10 DEF FieldShown
<1> QED
  BY <1>11 DEF name

LEMMA LookupsFollow == NilIsNoThing /\ CallsOK /\ SafeInv /\ SaysInv => LookupsMatchDocument
<1> SUFFICES ASSUME NilIsNoThing, CallsOK, SafeInv, SaysInv, Handled PROVE LookupsMatchDocument
  BY DEF LookupsMatchDocument
<1>1. TokensOK(toks)
  BY DEF CallsOK
<1>2. ASSUME phase = "ready"
      PROVE  /\ stack = <<>> /\ tables[1].of = 1 /\ AllSay(tables, Len(texts), stack)
             /\ \A x \in 1 .. Len(texts) : texts[x] = 0
             /\ IsList(tables) /\ DOMAIN tables = 1 .. Len(tables)
  <2>1. IsList(tables)
    BY <1>2 DEF SafeInv, ShapeOK
  <2> QED
    BY <1>2, <2>1, ListFacts DEF SaysInv, Filled
<1>3. ASSUME phase = "ready", NEW t \in DOMAIN tables, NEW r, r = tables[t].of, NoClash(toks, r)
      PROVE  /\ \A name \in DOMAIN tables[t].map \ Paths(toks, r) : tables[t].map[name].type = "TEXT"
             /\ \A v \in Fields(toks, r) : GivenLast(toks, r, v) => FieldShown(t, PathOf(toks, r, v), v)
  <2>1. TableSays(toks, tables, Len(texts), stack, t)
    BY <1>2, <1>3 DEF AllSay
  <2>2. Done(toks, stack, t, r) = Fields(toks, r)
    <3>1. Len(stack) = 0
      BY <1>2, <1>3
    <3>2. \A v : AllPast(toks, stack, t, v)
      BY <3>1 DEF AllPast
    <3> QED
      BY <3>2 DEF Done
  <2>3. /\ r \in 1 .. Len(toks)
        /\ \A name \in DOMAIN tables[t].map : name \notin Paths(toks, r) => tables[t].map[name].type = "TEXT"
        /\ \A v \in Fields(toks, r) : LastOf(toks, r, Fields(toks, r), v) =>
                FieldIn(toks, tables, Len(texts), stack, t, r, v)
    BY <1>3, <2>1, <2>2 DEF TableSays
  <2>4. \A v \in Fields(toks, r) : GivenLast(toks, r, v) => LastOf(toks, r, Fields(toks, r), v)
    BY DEF GivenLast, LastOf
  <2>5. ASSUME NEW v \in Fields(toks, r), GivenLast(toks, r, v) PROVE FieldShown(t, PathOf(toks, r, v), v)
    <3>1. FieldIn(toks, tables, Len(texts), stack, t, r, v)
      BY <2>3, <2>4, <2>5
    <3> QED
      BY <1>1, <1>2, <1>3, <2>3, <3>1, FieldFound
  <2> QED
    BY <2>3, <2>5
<1>4. toks[1].type = "OBJECT" => phase # "null" /\ (phase = "ready" => tables[1].of = 1)
  BY <1>2 DEF SaysInv
<1> QED
  BY <1>3, <1>4 DEF LookupsMatchDocument

-----------------------------------------------------------------------------

LEMMA SaysHolds == Spec => [](CallsOK /\ SafeInv /\ SaysInv)
<1>1. Init => CallsOK /\ SafeInv /\ Parsed /\ SaysInv
  BY InitCallsOK, InitParsed, SaysInit DEF Init, SafeInv
<1>2. CallsOK /\ SafeInv /\ Parsed /\ SaysInv /\ [Next]_vars => (CallsOK /\ SafeInv /\ Parsed /\ SaysInv)'
  BY StepCallsOK, StepSafe, StepParsed, StepSays
<1> QED
  BY <1>1, <1>2, PTL DEF Spec

\* For any document that can be handled, jw_new makes a table when it is an
\* object, and each table says what its object does and no more: every lookup of
\* a field, and of an element of an array, gives what the tokens say, of a name
\* given twice the last (jwrapper.c).
THEOREM LookupsAreRight == ASSUME NilIsNoThing PROVE Spec => []LookupsMatchDocument
BY LookupsFollow, SaysHolds, PTL

\* jw_nuke frees no table and no text of such a document twice, and all of them
\* where no name is given twice (jwrapper.c).
THEOREM AllIsFreedOnce == Spec => []NukeFreesOnce
BY FreedFollows, SaysHolds, PTL
=============================================================================
